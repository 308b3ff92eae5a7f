# Verification of the AgentHub OpenAI gateway

TLA+ models of the gateway in `src/backend/app`, model-checked with TLC and, for
every value of their constants, proved with TLAPS. Paths below are relative to
`src/backend/app` unless they start with `src/`.

The gateway is one FastAPI process on one asyncio event loop, in front of a SQL
database (SQLite in WAL mode, through SQLAlchemy's async sessions), of command
line agents it runs as subprocesses, of HTTP providers, and of Hermes, a service
that runs long tasks. A tunnel agent is a second process that carries requests
from a public gateway to the same services.

## 1. What is here

| module | models | state machine of | proofs |
|---|---|---|---|
| `HermesTasks` | `runtime/hermes_task_runner.py`, task handlers of `api/hermes.py` and `api/admin.py`, `services/hermes_tasks.py`, `main.py` lifespan | tasks, queue, workers, cancel handlers, crashes | `HermesTasksProofs` |
| `HermesTaskContract` | what the gateway promises about a task | a task seen from outside | used by `HermesTasksProofs` |
| `HermesEventStream` | `append_hermes_task_event`, the event bus, `stream_task_events` | one task's events and the clients that read them | `HermesEventStreamProofs` |
| `CreditBilling` | `billing/service.py` and the sessions of `api/openai.py`, `api/hermes.py`, `api/admin.py` that use it | one account's balance and ledger | `AccountProofs` |
| `GeminiAcpSlots` | slots, warm-up and retries of `orchestration/chat.py`, `runtime/provider_process_pool.py` | the slots of one provider's runtimes and their users | `GeminiAcpSlotsProofs` |
| `GeminiAcpClient` | `runtime/gemini_acp_client.py`, sessions and models of a slot in `orchestration/chat.py` | one slot, its client, its processes and the requests that hold it in turn | `GeminiAcpClientProofs` |
| `ChatCompletion` | `api/openai.py`, `enforce_limits` and `record_usage`, routes and fallbacks of `orchestration/chat.py`, `services/custom_provider_runtime.py`, the tool rounds of `services/builtin_tools.py` | the requests of one key, from its limits to the row that records them | `ChatCompletionProofs` |
| `GatewayKeys` | `auth/service.py`, keys and accounts in `api/user.py`, `api/admin.py`, `api/auth.py`, `api/portal.py`, `api/internal_public_gateway.py`, `services/public_gateway_contract.py` | the statuses of a key, its account and a web session, and the requests that read, make or change them | `GatewayKeysProofs` |
| `TunnelAgent` | `tunnel/agent.py`, `tunnel/protocol.py` | connections, request tasks and their frames | `TunnelAgentProofs` |
| `UserProviders` | `api/user.py`, `services/provider_presets.py`, the list of custom models | one user's provider, its probes and the requests on it | `AccountProofs` |
| `ProviderCatalog` | `discovery/service.py`, `pricing/service.py`, `registry/service.py`, `services/platform_catalog.py`, `services/model_access.py`, the catalog of `api/admin.py`, the start-up of `main.py` | providers, models, prices and grants, and an administrator's requests | `AccountProofs` |

The three proved about in `AccountProofs` name their types, Init, Next and so on apart, so that it can extend
them all. A module `MC...` gives the constants of the module after its prefix their values for TLC; each
`.cfg` belongs to one run of `PROJECT.json`. `PROJECT.json`
also maps every definition to the lines it translates, lists the hazards of the
code with the properties that cover them, and for each checked property a
*mutant*: a plausible bug in one definition under which TLC finds the property
violated. Definitions with a comment that begins "Mutant:" exist for that only.

## 2. Inventory

For each component: its state, its operations, what it interacts with, what is
hard about it, and what makes it correct.

**Hermes task API** (`api/hermes.py`, twins in `api/admin.py`). No state of its
own. Create (checks the balance, charges the start fee, commits a queued row,
then enqueues), cancel (loads the row, decides, writes `cancel_requested` and an
event), list and read, and the SSE stream of a task's events. Hard: every handler
decides on a row loaded in an earlier step; commit and enqueue are separate.
Correct: an accepted task reaches the queue; a cancel request is not lost and does
not reopen a finished task; a stream has all events, in order, and ends with the
task. *Modelled.*

**Hermes task store and event bus** (`services/hermes_tasks.py`). Rows of
`hermes_tasks` and `hermes_task_events`, subscriber queues in memory. Append (next
number, flush, publish), list after a number, subscribe, unsubscribe. Hard: numbers
are `max(seq) + 1` read without a lock; a message is published before its
transaction commits. Correct: numbers are unique per task and increase; nobody is
told of a row that will not exist. *Modelled.*

**HermesTaskRunner** (`runtime/hermes_task_runner.py`, started by `main.py`). An
in-memory queue and `max_concurrent_tasks` worker coroutines. A worker marks the
task running, follows the Hermes stream under `asyncio.timeout`, ends the task as
completed, failed or cancelled, and charges the runtime. `requeue_open_tasks` fills
the queue at start. Hard: crashes at any await; runtime limit striking inside a
transaction; no lock on a task; a database error kills the worker. Correct: one
owner per task, no open task forgotten, at most one charge, one submission per
process, every accepted task ends. *Modelled.*

**Hermes client** (`services/hermes_client.py`). Stateless HTTP and SSE parsing;
the runner sees events, an end or an error. *Not modelled, external to the runner.*

**Credit billing** (`billing/service.py`). `credit_balance` of an account, the
append-only `credit_ledger`, usage rows. Quote (rejects an account without
credits), settle an inference, fixed charges, manual adjustments. Hard: every
session keeps the balance it loaded at authentication and writes an absolute value
minutes later; failures between answer and settlement. Correct: balance and ledger
agree; nobody pays for what the ledger does not show; debts are bounded. *Modelled, with any amount as the price of a usage.*

**API keys and rate limits** (`auth/service.py`, keys in `api/user.py`,
`api/admin.py`). Key and account rows, usage rows as the log the windows count.
Authenticate, enforce three sliding windows, record usage; create, edit, revoke, delete.
Hard: a request is counted when it ends, so requests in flight are invisible;
refused requests are counted; edits commit what they decided on rows read before. Correct:
served usage within a window is bounded by limit and concurrency; who was shut out stays out
until somebody lets them in again. *Modelled: statuses in `GatewayKeys`, limits in `ChatCompletion`.*

**Chat completions** (`api/openai.py`). No state beyond the request: limits, access,
quote, up to `MAX_BUILTIN_TOOL_ROUNDS` provider rounds, stream or answer, settle,
record the outcome. Hard: failures between rounds, a disconnect in a stream.
Correct: a request leaves one row at most, which charges for every answer it used; its client
gets one answer. *Modelled; the balance behind a settlement is in `CreditBilling`.*

**ChatOrchestrator** (`orchestration/chat.py`). Routes a request by policy: native,
ACP (two attempts), CLI, HTTP; a runtime of Gemini ACP slots, each with a lock, a
client, a session and a model. Hard: the choice of a slot, warm-up in the
background, cancelled waiters, retry after invalidation. Correct: a slot serves one
request at a time; no request waits for ever; a runtime that failed is not used again; a
fallback never follows output; a session is set to the model that was asked for.
*Modelled: slots, warm-up and attempts in `GeminiAcpSlots`, sessions and models in
`GeminiAcpClient`, routes in `ChatCompletion`, the resolution of ids in `ProviderCatalog`.*

**Provider process pool** (`runtime/provider_process_pool.py`). Handles by key.
*Modelled with the slots.*

**Gemini ACP client** (`runtime/gemini_acp_client.py`).
Pending futures by id, per-session queues, a reader task, one process. Hard: late
updates, time-outs that close a shared process, streams that are left in the middle. Correct: an
answer is made of the request's own updates; a request never waits on a dead process for
good. *Modelled.*

**Provider adapters** (`adapters/`). One HTTP call or child process per request, and formats; in
the native Gemini adapter a credential file refreshed on use. Hard: concurrent refreshes.
*Not modelled: an adapter is an answer, a stream that may break, or a failure.*

**Tunnel agent** (`tunnel/`). One websocket, in-flight tasks by request id, a send
lock. Hello, ping, request, cancel, reconnect. Hard: cancel against start and end,
reused ids, errors that leave tasks behind. Correct: frames in order, one final frame for
each request that is not cancelled unless the connection ends, and no task that stays. *Modelled.*

**Instance guard** (`runtime/instance_guard.py`). A pid file. Hard: check-then-write
between processes. Correct: one live holder. *Not modelled.*

**Public gateway contract** (`services/public_gateway_contract.py`,
`api/internal_public_gateway.py`). Introspection, mirrors of accounts and keys,
usage events. Hard: delayed and repeated messages. Correct: only an active key of an active account
is reported active. *Statuses modelled in `GatewayKeys`; quotes and the amounts of events are not.*

**Provider catalog and pricing** (`discovery`, `pricing`, `registry`,
`services/platform_catalog.py`, `services/model_access.py`, `api/admin.py`). Rows
for providers, models, prices and grants. Hard: synchronisation against manual overrides, rows
deleted under a request. Correct: what was set by hand survives; what is listed is served.
*Modelled.*

**User providers** (`api/user.py`, `services/custom_provider_runtime.py`). Rows per
account and slug. Hard: a probe whose result is stored after an update; adding a
deleted slug again. Correct: what a row says of its probe belongs to the target beside it.
*Modelled, except which addresses `services/provider_guardrails.py` accepts: that depends on name
resolution alone.*

**Web accounts and sessions** (`api/auth.py`, `auth/`). Registration, login, the OAuth callbacks, logout, expiry and `me` are in
`GatewayKeys`. Hard: four endpoints may insert one account at once, and only the unique name and email decide.
Correct: one of them makes it. Which of several accounts a subject is linked to, attempt limits, password
hashing and the exchange of codes are not modelled.
**Builtin tools** (`services/builtin_tools.py`): when a tool is run is in `ChatCompletion`, what a page
contains is data.

**Database, settings, migrations** (`core/`, `main.py`): sessions and commits are part of every model
(section 3), the start-up synchronisation is in `ProviderCatalog`; the column backfills, which run
once before anything else, are not modelled. **Logging, workspaces, health, portal**,
**frontend** and **deployment**: *not modelled*: reads without effect, and code outside the backend.

Interactions: API handlers call billing, the task store and the runner directly
and share database rows with them; the runner and handlers reach SSE generators
through the event bus; chat requests reach subprocesses through the orchestrator's
slots; the tunnel agent calls the same services as the HTTP handlers, from another
process and on the same database.

## 3. How the database is modelled

Three facts about the code decide what a step is.

* A session loads a row outside any write transaction (SQLite takes no lock for a
  `SELECT` before the first write), so *loading a row is a step*, and what was
  loaded may be stale in any later step.
* The first write takes the write lock until the commit. So *everything a session
  writes up to its commit is one later step*. `HermesEventStream` splits it in two
  (flush with publish, then commit or rollback), since the message on the bus is
  visible in between; there `pending` is the lock.
* The unit of work updates only columns whose value differs from the loaded one,
  with absolute values; sessions are made with `expire_on_commit=False`
  (`core/db.py:26`), so nothing is loaded again by itself. This is why a worker that
  loaded `running` leaves the status column alone and one that loaded `queued`
  overwrites a cancel request, and why a charge of zero does not touch the balance.

Rows of tasks, accounts and keys are never deleted, so the branches for a missing
row are unreachable and have no action. The session of a streamed response stays
open until the stream ends (FastAPI as pinned in `src/backend/uv.lock`).

## 4. The modules and the code

### HermesTasks

A row is `status`, `started`, `ended` (the two time columns, as set or not),
`lastSeq` and `charges`; `runs` is a history of submissions. `accepted` holds tasks
between the create handler's commit and `runner.enqueue`. Each worker has a place
`pc`, a `job`, and the `seen` status or `base` number it loaded; each cancel handler
has `ctask` and `cseen`.

| code | actions |
|---|---|
| `create_task` | `CreateTask`, `Enqueue` |
| `cancel_task`, admin twin | `CancelLoad`, `CancelWrite` |
| `_worker` | `Dequeue`, `WorkerDies` |
| `_mark_running` | `MarkRunningLoad`, `MarkRunning`, `MarkRunningCancelled` |
| the loop over the Hermes stream | `EventLoad`, `EventDelta`, `EventNumber`, `EventInsert`, `EventCancelled`, `StreamEnds` |
| the except clauses of `run_task_once` | `Abort` |
| `_mark_completed`, `_mark_failed` | `MarkCompleted`, `MarkFailed` |
| `_settle_runtime_usage` | `SettleLoad`, `SettleCommit`, `SettleCancelledCommit` |
| process, `stop`, `requeue_open_tasks` | `Crash`, `Restart` |

An event that is a text delta dirties the row, so its number is read under the
write lock (`EventDelta`); any other event reads `max(seq)` first
(`EventNumber`) and may find its number taken when it inserts (`EventInsert`).
`Quiet` lets a process without work idle, so that deadlock can be checked.

`HermesTaskContract` is the abstract specification: a task is accepted, submitted
some times while open, ends, and is charged at most once after that.
`HermesTasks` implements it with `phase` computed from status and `ended`,
`submissions` from `runs`, and `charges`, which both count: a status overwritten by a late
cancel is invisible outside, but a second charge is no stutter, since the count changes, and no step
of the contract, and neither is a submission after the end.

### HermesEventStream

One task seen by its stream clients. The committed rows are the sequence `log` of
kinds, so a row's number is its index; `pending` is the published, uncommitted row.
The writers are the worker (`WorkerEvent`, `WorkerEnds`, `WorkerCancels`) and a cancel
handler (`CancelLoad`, `CancelEvent`), followed by `Commit` or `Rollback`. A stream is
`Connect` (the handler loads the task), `Subscribe`, `Replay` (stored events, then close if
the loaded status was terminal), `Deliver`. `Drop` is a client that leaves, perhaps in the
middle of the replay, and comes back with its last id; `Restart` loses the bus.

### CreditBilling

One account; each request is one session with what it `loaded`, its `cost` and
its place. Chat and streamed completions go `Load`, `Accept` (the quote), `Answer`, `Settle`;
a task's start fee, a runtime charge and an adjustment go `Load`, `Prepare`, `Settle`.
What a usage costs is any member of `Costs`: tokens and prices decide it, and no
property depends on how. `Disconnect`, `SettleFails` and `Crash` are the losses.
`overlapped` and `added` record that two sessions were open together, and that
credits were added while another session was open; conditional properties use them.

### GeminiAcpSlots

The chat requests of one provider and a warm-up task for each runtime are the users of
slots. `asyncio.Lock` is modelled as it works: a flag and a line. `release` clears the
flag and only wakes the first in line, so until the event loop comes to it the lock looks
unlocked to the scan, while `acquire` joins the line. That is the place `handoff`: a request
that waits for a slot with `selection_lock` in its hands. Steps are what happens between two
awaits that really wait: choosing and taking a free slot, or failing,
invalidating the pool and taking the first slot of a new runtime (`Retry`), cannot
be interleaved with anything.

| code | actions |
|---|---|
| `_gemini_acp_runtime`, `get_or_create` | `CurrentRuntime` in `Begin` |
| `_acquire_gemini_acp_slot` | `Begin`, `Enter` (both through `Select`), `Served` |
| `_ensure_gemini_acp_process_locked`, `_ensure_gemini_acp_session_locked` | `Occupy`, `InitDone` |
| the prompt, its chunks and the finally clause | `Emit`, `Answer`, `Close` |
| the attempts in `run` and `stream_prepared`, `invalidate` | `Retry`, `GiveUp` |
| a stream's client that leaves | `Cancel` |
| `_schedule_gemini_acp_pool_warmup`, `_warm_gemini_acp_idle_slots` | `Schedule` in `Answer`, `WarmBegin`, `WarmTake`, `WarmNext`, `WarmFails`, `WarmClear` |
| `prewarm_provider` (before the first request) | `Init` |

Requests carry the number of their arrival, which loses nothing but names. Whether a
process died since its last use is a free choice in `Occupy`, and any wait on a process may
fail. Only streams are cancelled by their clients; an answer that is not streamed is computed to
its end.

### GeminiAcpClient

One slot with its `GeminiAcpClient`. Requests, numbered by the order in which they get the lock,
hold it in turn. The client is its handles (`process`, `readerTask`), the processes it has started
(`alive`, `reading`, `shut`) and two calls per request, its own and the `session/cancel` of a stream that
was left; `closing` is the process or reader that a call awaits in `close`. `inbox` is what a process
has been sent. `runs`, `said`, `cut` and `answeredBy` are what is true in the process, against which the
cache of the slot (`initialized`, `session`, `model`) and what a request `got` are judged.

| code | actions |
|---|---|
| `_request`, `_ensure_started` | `Issue`, `Spawned`, `SpawnFails` |
| the time-out of a call and `close` | `TimeOut`, `Kill`, `Ended`, `Joined`, `Abandon` |
| `_read_stdout` | `Answer` (`Resolve`), `Update`, `ReaderEnds` |
| `_ensure_gemini_acp_process_locked`, `_ensure_gemini_acp_session_locked` | `Take`, `Stage`, `GoOn`, `Prepared` |
| `prompt`, `prompt_stream` | `RunTask`, `Prompted`, `Finish`, `Fail`, and the finally clause: `Drop`, `SendCancel`, `CleanUp`, `CleanedUp` |
| a client that leaves, at each await | `LeavePreparing`, `LeaveWaiting`, `LeaveYielding` |
| the process (external) | `Effect`, `Die`, a line that is not JSON and a refusal in `Answer` |

Messages between client and process keep their order, a write to a living process does not block, and
a timer of seconds fires only when nothing else is ready (`Quiet`). The warm-up uses of
`initialize` are left to `GeminiAcpSlots`.

### ChatCompletion

The requests of one key, each with what it `ask`s for, and `rows`, the usage records that
`enforce_limits` counts. Every await is a step: `Arrive`, `Check` (one window at a time), `Refuse`;
`Resolve`, `CustomAnswers`, `CustomFails`, `CustomRaises` for a custom provider; `Access`, `Prepare`,
`Quote` for a platform model; `Find`, `RunFails`, `Result`, `Tool` for the rounds, `Again` for the
stream that follows them; `Emit`, `StreamBreaks`, `StreamEnds` and `Replay`, `ReplayEnds` for the two
bodies of a stream; `Settle`, `Success`, `Error` for the row at the end. `Leave` is a client that
disconnects. `Tick` is time. The key is taken as authenticated, which is in `GatewayKeys`, and a commit
as succeeding, which is in `CreditBilling`.

### GatewayKeys

The statuses of one key, its account, which may not exist yet, and one web session (`row`). A request reads each row it
needs in a step of its own and keeps the status (`copy`); what it changes is one step, its commit, and
only if it differs from what was read. The sets `UpdateApiKey`, `RevokeApiKey`, ..., one per
endpoint, say which statuses an endpoint loads and what it writes.

| code | actions |
|---|---|
| `authenticate`, `introspect_api_key`, `record_usage_event` | `ReadKey`, `ReadAccountOfKey` |
| `require_portal_account`, `me` | `ReadSession`, `ReadAccountOfSession` |
| keys at the portal | then `ReadOwnKey`, `Commit` or `Make` |
| `login`, `create_api_key` | `ReadAccount`, `Make` |
| `register` | `CheckFree`, `Insert`, then `Make` for its session |
| `create_account` | `CheckFree` (it checks nothing), `Insert` |
| `upsert_oauth_account`, `finalize_oauth_login` | `ReadOauthAccount`, then `Insert` or `Make`, or `RefuseLink` |
| edits by administrators and by mirrors, `logout` | `ReadRow`, then `Commit`, or `InsertMirror` for a row that a mirror did not find |
| `expires_at` | `Expire` |

`barred`, `late` and `sure` are history: the rows that a request has shut and nobody has opened
since, what of that was so when each request began, and whose edits are not outdated by an opening.

### TunnelAgent

The coroutine `run_forever`/`handle_connection` (`loop`, `backoff`, `connection`) and one task per
request, numbered by arrival. `inflight` is the table by id, `holder` the owner of the send lock,
`cancel` whether `task.cancel()` was called and taken.

| code | actions |
|---|---|
| `run_forever`, `connect_once`, hello | `Connect`, `HelloAnswer`, `Wake` |
| receiving | `ReceiveRequest`, `ReceiveCancel`, `ReceivePing`, `Pong`, `ReceiveGarbage` |
| the end of a connection | `Lose`, `Gone` |
| `_handle_request` | `Begin`, `Reply`, `Chunk`, `CallFails`, `Raised`, `Finish` |
| `_send` | `Write`, `Sent`, and `Thrown` when cancelled or disconnected |

### UserProviders

One slug of one account: `status`, `target` (protocol, address, key), and `probe`, the columns of the last
probe. Adding, patching, deleting and probing read the row (`ReadTo...`) and commit later (`Add`,
`Patch`, `Delete`, `ProbeExistingUserProvider`), with the provider's answer in between. `RunProviderProbe` is the
probe as an operator of the target, of the list of models it returns and of those that answer.
`crossed` and `torn` remember that the last writer of the probe was overtaken, `of` the target that
gave each column its value.

### ProviderCatalog

Rows of providers, models and prices, the mode and grants of an account. An administrator's request is
a sequence of `Parts`, each read (`Read`, `FindProvider`, `CheckAccess`) and committed (`SyncModels`,
`SyncPrices`, `CommitProvider`, ...) in a step. Creating a provider runs the two
synchronisations after it, a rediscovery runs them too and a refresh of prices the second; editing a
provider runs none. `Startup` synchronises all providers before requests are served, from a
fresh database or one that an `Older` version left. Foreign keys are enforced (`core/db.py:18`): a
synchronisation of a provider that was deleted meanwhile fails, and so does a deletion when a
model was added meanwhile. A row that was deleted and made again is `Lost` to a request that had read the one
before, whose commit then changes nothing (an update or deletion by a key that is gone), unless the new one has the same key: the database is
SQLite by default (`core/settings.py:125`), which hands the largest id out again, since SQLAlchemy's
`autoincrement` does not ask it to do otherwise. `reused` remembers that this has happened. `ListPublicModels`, `FilterPlatformModels`,
`CanAccessPlatformModel` and `Resolve` are the code's look-ups as operators. A price is official, set by hand, or
left by an older version: `old`, or an `orphan` if its provider was not there when this version started. The Hermes model is taken as enabled.

## 5. Runs

Each run finishes within three minutes on two workers.

| run | checks | with |
|---|---|---|
| `hermes` | `TypeOK`, `SingleOwner`, `OpenTaskHasOwner`, `ChargedAtMostOnce`, `SubmittedOncePerProcess`, `ImplementsContract`, `EveryTaskEnds`, `SubmittedIsCharged` | 2 tasks, 2 workers, 1 cancel, 1 crash, 1 database error, fairness |
| `stream` | `TypeOK`, `ShownInOrder`, `ShownIsRecorded`, `ClosedAfterEnd`, `ToldStreamCloses` | 2 clients, 1 stream event besides the cancel and final ones, 1 rollback, 1 restart, 1 lost connection |
| `billing` | `TypeOK`, `BalanceIsLedger`, `NothingTaken`, `DebtIsBounded`, `FundsAtAccept` | 3 sessions of every kind, 1 loss |
| `slots` | `LockIsUser`, `WaitersCounted`, `BrokenIsGone`, `EveryRequestEnds` | 4 requests, 2 of them streams, 2 slots, 2 runtimes, 1 cancel, fairness |
| `acp` | `TypeOK`, `OwnUpdates`, `RightModel`, `EveryRequestEnds` | a stream and a request of either kind and model, 2 processes, 1 fault, 1 client that leaves, fairness |
| `chat` | `LimitHolds`, `OneAnswer`, `OneRow` | a platform completion, a custom one and a list of models; a minute's limit of 1 and a day's of 2; 4 ticks |
| `keys` | `RevokedStaysOut`, `CreatedOnce`, `ReopenedOnDemand` | 3 requests of any kind, on an account that exists or not |
| `tunnel` | `FrameOrder`, `CancelFindsRequest`, `EveryRequestEnds` | 2 requests under 1 id or 2, 2 connections, 1 chunk, fairness |
| `userproviders` | `ProbeIsOfTarget`, `LedByProbed` | 4 requests of any kind, 2 protocols, addresses and keys |
| `catalog` | `ListedIsServed`, `OverridesStay` | 3 administrator's requests of any kind, 2 providers with 2 models each, a fresh and two older databases |
| `billing_lost_update` | `EveryChangeIsKept` is violated | charges only, no loss |
| `stream_unpersisted` | `ToldIsPersisted` is violated | 2 clients, 1 stream event, no fault |

Bounds and why they are enough. Ownership and charging go wrong between two
owners of one task or two positions in the queue, so two tasks and two workers
meet every pairing; one cancel handler may be overtaken anywhere between its two steps, and reopen what
has ended since (the theorems are about any number of them); one crash lets a task be requeued in each of its
states, and one database error lets a worker die with each. `MaxSeq` bounds
only the events of the Hermes stream, and three leave room for a number taken by a
cancel handler before, during and after an insert, and for a late cancel to reopen a task
that a restart then charges again, if nothing prevents it. Two clients suffice for the
stream because clients interact only through the bus; the mutant that
unsubscribes all clients needs both. Three sessions are enough for one to load
before and settle after a second one while a third loads in between. Costs 0 and 4
against a balance of 3 and a start fee of 2 give the free, the affordable and the
overdrawing request. Four requests are the fewest that put one at the door of `selection_lock`: one that
had the slot, one that waits for it, one that waits with the selection lock, and the
next. Two runtimes are enough for users of an old one to fail while others use the
new one, which they then invalidate. The theorems below hold without any of these bounds.

In `acp` a second process is what a time-out or a death makes of the first, and one that was left is
followed by one other request, the one it may disturb; a third request would only be disturbed the same
way. In `chat` the three requests are one of each kind that ends in a different place, and three are one
more than the larger limit; a window of one tick and one of three, in four ticks, let a row leave the
first window while it stays in the second, and the time may stand still or pass at each await. In `keys`
a third request is one that begins after two that overlapped. In `tunnel` two requests are enough to
share an id or the send lock, and the second connection is there for tasks of the first that outlive it. In
`userproviders` the fourth request is one that is not overtaken, after two that crossed have written. In
`catalog` one older database has a renamed and disabled model, one that was not supported, and an old price, another
nothing but an orphaned price; an id that is given again goes
to the row of the same model, and the name of a deleted provider is not used again.

Deadlock is checked for the tasks. The other models may stop for good: a
request is used once, connections are counted, and a task's stream ends. That nobody waits
for ever, on the slots, the ACP client or the tunnel's send lock, is `EveryRequestEnds` of each.

Fairness. `HermesTasks`: the event loop runs every coroutine that can run; the Hermes
stream yields or ends because `asyncio.timeout` cuts it off; systemd restarts the process
(`Restart=always`). A worker that a database error has ended is not started again, so `EveryTaskEnds` gives
up the task it had (`DiedWith`) and every task once all workers are dead, but no other one. Clients owe nothing, `Abort` is never forced, and no fairness
is put on a `Crash`. `HermesEventStream`: a transaction that has begun commits if it
does not fail, and a generator that can send does. `GeminiAcpSlots`: the event loop runs whoever can run; every call to a
process goes through `_request`, which times out after 30 seconds and closes the process;
the client of a stream takes what it is sent or leaves. Not covered by the
time-out is a process that stops reading its input while a prompt is written to it
(`runtime/gemini_acp_client.py:119`). `GeminiAcpClient`: the event loop runs what is ready, a
call's time-out comes, and the output of a dead process ends; a living process promises nothing. `TunnelAgent`: the event
loop runs every task, local calls time out, and the peer reads what it is sent or closes
the connection; the agent's connection has no keep-alive of its own (`ping_interval=None`), so a peer that does
neither would hold the send lock. The other modules state no fairness: their properties are about what
may be written, not that it will be.

## 6. What the models show beside what holds

Two runs contradict a sentence of the repository, quoted under `findings` in `PROJECT.json`:

* `billing_lost_update`: of two overlapping sessions the later settlement undoes the earlier change of the
  balance; both are in the ledger (`src/README.md:141`, "every credit change is recorded in `credit_ledger`").
* `stream_unpersisted`: "The worker persists every normalized event before notifying local subscribers."
  (`src/docs/superpowers/specs/2026-04-27-hermes-task-api-design.md:224`), but `append_hermes_task_event`
  publishes after the flush and before the caller's commit (`services/hermes_tasks.py:161-164`). `ShownIsRecorded`
  therefore accepts the row that is about to be committed, and ends with the first rollback.

The following behaviours are reachable in the models too. Where a property is about them, it names
them as the one case it leaves out, so that nothing else can break it unnoticed.

Hermes tasks and their streams:

* The terminal status commits before the charge, and a restart only requeues open tasks, so a crash in
  between never charges the task (`src/README.md:232` promises it; `SubmittedIsCharged` ends with the process).
* A worker that loaded `queued` writes `running` over a cancel request, and the end of the task writes over
  one that no later event noticed. A cancel handler that loaded the task before it was cancelled puts
  `cancel_requested` back, and the row stays open until a restart runs the task's end again (the design document,
  `src/docs/superpowers/specs/2026-04-27-hermes-task-api-design.md:146` and `:314`, says otherwise).
* An event published before a client subscribes and committed after it replays is never sent; a stream whose handler
  loaded an open task misses or replays the final event and waits for ever (`src/README.md:193`). `ToldStreamCloses` is
  about streams whose queue holds the end.
* A message may be published for a row that is rolled back, and the next row uses its number, so a client
  that saw the first skips the second, even the final one (`NoFault` and `rollbacks = 0`).

Billing and chats:

* A client that leaves after the last chunk is not charged, and neither is a stream whose commit fails or whose process
  ends then (`Disconnect`, `SettleFails` and `Crash`; `src/README.md:146`);
  credits added during another session are lost (`added`).
* Requests in flight pass a limit together (`peak` in `LimitHolds`). What a provider raises outside a
  stream, and a refused quote, leave no row. A request that fails after tool rounds pays for none.

Slots and processes:

* `waiters` of a slot stays too high by one for each request cancelled in its line (`cancels` in `WaitersCounted`); a request in
  the place `handoff` keeps every other one from a free slot until the one before it is done; a runtime that is
  invalidated by a failure in another one is abandoned with its processes running.
* A stream left at a yield gives up the slot before the finally clause of `prompt_stream` runs, which then drops the
  queue, and may cancel the prompt, of the request after it; one left while it sets the model leaves
  the old model in the cache (`QuitIn` in `OwnUpdates` and `RightModel`).
* A cancellation that is delivered again can cut a clean-up short and leave the prompt's task. A process that is
  started again inside `_request` gets calls for sessions of the one before. A reader that finishes late drops the
  newer reader task, and its process is given up without being ended.

Keys, tunnel, providers and catalog:

* A revocation that read an already revoked key writes only `revoked_at`, and is outlived by a concurrent
  activation (`sure`); a delayed mirror opens a key again. A usage event that is sent twice is recorded twice.
* A registration or a creation that loses the race for a name or an email is answered 409; a first callback or a
  mirror that loses it ends in an unhandled `IntegrityError`, and so does a callback whose profile has the name of
  another account (`RefuseLink`).
* After a request's answer was handed to the websocket, a cancel may still add a 499; a request cancelled
  before its task first runs, or in the report of a failure, has no final frame. A reused id loses the entry of
  the first task. A frame that does not parse leaves tasks and entries to the next connection.
* Two overlapping writers of one user provider leave a row that mixes the answers of two targets
  (`torn`). A deleted slug cannot be added again: the unique constraint fails, with no handler.
* A disabled model is still served to an id that spells its provider and name, while the administrator's test
  chat refuses it. Two concurrent changes of an account's access may mix the mode of the one with the grants
  of the other. An exposed id that two models share is served by the first row.
* Prices have no foreign key (`pricing/service.py:240-291` does not look for the provider): a refresh that found its
  provider before a deletion, and reads the prices after it, leaves prices without a provider. The start-up of a
  version with other prices passes over them, since it goes by providers; when the provider is created again while one of
  them is being set by hand, the synchronisation that had read the old one overwrites it (`OrphanRead` in `OverridesStay`).
* A patch of a model whose row was deleted, made again and given the same id before its commit writes only the columns
  it changes, so the new row may keep what was set by hand without being marked as overridden; once a
  synchronisation that reads it has seen it so, the id goes (`reused` in `OverridesStay`; it takes five requests).

## 7. What is proved

The theorems hold for every value of the constants under the assumptions named in the modules:
`NumTasksAssumption`, `BoundsAssumption`, `StreamBounds`, `TunnelBounds`, `AcpBounds`, `LimitsAssumption` and those of
`CreditBilling`, which only say that bounds, limits and amounts are numbers of the right sign; `AsksAssumption`
and `AcpModels`, that a request asks for one of the kinds there are, and that no model has the
name that stands for none; `ListsAssumption`, that models are listed by names; `TablesAssumption`, that the models with
an official price are among those the code knows, which is how discovery makes that list (`discovery/service.py:96`); and `OlderAssumption`, that an older version
has left rows of their types, the models of a provider only beside it, and untouched rows as a synchronisation makes
them where the code knows no models; prices may be there without their provider, and the assumption only fixes which old ones are called orphans. Nothing is assumed about the number of workers, clients or requests.
Those of `GeminiAcpSlots` also keep the names of requests and runtimes apart.

**HermesTasksProofs** proves `TypeOK`, `SingleOwner`, `OpenTaskHasOwner`, `ChargedAtMostOnce`,
`SubmittedOncePerProcess` and that `Spec` implements `HermesTaskContract`. The inductive
invariant `IInv` strengthens `SingleOwner`, which is not inductive by itself, with what the
owner of a task may rely on: `Placement` (a worker has a task exactly when it is not
waiting, and a dead process has nothing in memory), `WaitingOK` (what waits in
a queue is open), `RowOK` (how the columns of a row relate), `WorkerOK` (what a worker
at each place knows of its row, in particular that a task about to be charged is
uncharged), `CancelOK` and `RunsOK` (a process that has not submitted a task has one
submission to spare). At most one charge follows because checking and setting
`runtime_usage_record_id` are both done by the single owner. Refinement has one lemma
per abstract action, and shows that every other step is a stutter. A charge is a step of the contract because
the task is not charged yet, which `WorkerOK` says of the worker about to charge it.

**HermesEventStreamProofs** proves `TypeOK`, `ShownInOrder` without any condition, and
`ShownIsRecorded` and `ClosedAfterEnd`. Order needs no more than types, since every way of
sending goes past `After(c)`; the lemmas on appending and concatenating ordered sequences
carry it. The other two need `RecordInv`: until a fault, every message on a queue is a row
or the pending one, and a stream that knew of the end, or a worker that has
finished, has a final row behind it.

**AccountProofs**, first part, proves `TypeOK`, `NothingTaken`, `DebtIsBounded`, `BalanceIsLedger` and `FundsAtAccept` of `CreditBilling`.
`CoverInv`: until credits are added in the middle, the copy of every session in use is no less
than the ledger, so whatever it writes is covered. `FundsInv`: a session past its check has
loaded at least what it checked. `SerialInv`: until two sessions overlap, the copy of
the one session in use is the balance.

Its second part proves `ListedIsServed`, `OverridesStay` and the types (`CatalogTypeOK`) of `ProviderCatalog`. The list and the look-up are made of the
same rows, so the first holds in every state, whatever the rows are. The second is about what a synchronisation writes, which is decided by
rows that it read some steps before, and needs `CatalogInv`: a row that nobody has touched is as a synchronisation makes it
(`RowsTidy`), and was so when it was read (`CopiesTidy`), so that nothing is written to a row that was read untouched; a row that was read
overridden, and is there, still is (`OverridesLast`, which a patch needs that leaves the mark as it was); and no old
price with a newer one in the snapshots outlives the start-up (`PricesTidy`), so that an official price is written over one set by hand only by
a request that read none, which conflicts, or that read an orphan, which is the case the property names. `Shape` says that what a request has read is of its own provider and
together. A step either moves one request and takes rows from the others (`Moved`, `GoesMakingMoves`) or changes tables in the ways of
`TablesMove`; `MoveKeeps` shows once that these keep the invariant.

Its third part proves `ProbeIsOfTarget`, `LedByProbed` and the types (`ProvidersTypeOK`) of `UserProviders`. A request that is not crossed has read
the row as it still is (`SeenIsRow`), so what its probe leaves as it was belongs to the same target. That the
probed model leads the list needs that it was one of the candidates, which are what the probe detected or what the code recommends
(`AnsweredIsCandidate`), and what `Only` does to every list: `OnlyExists` states its recursion, and `OnlyElements` what it returns. The induction
over a list is the least-number principle (`LeastNumber`, from the well-foundedness of the order of numbers): of the positions at which the claim
fails there would be a first one.

**GeminiAcpSlotsProofs** proves `TypeOK`, `LockIsUser`, `BrokenIsGone` and `WaitersCounted`. The inductive
invariant is, beside the types: `Exclusive` and `Chosen` (a lock is set exactly if a user is in
its critical section, and two users are never in the same one), `Placed` (whoever is in a slot or
its line is in a runtime that has been made; a retry relies on it, since it takes a slot of the
next runtime) and `LeftBehind` (what failed was made before and is not in the pool).
The first lemmas say what moving one user in, out or along does to the invariant, as
facts about functions; each action is then one or two such moves. For `WaitersCounted` a move adds one
request to the line of one slot, takes one from it, or leaves all lines as they are, and the counter follows;
a cancelled request leaves the line without it (`Tally`).

**GatewayKeysProofs** proves `TypeOK`, `RevokedStaysOut`, `ReopenedOnDemand` and `CreatedOnce`, for any set of
requests. A decision rests on rows read some steps before, so the invariant says what such a reading is still good
for: a row that is barred is not active (`BarredShut`); what was barred when a request began, and still is, is barred
(`LateBarred`); so a row that a request has found active was not barred when it began, and nothing is added to
what was (`Cleared`); an edit that no opening has outdated knows that its row is not active if it found it so
(`SureKnows`), and only such an edit bars a row. `Kinds` says what a request at each place does. Who has made the
account has left it in existence, where it stays (`MadeStays`), and before that there is no key, no session
and nobody who makes one (`Nobody`).

**ChatCompletionProofs** proves `TypeOK`, `OneAnswer`, `OneRow` and `LimitHolds`. For the first three the place of a
request is enough: it says which routes its client may have chunks of (`Chunks`: none but that of the body
that is being sent), how many of its answers are not among the usages it has collected (`Charged`: one, from the last answer
to its settlement) and which rows it has (`Recorded`). `LimitHolds` is not inductive: a request that passed a window
may be recorded later. `LInv` counts it already: the served rows of a window as it is now, and the requests that have
passed that window and have no row yet (`Past`), are together no more than what is permitted (`Room`). A request passes
only if the rows it counted were fewer than the limit, and the others it cannot see are in flight with it, fewer than
`peak`. Time only takes rows out of a window, and a window that lies in the past can change no more (`Held`).

**TunnelAgentProofs** proves `TypeOK`, `FrameOrder` and `CancelFindsRequest`, which need each other. `Sequenced` says what has
been sent for a request at each place of its task: nothing before the start, no final frame while its call goes
on. That a failure is not reported after an answer rests on `Orderly`, that a connection which has ended does not
come back; that a 499 comes once rests on `Entered`, that the table never names a task that was
cancelled. `Found` is `CancelFindsRequest` for a request whose id no other that has come was given (`Only`): ids
of requests that will come are not fixed yet.

**GeminiAcpClientProofs** proves `TypeOK`, `OwnUpdates` and `RightModel`. The invariant is about what a process may still
do to a request. A message in a process is the one call its request has there (`MailOK`). A prompt or a
`session/set_model` that failed or timed out may run on in the process, but only in a process that is useless, to
which no call is written again (`Stray`): every way a call can fail gives up the process or its reader. A
request is `Good` if its prompt was answered or can still be; so it is alone in its process but for streams that were left
(`Alone`), nobody else adds to its updates (`UpdatesOK`, with `QueueOK` for who listens), and the model of its session does
not change under it (`AnswersOK`). The cache may be wrong about a session's model, but only if the process is useless or
a request is setting it just then (`ModelOK`), and a request goes on from the cache only when none is. The steps
fall into three kinds: those in which requests stay, end or are left and calls only fail or wait (`Moves`, shown once to
keep the invariant), those of a process (`Answer`, `Update`), and those in which a request goes on to its next call (`Goes`).

Only model-checked: liveness (`EveryTaskEnds`, `SubmittedIsCharged`, `ToldStreamCloses`
and `EveryRequestEnds` of three modules), which depends on fairness and ENABLED, out of the prover's
reach; and the two violated properties. Every invariant and every other action property that a run checks is a theorem.

## 8. Plan

There are twelve runs, which is as many as the project keeps, and thirty-nine properties of the passing ones; a
shallower one gives way when a deeper one is found. What is left, in order:

1. Abstract specifications to refine: a pool of exclusive resources under `GeminiAcpSlots`, a request that ends once
   under `ChatCompletion`.
2. `GeminiCredentials` (`adapters/native/gemini.py`): concurrent refreshes of one credential file.
3. The arithmetic of prices (`billing/service.py`, `pricing/service.py`): tiers, rounding to hundredths and the
   minimum charge, as functions checked against a reference definition over bounded inputs.

Not modelled, and why: the adapters' formats, the tools' text extraction and the exchange of OAuth codes are translations of data or
calls to other services, with no state that two steps could disagree on; the frontend calls the
endpoints that are modelled; the instance guard's whole hazard is two processes started at once, which systemd does
not do; migrations and settings are fixed before the first step of any model.
