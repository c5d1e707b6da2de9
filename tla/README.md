# Outly — a TLA+ verification project

Outly is a multi-tenant cold-email platform: FastAPI and Celery services over
PostgreSQL (Supabase), with Redis as broker and rate limiter, and a Next.js
frontend. People prepare campaigns (recipients, sequences of templates, sending
mailboxes); the platform plans one message per recipient and step, sends it
through the provider of its mailbox, and stops when a recipient
replies, bounces or unsubscribes.

PostgreSQL rows are the only truth. Redis, and every Celery task, is a hint that
a row may be ready: it may be lost, late or delivered twice. The interesting
behaviour is therefore what happens between transactions, and that is what these
modules describe.

## Inventory

| Component | State | Operations | Hard part |
|---|---|---|---|
| Scheduler (`scheduler/service.py`, `scheduler/repository.py`, `workers/scheduler.py`) | `messages.status`, `dispatch_generation`, `dispatch_origin`, `claim_expires_at` | discover, claim, recover expired claims | claims race with workers; tasks of an old claim arrive late; limit on outstanding claims |
| Outbox publisher (`scheduler/outbox_repository.py`) | `outbox_deliveries.state`, owner, lease and its generation | lease, publish, mark published or retry, recover stale leases | a publisher dies between the broker and the row; a lease expires under its owner |
| Send worker (`sending/*`, `workers/send_task.py`) | the message row, `message_attempts`, capacity debits | load and lock, gates, reserve, authorize, call the provider, finalize | provider call outside any transaction; crashes; late answers; lost commits |
| Stale execution recovery (`sending/recovery_service.py`) | attempts, message status | read candidates, write each | reads without locks, acts later |
| Reconciliation (`sending/reconciliation_service.py`) | attempts, message status | look the Message-ID up, conclude or wait | only what the provider can confirm may conclude |
| Retry policy (`sending/retry_policy.py`) | `retry_count`, `next_retry_at` | classify, back off | budget and horizon |
| Rate limiter (`rate_limit/limiter.py`, Lua scripts) | Redis windows, buckets, spacing, reservations | reserve, release | several scopes at once, clock edges, generations |
| Rate controller (`rate_limit/controller.py`, `workers/rate_controller.py`) | generation, READY/RECOVERING | bootstrap, rebuild, reconcile | Redis restarts while sends are in flight |
| Campaigns: activation (`activation_service.py`) | `campaigns.status`, planning jobs | activate, pause, resume | locks against workers |
| Campaigns: planning and progression (`workers/campaigns.py`, `progression.py`, `worker_repository.py`) | enrollments, planned messages, job cursors | capture audience, enroll, render, advance | chunks delivered twice, stops in between |
| Pacing and scheduling (`pacing.py`, `scheduling.py`) | none (pure) | due times and windows | boundaries of days and windows |
| Replies and mailbox sync (`replies/*`, `workers/sync_task.py`) | sync leases, checkpoints, conversations | lease, fetch, match, stop recipient, advance | lease lost while syncing, cursor never goes back |
| Provider events (`events/*`, `workers/events.py`) | receipts, suppressions, outcomes | store, claim, process, retry, recover | duplicated and reordered events |
| Suppression and unsubscribe (`suppression/*`, `unsubscribe/*`) | suppressions | suppress, release, unsubscribe | race with authorization |
| Safety holds (`safety/*`) | holds, `pending_safety_count` | hold, release, evaluate | the counter the gate reads must be the number of holds |
| Mailboxes (`mailboxes/*`) | connection state and generation, credentials, limits | connect, disconnect, refresh, cool down | credentials of an old generation in use |
| Drafting and review (`personalization/reference_templates.py`, `previews.py`, `campaigns/service.py`) | sequence steps, objective, preview batches, approvals | edit, draft, preview, approve, freeze | edits and model drafts without locks race the activation |
| Generation (`personalization/jit.py`, `repository.py`) | generations, attempts, daily usage | claim, call, finalize, give back | leases outlived by a billed call |
| Imports, leads and lists (`imports/*`, `leads/*`) | import jobs, row results, leads, members | confirm, chunk, finish; users' commands | a chunk that runs twice beside the users |
| Templates, inbox, tracking, notifications, usage, analytics, teams, admin, erasure, bulk | tenant rows | single requests | one transaction each |
| Frontend | none | pages over the API | not modelled |

A message moves `SCHEDULED -> QUEUED -> SENDING -> SENT`, with detours:
`RETRY_SCHEDULED` (rejected, to be tried again), `UNKNOWN_OUTCOME` (nobody knows
whether the provider took it), and the ends `FAILED`, `SKIPPED`, `CANCELLED`.
The scheduler claims it (`QUEUED`, a new `dispatch_generation`) and writes an
outbox delivery in the same transaction. The publisher turns the delivery into an
`email.send` task. A worker locks message, campaign, enrollment and mailbox, runs
the gates, reserves capacity, runs them again, and commits `SENDING` with a
`PREPARED` attempt. It then calls the provider outside any transaction and
stores the answer. Replies, unsubscribes, suppressions, pauses and
disconnections interfere at every point.

What makes the pipeline correct: an email the provider reported as accepted, or of
which nobody knows, is never sent again; the provider takes at most one copy of a message,
and over HTTP, where a broken connection passes for a rejection, one more for each retry; the
row agrees with the attempts; an authorization is only given while
campaign, recipient and mailbox allow it; and every message leaves `SENDING` and
is resolved in the end. For the other components: no delivery of the outbox is lost and no
stale owner writes (outbox); no window is exceeded, across restarts (rate
limiter and controller); nobody is missed and nobody is written to out of turn
(planning); the checkpoint never passes an unread reply (sync); no email goes out
between an event and its suppression (events); what runs was reviewed (drafting);
billed calls are bounded (generation); one `provider_account_id` is connected in one
workspace, and one receipt sends one test email (mailboxes); no row is skipped or applied twice (imports).

## Modules

| Module | Component | Interacts with |
|---|---|---|
| `SendPipeline`, `SendPromise` | scheduler claims, send worker, recovery, reconciliation | the outbox as `Handoff` sees it |
| `Outbox`, `Handoff` | publication of deliveries | `SendPipeline` abstracts it into `pending` and `leased` |
| `RateLimit` | Redis limiter, rate controller, debits | the reservation that `SendPipeline` grants or denies |
| `ReplySync` | mailbox synchronization, reply matching | stops enrollments, which is `Reply` in `SendPipeline` |
| `Inbound` | bounces, complaints, unsubscribes, holds | row locks of the send worker |
| `Planning` | capture, activation, enrollment, rendering, progression | produces the `SCHEDULED` messages of `SendPipeline` |
| `Drafting` | sequence, objective, previews, approval | ends in the activation `Planning` begins with |
| `Generation` | just-in-time texts | stands between `PLANNED` and `SCHEDULED` for personalized campaigns |
| `Connections` | connects, refreshes, disconnects, test emails | the mailbox that `SendPipeline` and `ReplySync` read |
| `Imports` | CSV imports, leads, lists, manual suppressions | the audience `Planning` captures |

Components meet through rows that both lock; each module contains the other side as
the actions that change those rows (a send worker's locks in `Inbound`, a stop in
`Generation`, a capture's hold on a list in `Imports`), as far as
its properties can tell. What a module leaves out of the other side is said under it.

`SendPipeline` is the core: the life of a message from `SCHEDULED` to its end.
Each action is one database transaction, or the provider call between two.

| Variable | Code |
|---|---|
| `msg` | row of `messages`: `status`, `dispatch_origin`, `dispatch_generation`, claim lease (held, or expired by the clock), `retry_count`, whether `rfc_message_id` is stored |
| `att` | rows of `message_attempts` by ordinal: dispatch generation, `evidence_state`, whether `authorization_deadline` has passed |
| `enrollment`, `suppressed`, `campaign`, `mailbox` | rows the gates read; `blocked` is `blocked_until` in the future |
| `pending`, `leased` | outbox deliveries that may be leased, and those a publisher holds |
| `tasks` | `email.send` tasks in Redis, until acknowledged |
| `wk` | a worker's position: `loaded` (first gates passed, row locks held), `denied` (rolled back, to hand back), `checked` (second gates passed, locks held), `authorized` (committed), `answered` (the provider replied), `finished` (not acknowledged yet) |
| `room`, `stale` | what the scheduler and the recovery sweep have read and will use later |
| `copies` | copies of a message the provider really took: those its adapter did not deny (`taken`) and those it did (`denied`); no process can see it |
| `faults` | faults used so far |

Actions map to functions as PROJECT.json's `map` says. The most important ones:
`Claim` is `claim_due_message`; `RecoverExpiredClaim` is `recover_expired_claim`;
`LoadStops`, `LoadSkips`, `LoadHandsBack` and `LoadPasses` are the outcomes of
`SendingService.execute` up to the reservation; `ReserveDenied`,
`GatesPassAgain`, `AuthorizationAborts` and `Authorize` are
`_authorize_and_send` and `_run_authorization_transaction`; `Invoke` is
`provider.send_message`; the `Finalize...` actions, `NotInvoked` and
`ResultIsLost` are what follows. `FindStaleExecution` and
`RecoverStaleExecution` are the two halves of `recover_stale_executions`.

Decisions a reader should know:

- There is one campaign and one mailbox. A worker that has loaded its rows holds
  the campaign and the mailbox row until it commits (`HoldsGates`), so pauses,
  disconnections, claims of the same campaign and other workers wait (`GatesFree`),
  and statements on the message row wait too (`RowFree`).
- Between the first load and the authorization commit there is one transaction;
  only the denied reservation rolls back and starts another.
- Time is not a number. A claim lease or a deadline expires at any moment; doing
  so while a task or an owner is still alive is a fault and costs one of
  `MaxFaults`. Due times are ignored: a message may be claimed whenever its status allows.
- Where an UPDATE guards on `version`, the guard is the status check the version
  stands for, as the row is locked (authorization) or the version check can only
  fail if the status moved (recovery).
- `Invoke` chooses one of the `Outcomes` of a provider call: what the adapter reports and whether a
  copy was taken. An `UNKNOWN` covers both truths. Over HTTP (`OverHttp`: Gmail and
  Microsoft) so does `TEMPORARY`: both adapters report a connection that broke, and not by a timeout, as
  a rejection that may be retried (`gmail.py:355`, `microsoft.py:422`). The SMTP adapter reports a connection
  lost in submission as `UNKNOWN`. The runs are over HTTP, the harder case; the proofs cover both.
- Reconciliation is one step. It needs a stored Message-ID, which only a worker
  that finished stores, so no late worker competes with it, and a second
  reconciler is stopped by the trigger on conclusive evidence.
- The retry counter a worker uses is the one it loaded; the row's is the same,
  as a message has at most one open attempt.
- An `AUTH_FAILURE` never gets as far as `RETRY_SCHEDULED`: the trigger on
  mailboxes refuses the mailbox update first (`MailboxGuard`, see below).
  The branch stays in `FinalizeAuthFailure` because the code has it.
- Outbox leases are abstract here: a delivery is pending or leased, and a failed or
  dead publisher makes it pending again, possibly after its task was sent.
- Abstracted away: rendering, content digests, recipients' addresses, the
  replied gate (a reply always stops the enrollment, whose gate comes first),
  safety holds and missing configuration (one reason each for `LoadHandsBack`),
  refreshing OAuth credentials, controlled test sends, releasing a suppression,
  audit rows and metrics.

`SendPromise` is the abstract specification: deliveries and verdicts, with no
scheduler, task, worker or attempt. `PromiseKept` in `SendPipeline` states that
the pipeline implements it under the mapping that takes `deliveries` for all copies, `denied` for those
denied, and `verdict` for what the row of the message says. There the next copy is delivered only after every one before
was denied, and no more than `MaxCopies <- RetryBudget + 1` in all; with `MayDeny <- OverHttp` false
it is the plain promise of one delivery.

`Outbox` is what `SendPipeline` abstracts into `pending` and `leased`: the path of a
delivery from the claim's transaction to the broker, with several schedulers.

| Variable | Code |
|---|---|
| `row` | row of `outbox_deliveries`: `state`, `lease_owner`, `lease_generation`, whether `lease_expires_at` and `next_attempt_at` have passed |
| `open` | deliveries whose claim has not been taken back (`recover_expired_claim` may still supersede them) |
| `batch`, `work` | a scheduler inside `publish_pending_deliveries`: what it has read, and the delivery it has leased, sent or failed to send |
| `swept` | what `recover_stale_leases` has read and not yet updated |
| `copies`, `takebacks` | tasks given to the broker, and returns to `RETRY` (history) |

`ReadPending`, `Lease`, `SendTask`, `MarkPublished` and `MarkRetry` are the four
commits of the loop and the call between them; `ReadStale` and `Reclaim` are the SELECT
and the UPDATEs of the sweep, which other transactions may come between.
`SendTask` may fail although the broker took the task. A process publishes and
sweeps in turn (`Free`). The code gives each pass a fresh `publisher_id`; the model
reuses the process's name, where only the generation tells two leases apart, which is
the harder case. `outbox_work.superseded` is left out since nothing sets it.
`Handoff` is the abstract specification: work waits, is taken, is settled only after
it was sent, and is withdrawn only while nobody has it. A superseded row that
still has a lease maps to taken work, as its owner may still mark it.

### `RateLimit`

Redis, the controller that rebuilds it and the senders. `redis` holds the limiter's
keys and the server's `run_id`, `control` is the row of `rate_control`, `debits` the
committed `capacity_debits`; `task` is where an execution stands between its steps
`Resolve` (policies read), `Reserve` (the script), `Verify` (the generation checked
under the lock of `rate_control`), `InsertDebit`, `Commit`, and `Release`. `ctl` is the
controller: `EnterRecovering`, `FlushKey` for each key, `Expose`, `ReadDebits`,
`LoadDebit` for each row, `MarkReady`, `Announce` are the steps of its bootstrap, any
of which may be its last; `Reconcile` is its tick. `RedisRestart` empties Redis.
One scope stands for all, the mailbox's rolling window with its spacing and a limit people may
change; token buckets are left out, as no default policy has one.
`recovered` remembers what the last rebuild read, so that `CapHeld` can count it.

### `ReplySync`

`sync` is the row of `mailbox_sync_states`, `run` what a worker is executing, `stored`
the rows of `inbound_messages` and `assoc` what became of each. `EnsureSyncState`,
`ClaimDue` and `RecoverLease` are the scheduler's, `Deliver`, `Acquire`, `LoadCredential`,
`Fetch`, `StorePage`, `Resync`, `Finish` and `Release` a task's, each one transaction or one call of the provider. A
mail is the position at which it arrived, a page holds one, and a cursor is Gmail's:
a full listing with the history position captured before it, or a history position. The delta
links of Microsoft and `UIDVALIDITY` of IMAP are left out. So are the horizon,
conversations, links of ambiguous mails, and bounces, which are in `Inbound`. A lease under a
running task expires only as a fault.

### `Inbound`

An event arrives as a webhook (`AcceptSafety`: receipt, hold and counter in one
transaction, then a task that may never be queued), as a delivery notification or as a
click. All end in one transaction taken apart at each row lock: `Begin`, `LockNext`,
`Cancel`, `Commit`. A send worker locks message, enrollment and mailbox one by one
(`SendStep`), in another order, so `Detect` is PostgreSQL's deadlock detector; it ends
one transaction of the cycle. Uncommitted writes are kept with the worker. `QUEUED` also stands for
`SCHEDULED` and `RETRY_SCHEDULED`, `ENDED` for `SKIPPED` and `FAILED`. Provider
redeliveries find their receipt and change nothing. Manual suppressions count as faults,
for they only have to come at a bad moment once.

### `Planning`

`job` is the row of `campaign_planning_jobs` (state, lease, cursor) for the capture of an
audience, for ENROLL and for RENDER; `work` is a worker's task between its claim, its reads
and its commit (`CommitCapture`, `CommitAbandon`, `CommitEnroll`, `CommitRender`), after which it queues itself
again (`Continue`). The lease is named after the Celery id, so that a duplicate delivery
passes the claim. The broker is acknowledged when a worker starts, and a crash loses the task.
`BeginSweep` and `EndSweep` are the two halves of progression, under row locks. Members that planning passes over
because their address is suppressed are `PASSED` (no row in the code). Content and due times
are left out.

### `Drafting`

A hyper-personalized campaign before activation. A request reads with no lock (`Ask`) and
writes later (`Answer`): its writes are one step, for the triggers of `campaign_sequences`
and `sequence_steps` take the campaign row and hold it to the commit. `Recheck` and
`WriteDrafts` are the two transactions after the model's answer, `TakeBatch` and `FinishRow` the
preview worker's. A digest is the content it is taken of. One lead is sampled. The lengths of
waits, attachments, the templates' own history and the expiry of samples are left out.

### `Generation`

`gen` is the row of `message_generations` with its ledger: attempts made, the open one,
lease, errors. The first transaction of a chunk claims its rows and reads statement by
statement, so `Claim` and `Load` are two steps, undone together by a crash. The call and
the transaction after it are one (`Finalize`, `TransientError`, `PermanentError`, `Reject`...):
nothing is written in between. A call whose answer times out or whose connection breaks may have been
billed all the same, and `TransientError` then gives its attempt back as if it had not. So does a
crash, which keeps the attempt. A pause gives
the attempt back before the call (`DeferPaused`) or, billed, after it (`Finalize`). A lease may run
out under its worker (`Expire`), as no statement asks who holds it. The research cache, tokens, the sending
window and the purge are left out.

### `Connections`

The mailbox rows of one provider, one for each workspace, of the same account or of different ones, under OAuth and SMTP
connects, updates, disconnects, refreshes and test emails. `accountId` is the
`provider_account_id` of a row, which only the insert writes and the global unique index reads; `account` is
what its newest connection logs in to. For SMTP the two part when `UpdateSmtp` changes host, port or
username. A receipt is what its unique key says: workspace, member with operation, and
Idempotency-Key. `sent` counts the test emails the provider took by receipt, and forgets one whose transaction was
rolled back afterwards, for then the database knows of none. An API request is one transaction with
the provider's call in its middle, so its steps are its reads, the locks it holds, the
call and the commit; an error rolls back all of it, what it wrote to report the error too.
Locks are PostgreSQL's: `FOR UPDATE`, `KEY SHARE` of a foreign key, the lock of an UPDATE.
Beyond `MaxGen` generations a request is rolled back, and flows are not used again.

### `Imports`

`ConfirmImport` inserts the job and sends the task, `CommitConfirm` commits afterwards;
`ClaimJob` takes the job under a lease named after the task's id, `ProcessBatch` handles a batch and
moves cursor and counters in one transaction, `SendAgain` queues the next. Beside them
users create, edit and archive leads and lists, add and remove members, suppress and
release, and an audience capture holds a list. An add-member request checks and inserts in two steps. A
file's content is constant, and `expected_version` is left out: a stale edit changes nothing.

`MC...` modules are what TLC runs. Each module `M` has its theorems in `M_proofs`, which extends
it: `SendPipeline_proofs`, `Outbox_proofs`, `RateLimit_proofs`, `ReplySync_proofs`,
`Inbound_proofs`, `Planning_proofs`, `Generation_proofs` and `Connections_proofs`. `Inbound_proofs`
also extends `Imports`, and `Generation_proofs` extends `Drafting`, with the theorems about them;
what would have the same name in both modules is named after its own (`ImportsSpec`, `DraftingSpec`). An
operator named `X_Something` or `Y_Something` (in the pipeline and the outbox,
`Something_Variant`) just before `Something` is the plausible bug used to
see that a property can fail; it is used by nothing else.

## Runs

| Run | Instance | What it shows |
|---|---|---|
| `PipelineOne` | 1 message over HTTP, 2 workers, 3 generations, 2 attempts, 1 reconnection, 2 faults | what was reported accepted or unknown is never sent again, the fence at authorization, the refinement of `SendPromise`; the inductive invariant, and with it that rows agree with evidence |
| `PipelineLive` | 1 message over HTTP, 2 workers, 7 generations, 4 attempts, 1 fault, fair | a send leaves `SENDING`; in a hospitable end a message is resolved; rejections stay in the budget, copies in the retries |
| `Outbox` | 2 deliveries, 2 schedulers, 2 faults, fair | no copy without a reason, the refinement of `Handoff`, every delivery settles; the inductive invariant |
| `RateLimit` | 2 senders, limits 1 and 2, window 2, spacing 1, clock to 2, 2 faults | a usable limiter remembers what was sent and rebuilt; caps hold; what passes the generation check is counted; a noticed restart is made good |
| `ReplySync` | 2 workers, 2 lease owners, a stray mail and then the reply, 3 generations, 2 faults | no mail is skipped, no follow-up after a matched reply, every reply stops its enrollment |
| `Inbound` | 2 workers, a hard bounce by webhook, its notification by mail and a click, 3 messages, 2 mailboxes, 2 faults | the counter is the number of holds; nothing is sent between event and suppression; every event is applied or lost |
| `Planning` | 2 workers, 1 audience, 2 leads, 2 emails, chunks of 1, 1 fault | revision and capture job agree; nobody is missed; no follow-up out of turn; planning ends |
| `Drafting` | 2 people, 3 emails and 2 waits, from nothing or from email, wait, email, 2 edits, 1 fault | what runs was reviewed with samples; nothing is overwritten unseen; every batch ends |
| `Generation` | 2 workers, 1 message, 2 attempts, 1 transient error, cap 2, 3 faults, 2 pauses | generation and message tell one story; billed calls, those that time out included, are bounded; every job is decided |
| `Connections` | 2 workspaces, 2 requests, 2 flows, 3 generations, each kind of provider, 1 fault; one account, with SMTP also two; one key under the receipts of two workspaces (Gmail) or two members (SMTP) | one workspace per `provider_account_id`; the pointer is on a live credential; one email per receipt; no request waits for ever |
| `Imports` | a file of leads with an invalid row, a file of suppressions with a repeated address, 2 workers, chunks of 1, 1 edit, 2 faults | no row is skipped; counters are those of the rows; nothing a user removed comes back; every import ends |
| `FindBrokenHttp` | as `Connections`, 1 flow | a documented promise that the code breaks (below) |

Bounds. Two workers (requests, people, schedulers) are enough for every race on one row, as a third
could only be another duplicate of the same task; the proofs cover the rest where there
are any. Two items let a chunk, a batch or a sweep find one of them changed. Chunks of one make a chunk boundary fall
between any two rows. `MaxFaults` (`MaxMishaps` in `Imports`, `MaxSlips` in `Drafting`) bounds what goes wrong, not what people and providers do: two faults
allow, for instance, a crash after a duplicated task, or a lease that runs out
under a worker that fails. `Drafting` and `Connections` get by with one because
edits and requests interfere without one, `Planning` because its state space allows no more (about two minutes). `MaxGen`,
`MaxAttempts`, `MaxEdits`, `MaxPauses`, `MaxDispatch` and `MaxClock` only cut long runs
short. In `PipelineLive` they are larger than one fault and the retry budget can use
up, so that the bounds themselves never stop a message. `Identities` and `Asked` say for each provider which accounts are connected and which receipts are asked for: two
rows differ where only an update of SMTP settings can make them meet, and two receipts differ in the workspace or in
the member. Finite systems stop for good once everything is
sent, ended or used up, so runs do not check deadlock; the liveness properties say what must have happened by then.

Fairness. Schedulers loop for ever over their passes, Celery workers consume
as long as they live, requests and model calls have timeouts, and time passes: these are
weakly fair. Nothing is assumed of people, of providers' answers, or of faults.

- `SendPipeline`: each message and generation has its own condition, because every pass takes
  rows in due order and none is overtaken for ever. `EventuallyResolved` takes it
  as a condition that campaign, mailbox and recipient stay in a state that allows sending.
- `Outbox`: per process; each scheduler that lives goes on publishing and sweeping.
- `RateLimit`: the controller only. A restart it cannot notice is excepted (below).
- `ReplySync`: ticks, workers, leases, and that the user reconnects with the scope reading
  needs: without it nothing can be read.
- `Inbound`: strong fairness of the workers' steps, because PostgreSQL grants a row lock in
  the order of its queue, so a waiting transaction that could go on again and again does so in the end.
- `Planning`: strong fairness of the tasks that plan, because the queue is first in, first out and a
  user may ask to abandon a capture for ever; weak fairness of the rest.
- `Drafting`: some idle worker takes the next sample; workers are alike.
- `Generation`: sweeps, workers, and time (the day's budget, due times, leases nobody uses).
- `Connections`: each request's next step. `Imports`: the queue, workers and commits.

## Where code and documents disagree

`FindBrokenHttp` is a run whose counterexample is the behaviour of the code: both HTTP adapters
call a send whose connection broke a definitive rejection (`gmail.py:355`, `microsoft.py:422`), also when it broke after
the provider took the email, although `MESSAGE_STATE_MACHINE.md:73` says that this is no proof of
nonacceptance. The run shows it for a test email, recorded `FAILED` although it was taken. A campaign's message is then
sent again: `NETWORK_ERROR` is retried, although `retry_policy.py:54` says "never blindly retry a potentially successful send".
`SendPipeline` has this behaviour, and claims no more than is left: the provider never takes two copies over SMTP, and over HTTP
no more than the retries account for (`OneCopyPerRetry`); what is sent again has only copies whose rejection was
such a broken connection (`OnlyDeniedIsResent`).

The other differences were met while modelling. The modules follow the code; no property claims the contrary.

Sending

- A claim that expires is given back at its old generation, so a late task still matches it
  and skips the message for good (`sending/repository.py:471` and `workers/send_task.py:26` call it a no-op).
- The worker does not look at its deadline before it calls the provider (`MESSAGE_STATE_MACHINE.md:62`).
- A lost result leaves no Message-ID, so that reconciliation can never find the message (`sending/service.py:534`).
- The mailbox is never marked for reconnection, since a trigger refuses it (`MESSAGE_STATE_MACHINE.md:81`).
- A manual suppression may commit before an authorization that still succeeds (`SUPPRESSION.md:46`).
- A duplicate task can skip a message whose attempt is in flight, and a disconnection at the wrong
  moment fails a message for good (`MESSAGE_STATE_MACHINE.md:25`, `:28`).
- A message set to `RETRY_SCHEDULED` after its enrollment stopped is claimed and given back for ever
  (`scheduler/repository.py:128`), and two schedulers together may exceed the limit of outstanding claims.
- A publisher whose claim was taken back marks the superseded delivery all the same (`EVENT_SYSTEM.md:25`). Between
  SELECT and UPDATE of the stale-lease sweep (`outbox_repository.py:266`) another scheduler may renew
  the lease, which is then taken away: one more duplicate task.

Rate limiter

- A rebuild loads neither spacing nor token buckets, and counts no send that is authorized after it read the debits.
- A tick compares run ids it remembers, and the first only learns one: a restart before it, or a failed
  first bootstrap, leaves every send deferred (`LostRedisIsRebuilt` excepts exactly this).

Replies and events

- A late `mark_sync_unavailable` parks a row that was re-armed for the new connection for good
  (`ParkedForGood`, excepted in `EveryReplyStops`); a late refresh reconnects a mailbox that was disconnected.
- The reconciliation of unmatched mails reads the oldest `ReconcileLimit` of them, which mails that will never match can fill.
- A refused IMAP SEARCH is taken for an empty inbox.
- A delivery notification read before the send is recorded ends `UNMATCHED`, and its hard bounce is never applied.
- An event whose task was lost is not found again, though `webhooks.py` says a sweep will (`Lost` in `EveryEventApplied`).
- A hold stops the event's own mailbox; until the event is applied, other mailboxes may write to the address.
- The lock cycle between send worker and event worker exists, although `DATABASE.md` orders the locks.

Planning, drafting and generation

- Nothing sends a lost planning task again, though `CAMPAIGN_ENGINE.md:85` and
  `CAMPAIGN_STATE_MACHINE.md:66` say so; a retried activation with the same key does not either. The same
  holds for a lost preview task, although its batch "must always end".
- No code starts a `SCHEDULED` campaign or sets `COMPLETED`.
- Progress of ENROLL is an ordinal over all captured leads, its total the number of accepted ones
  (`workers/campaigns.py:465`): an excluded member can end the planning as `FAILED`.
- A late worker of ENROLL can leave a `PLANNED` message after RENDER is `READY`; enrollments whose message was skipped
  or whose address is suppressed stay `ACTIVE`.
- After a deletion positions have gaps, and an activated sequence whose first step is not at position 1 is never enrolled
  (`worker_repository.py:461`). A concurrent deletion undoes a reordering. `put_config` without a version
  overwrites. The digest ignores the lengths of waits.
- `max_attempts` does not bound the billed calls of a message, as `jit.py:17` and `ADR-0012:27` say: a call that
  times out, or whose connection breaks after the request was sent, may be billed, and its attempt is given back as a transient error
  (`jit.py:418-465`); so is that of an answer that finds the campaign paused. Nor are transient errors bounded by
  `max_transient_errors`: workers that overlap on a generation compare the counts they read. `BilledBounded`
  is what is left: one call for each attempt, each error and each attempt a pause gave back, and fewer than `max_attempts`
  errors too many.
- A suppressed message's generation is `SUPERSEDED` while the message stays `PLANNED`; the generation of a message that was stopped stays `PENDING`.

Mailboxes and imports

- Failures recorded by a request that then raises are rolled back: flows never become `FAILED`, and no mailbox
  becomes `RECONNECT_REQUIRED`.
- A test email that was accepted while its mailbox was reconnected is rolled back, and the same receipt sends
  another (`sent` in `OneEmailPerReceipt` forgets the first). A late refresh connects a mailbox again after its disconnection (`DATABASE.md:71`).
- `0003_mailboxes_campaigns.sql:74-76` says that a real account is connected to at most one workspace. `update_smtp_mailbox`
  (`service.py:978-1055`) lets host, port and username move to another account, while the `provider_account_id`
  that the index compares stays: two workspaces can be connected to one real account.
  `OneWorkspacePerAccount` claims it of the id, and of the account only where no update moved it.
- The check that an account is connected nowhere else sees only its own workspace; only the unique index of `provider_account_id` protects.
- The import's task is sent before the commit, a retry of the request sends none, and nothing looks for stalled imports, though `claim_job` and
  `DOMAIN_MODEL.md:83` say so (`lost` in `EveryImportEnds`). Two deliveries with one id both pass the claim (`overlapped`); a chunk handled twice
  makes a released suppression active again. One over-long name fails a whole file.

## Proofs

Each theorem holds for every value of its module's constants that satisfies the module's `ASSUME`, which TLC evaluates
in the runs. None needs the fairness of its specification. Each inductive invariant was
first checked by TLC on the instance of its run; those of the pipeline and the outbox are part of their runs.

### The send pipeline

`SendPipeline_proofs`, from `PipelineAssumption`:

- `Invariance`: `Spec => []PipelineInv`; its consequences `TypeCorrect` and `RowsMatchAttempts` state `TypeOK` and
  `StatusMatchesEvidence`;
- `CopiesArePaidFor` and `RetriesDuplicateOnlyDenied`: `OneCopyPerRetry` and `OnlyDeniedIsResent`;
- `FenceHolds`: `AuthorizationFence`;
- `BudgetIsRespected`: `RejectionsWithinBudget`;
- `PromiseRefinement`: `Spec => PromiseKept`, so the pipeline implements `SendPromise`.

`OneCopyPerRetry` is not inductive: a second worker about to
call the provider would break it. `PipelineInv` has what excludes that worker.
At most one worker holds the gates, and its message is still sendable
(`GatesInv`). The worker that was authorized owns the one open attempt, nobody
else owns it, and until it has an answer every copy that was taken was denied (`OwnersInv`).
A message has at most one open attempt, at most one copy that was taken and not denied, and this copy leaves an
attempt that is open or `ACCEPTED` behind (`AttemptsInv`). With
`StatusMatchesEvidence` a new authorization then finds no open and no accepted
attempt, hence no copy but denied ones (`NothingAccepted`). `CopiesInv` pays for those: every copy but the
last was followed by a retry that was scheduled, and a message that may still be sent, or whose call is not made yet, has
no last one; over SMTP no copy is denied, so there is none. Each action's
preservation is a lemma of its own, grouped by what it can disturb (messages,
attempts, workers); `PipelineNext` puts them together.

`FenceInv` says that what the gates found holds as long as their worker does: every step that could change it is
kept out by the rows the worker locks. The budget needs `CredInv`, that no worker holds a newer
credential than the mailbox's, nor the mailbox's own once it left `CONNECTED`. Hence what an
`AUTH_FAILURE` would write is refused (`AuthFailureRefused`) and rejects nothing; every other rejection
either ends the message or was counted (`BudgetInv`). For the refinement every step is
shown to deliver, to judge or to change nothing `SendPromise` sees.

### The outbox

`Outbox_proofs`, from `OutboxAssumption` (a finite set of schedulers):

- `OutboxInvariance`: `Spec => []OutboxInv`;
- `NoCopyWithoutReason`, `StaleOwnersMarkNothing`: `OneTaskPerTakeback` and
  `OnlyTheOwnerMarks`;
- `HandoffRefinement`: `Spec => HandoffKept`, so the outbox implements `Handoff`.

`OneTaskPerTakeback` compares two counters no single step relates. `CountInv` goes
through the lease generation: copies and leases that may still send are
together no more than the generations used, and all generations but the last ended in
a takeback. `WorkInv` says that what a publisher calls sent was sent, which is what
settling needs in the refinement, and `LeaseInv` that only leased and superseded
rows have an owner.

### The rate limiter

`RateLimit_proofs`, from `RateLimitAssumption`, for any finite set of sends, any caps and any window:

- `RateInvariance`: `Spec => []RateInv`;
- `LimiterRemembers`, `NoWindowOverCap`, `VerifiedAreCounted`: `UsableLimiterRemembers`,
  `CapHeld` and `VerifiedIsCounted`.

`GenInv`: while a generation is rebuilt nobody holds a reservation of it, and Redis is
not usable in it. `WindowInv`: a usable window has everything that matters in it, and the
rebuild gets there step by step. `CapHeld` speaks of one window and says nothing of the cap under which the next
reservation is granted, so it is not inductive. `CapInv` says it of every choice of counted
reservations inside a window: with what the rebuild found there they are no more than the cap
of one of them. A new reservation enters as the member that bounds the choice, because Redis
counted all the others. That a finite set of caps has a largest (`FiniteMax`) is
proved with a minimal counterexample, as induction over finite sets is not available.

### Replies and events

`ReplySync_proofs`, from `ReplySyncAssumption`:

- `SyncInvariance`: `Spec => []SyncInv`;
- `NoMailIsSkipped`, `RepliesStopFollowUps`: `CheckpointCoversRead` and `NoFollowUpAfterReply`.

The checkpoint is written by workers whose lease may be gone, so it is covered only if what each of them
would write is. `RunCovered` says that every mail behind a worker's cursor was handled, and
every mail behind the page in its hands was handled or is in the page.

`Inbound_proofs`, from `InboundAssumption`:

- `InboundInvariance`: `Spec => []InboundInv`;
- `CounterIsRight`, `EventsStopSends`: `CountMatchesHolds` and `NothingSentAfterEvent`.

`SendFact`: a send worker past the gates has the rows of its enrollment and its mailbox, and no event forbids the send.
`StopFact`: a transaction that stops an address has, or will still lock, the row of every active enrollment of it. So
an event cannot be applied between a gate and the send it let through: one of the two waits for the
other. `InboundAssumption` says that those who hold locks are told apart, which identifiers are.

### Imports

The last part of `Inbound_proofs`, from `ImportsAssumption` (a null is no value of a column), for any files, rows,
workers and batch size:

- `ImportsInvariance`: `ImportsSpec => []ImportsInv`;
- `NoRowIsSkipped`, `CountersAreRight`, `NothingReturns`: `NoRowSkipped`, `CountersMatchRows` and
  `NothingComesBack`.

The last two fail when two workers run on one snapshot of a job, which nothing prevents (`overlapped`), while no row is
skipped even then. So `WorkerInv` says of every worker that the rows behind the cursor of *its* snapshot are
handled, and, unless snapshots overlapped, that the snapshot stands where the job stands (`Level`: cursor and
counters). `LoneInv` adds, for a file without overlap, that it has one worker and that no row ahead of its cursor has a result: a batch
then handles each of its rows for the first time, and what it adds to the counters is what it adds to the results
(`BatchCounts`). `ConfirmInv`: a worker has no file whose row is not committed. `NamedInv`: what is not rejected has an address.

### Planning and generation

`Planning_proofs`, from `PlanningAssumption` (the names of revisions are not those of jobs):

- `PlanningInvariance`: `Spec => []PlanningInv`;
- `JobsEndWithRevisions`, `SequenceInOrder`, `PlanningCoversAudience`: `JobMatchesAudience`,
  `OneStepAtATime` and `NobodyMissed`.

`ActivationInv`: before activation nothing is planned, afterwards the revision stays `READY`. `BeginInv`: an enrollment
and its first email begin together. `HoldInv`: what a transaction selected stays as it was, and
two renderings have no email in common. `CursorInv`: nobody accepted is missing behind the cursor of the
job, of a task that works on it, or of a chunk that was read, which is what a late task with an old cursor needs.

`Generation_proofs`, from `GenerationAssumption`:

- `GenerationInvariance`: `Spec => []GenerationInv`;
- `GenerationHasItsMessage`, `CallsAreBounded`: `GenerationMatchesMessage` and `BilledBounded`.

`Account` is the balance behind `BilledBounded`: calls that were billed, and workers that may still
be billed for one, are no more than the attempts counted, those given back at a pause and the transient errors, each of
which gave one back too. For the bound on
errors it counts the workers that read a count below the limit (`Readers`): each may add one error.

### Drafting

The last part of `Generation_proofs`, for any users, steps, texts, batches and workers:

- `ReviewHolds`: `DraftingSpec => []ReviewInv`, and `ActivatedIsReviewed`: `ActivatedWasReviewed`. They need no
  assumption on the constants;
- `VersionsHold`: `DraftingSpec => []VersionInv`, and `NothingIsOverwritten`: `NothingOverwritten`, both from
  `DraftingAssumption` (ids of emails and of waits differ).

`ReviewInv`: every approved digest has a batch of it that was generated in full, and such a batch never changes
(`BatchStays`), which is what makes reading it before the approval harmless. `VersionInv` is about versions and
texts only: what an open request read of a step is the row as it stands, or an older version which the row's own version
tells apart (`Behind`). Every write of the table is shown to go `Onward`: versions do not fall, a text that changes under a live step raises its version, and the id
of a removed step is not used again, so that equal versions mean equal texts. Insertions, deletions and
reorderings apply lists read before, of rows that may be gone; `RepositionMoves`, `InsertMoves` and
`DeleteMoves` prove for any such list that no surviving step changes its text.

### Connections

`Connections_proofs`, from `ConnectionsAssumption`:

- `ConnectionsInvariance`: `Spec => []ConnectionsInv`;
- `AccountHasOneWorkspace`, `PointerStaysLive`, `ReceiptSendsOnce`: `OneWorkspacePerAccount`,
  `PointerIsLive` and `OneEmailPerReceipt`.

A request acts on what it read some steps ago. `HoldersInv` says that one request at most holds the row of a mailbox,
`RequestsInv` that what such a request read of it is still true, and that a request without the row
uses a credential that was once stored. `OneConnected`: of the rows with one `provider_account_id` one at most is connected, and
`MovedInv`: only SMTP mailboxes log in to an account that is not the one of their id. `ReceiptsInv`: one request at
most is authorized for a receipt, and an email that was sent and not rolled back is recorded or in that request's hands.

### Only model-checked

- All liveness properties, for good, as fairness and `ENABLED` are out of the prover's reach: `SendingIsLeft`,
  `EventuallyResolved`, `EveryDeliverySettles`, `LostRedisIsRebuilt`, `EveryReplyStops`, `EveryEventApplied`, `EveryPlanEnds`,
  `EveryBatchEnds`, `EveryJobDecided`, `EveryRequestEnds` and `EveryImportEnds`.
- The documented promise that `FindBrokenHttp` shows broken.

Every safety and action property of the passing runs is a theorem. The inductive invariants of the eight modules after the outbox, `RowsMatchAttempts` and `StaleOwnersMarkNothing` are not properties of a run.

## Plan

1. Done: the pipeline and the outbox with their abstract specifications and proofs; the rate limiter; synchronization,
   events, planning, drafting, generation, connections and imports with their runs.
2. Done: proofs of every safety and action property of these runs, and of both refinements.
3. `SendPipeline` with two messages and a limit of outstanding claims.
4. Invitations and transfers of ownership (`teams`), the one concurrent part of administration.
5. Pacing, back-off and sending windows as functions checked against reference definitions.

## Not modelled

Frontend, administration, access control and row level security, templates, inbox, tracking,
notifications, usage, analytics, erasure and bulk operations: single transactions on tenant rows whose
interleavings PostgreSQL decides, or code without state. HTML, MIME, parsing and provider protocols are data-heavy and other tools check them better. Token buckets,
due times and windows, the fair order among campaigns, idempotency receipts and metrics are left out of the
components that are modelled; PROJECT.json says so for each.
