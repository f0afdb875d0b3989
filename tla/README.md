# A verification development of chickpea

chickpea runs AI agents inside Slack. It keeps its state in SQLite, on
Cloudflare in Durable Objects and on Node in one process, and the part of it
that must not go wrong is what happens between "a message was accepted" and
"the answer is in the thread": processes stop between any two steps, leases
lapse under live workers, Slack takes a post and the acknowledgement is lost.
This directory models that part in TLA+, checks it with TLC on small instances
and proves its main guarantees with TLAPS for all instances.

All source paths are relative to `src/src/` unless they begin with `docs/` or
`tests/`; `PROJECT.json` gives the lines each definition stands for.

Contents: [the system](#the-system) · [the modules](#the-modules) ·
[the runs](#the-runs) · [the proofs](#the-proofs) ·
[where code and intention part](#where-code-and-intention-part) ·
[what is not modelled](#what-is-not-modelled) · [the plan](#the-plan)

## The system

### Components

| component | state it keeps | operations | what makes it correct | modelled |
|---|---|---|---|---|
| work ledger store (`work/store.ts`, `work/migrations.ts`) | runs, run executions, leases and fences, delivery columns, append-only delivery receipts | admit, claim, renew, release, prepare, create/route/mark/settle an execution, record a response, start/finalize a delivery, settle, quarantine | one reply per run; a closed run stays closed; a stale worker changes nothing; runs of one thread in order | `WorkStore` |
| durable run driver (`work/driver.ts`) | the drain in progress, one handler per claim | drain, handle with lease renewal, release | at most one live worker per run as far as leases can tell; every claim is given back | `LedgerDriver` |
| ledger Slack handler (`slack/ledger-turn-driver.ts`, `work/lifecycle.ts`) | nothing of its own: the run, its `turn_jobs` row, the presentation row | execute a turn, replay a recorded response, classify a failure, tell the user of a turn that cannot be recovered | exactly one visible answer, or an operator is asked; every failure ends the turn or retries it a bounded number of times | `LedgerDriver` |
| Flue dispatch and observation (`slack/flue-dispatch.ts`, `slack/turn-jobs.ts`) | the frozen envelope, the observation, the receipt and the saved settlement of a job | freeze, stage, dispatch, attach, save the settlement | a paid turn is never dispatched twice and its outcome is never invented | `LedgerDriver` |
| model invocation marker (`work/model-invocation.ts`) | the execution's invocation state | mark invoked before the first model operation | an execution the ledger calls unsubmitted never reached the model | `LedgerDriver` |
| ledger authority and admission (`work/authority.ts`, `slack/claim-store.ts`) | claims that deduplicate events, the authority frozen per run | admit a run and queue its job in one transaction | no event is lost or admitted twice | transaction only |
| turn queue (`slack/turn-jobs.ts`, `slack/turn-executor.ts`, `slack/follow-ups.ts`) | the rows of `turn_jobs`: attempts, dispatch, fold and stop of each waiting turn | enqueue, fold, late fold, stop, finish a stop, park, reopen, deliver, fail | no message disappears between a fold, a stop and an eviction; a fold never reorders; none is answered twice | `TurnQueue` |
| legacy turn relay (`slack/node-turn-relay.ts`, the observe mode of `work/lifecycle.ts`) | a backlog of ledger writes | run a turn, write to the ledger on the side | the ledger's view never stops or misstates a turn | its ledger writes, in `WorkStore` |
| thread runner (`slack/thread-runner*.ts`, `slack/runner-stops.ts`) | handed-off jobs, stop markers, terminal states to sync, per thread object | hand-off, reattach, stop, sync | an ended turn is not run again; turns run one after the other; a stop aborts its turn and no other | `ThreadRunner` |
| run presentations (`slack/run-presentations.ts`, `slack/presentation-repair.ts`, relays) | projection versions, acknowledged posts | begin, advance, terminal projection, repair | versions never move back; one terminal post | its acknowledgement only; planned |
| gateway inbox (`slack/gateway/inbox.ts`, its drain in `cloudflare.ts`) | a row per delivery with its lease, attempts and age; tombstones; the alarm | admit, claim, complete, retry, recover, sweep, purge | an event is admitted once, handed out a bounded number of times, and ended once its receipt is out | `GatewayInbox` |
| Slack gateway connection (`slack/gateway/client.ts`, `slack/gateway/inbound-admission.ts`) | in-memory admission in front of the inbox | receive, admit, acknowledge | a retry that meets its first copy shares its outcome | planned |
| agent asks (`slack/agent-asks.ts`) | open questions | ask, answer, expire | none lost, none answered twice | not modelled |
| routines (`routines/*`) | schedules, occurrences, admission attempts, delivery leases | claim a slot, admit, prepare, dispatch, settle, deliver, clean up, pause, edit | one message per occurrence; a failure counts once toward a pause; a one-time routine is not stranded | `RoutineRuns` |
| management and approvals (`management/*`) | one-use approvals, change receipts | propose, approve, apply | an approval applies once, to what was approved | planned |
| sandbox workspaces (`sandbox/*`) | container leases, metering | acquire, release, sweep | no live container is stopped, none leaks | planned |
| browser sessions (`browser/*`) | session lease, approvals, deletions | acquire, approve, release | one user of a session | planned |
| object host and restore (`state/*`) | restore protocol over several objects | freeze, copy, switch | no write is lost across a restore | planned |
| connections, identity, configuration, usage and audit, memory, telemetry, model catalog, web and admin UI | tables and calls to other services | record keeping | — | not modelled |

### How they interact

```
 Slack event -> gateway inbox -> admission --one transaction--> runs + turn_jobs
                                                                    |
            alarm / wake pass -> drain (work/driver.ts) -- claim ---+  lease, fence
                                   |                                |
                                   v  one handler per claim         |
                       ledger-turn-driver: prepare, execution, ------> WorkStore
                       envelope, stage, dispatch                    |  (fenced writes)
                                   |        \                       |
                                   |         -> Agent (another object) marks the
                                   |            execution invoked ----^
                                   v
                       response recorded -> attempt started -> post to Slack ->
                       presentation row acknowledged -> receipt -> job retired
```

Everything is written to a local database in transactions that do not
interleave; what interleaves are the *sequences* of transactions and external
calls: two claims of one run after a lapse, the Agent's own writes, an operator's
requests, a handler that outlived its drain, and the process stopping anywhere.

### What is hard here

`PROJECT.json` lists the hazards at their lines with the properties that
would catch them. In short:

* **Leases and fences.** An expired lease is swept *without* bumping the fence
  (`work/store.ts:758`), so until the next claim the old worker's token is still
  the current one; some writes take no fence at all (`work/store.ts:1023`).
* **Delivery of unknown fate.** Between Slack's acknowledgement and the receipt
  (`slack/ledger-turn-driver.ts:562`) a crash leaves a reply that may or may not
  be visible; a retry may duplicate it, no retry may lose it.
* **The Agent is another process.** It carries the name of the execution it was
  given first, while the run is claimed again and again.
* **Late receipts.** A proof of delivery may arrive for a run that is already
  settled, in recovery or quarantined.
* **The inbox.** A drain's lease can be ended under it by any admission's sweep, its instance can be
  replaced while a network call goes on, and what it leaves behind must find an alarm.
* **Order.** Runs of one thread go in the order of a stamp taken before the
  transaction that admits them.
* **The conversation.** Turns of one thread are taken up by two executors (the thread's runner and the alarm of
  the state store), while messages join a turn, a stop drops what waits behind it and parked turns come back.
* **The runner.** An abort stops whatever the thread's Flue instance runs when it lands; one that nobody waits for any
  more can still land. An ending the state store never heard of must not be executed again.
* **Heartbeats.** The scheduler fires every minute and lasts as long as what it executes, so two heartbeats may work on
  one occurrence, from admission to delivery, and either may stop between any two calls.
* **The drain.** One refused release rejects the drain while its other handlers
  run on (`work/driver.ts:119`).
* **Ending.** Every way a turn can fail must end it, retry it a bounded number of
  times, or ask an operator.

## The modules

| module | what it is |
|---|---|
| `RunPromise` | what the ledger promises about a run, with no word of leases, fences or tables |
| `WorkStore` | the ledger store: every operation that changes a run or an execution, with arbitrary callers |
| `MCWorkStore` | constants of its TLC instances |
| `WorkStore_proofs` | its inductive invariant, action properties, ordering theorem and refinement |
| `LedgerDriver` | `WorkStore` with the callers this repository has: drain, handler, Agent, operator, crashes |
| `MCLedgerDriver` | constants and the state constraint of its TLC instances |
| `LedgerDriver_proofs` | the driver implements the store, and what follows |
| `LedgerReply_proofs` | one reply, what is shown against what is booked, and the claims of a batch |
| `GatewayInbox` | the durable inbox of gateway deliveries, the drain that empties it, time and replaced instances |
| `MCGatewayInbox` | constants of its TLC instances |
| `GatewayInbox_proofs` | its inductive invariants: types, one admission, the budget of hand-outs, the grace of an orphaned claim |
| `TurnPromise` | what a conversation is promised about each of its messages |
| `TurnQueue` | the waiting turns of a conversation: folds, stops, parkings, and the executors that take them up |
| `MCTurnQueue` | constants and the state constraint of its TLC instances |
| `TurnQueue_proofs` | its inductive invariant: nothing lost; and that folds keep the order |
| `TurnFates_proofs` | folded and dropped turns never ran, and the table implements `TurnPromise` |
| `ThreadRunner` | the runner of one thread, its stops, the state store behind it and the Flue instance in front |
| `MCThreadRunner` | constants of its TLC instances |
| `ThreadRunner_proofs` | its inductive invariant: no replay, one turn at a time, aborts that spare other turns |
| `RoutineRuns` | the occurrences of a routine, the heartbeats that execute and deliver them, and who controls it |
| `MCRoutineRuns` | constants, constraint, symmetry and view of its TLC instance |
| `RoutineRuns_proofs` | its inductive invariant: one message and one count each, and no stranded one-time routine |

`LedgerDriver` EXTENDS `WorkStore`; `WorkStore` instantiates `RunPromise` through a
refinement mapping, and `TurnQueue` instantiates `TurnPromise`. `GatewayInbox` stands by itself: what leaves it is an
admission (`Receive` of `LedgerDriver`), which deduplicates by itself. `TurnQueue` and `ThreadRunner` are two views of
the same turns: the first has every column of the table and treats an executor as a sequence of its calls; the
second has the runner's own storage, memory and requests, and of the table only what the runner reads and writes.

Operators named `Mutant...` are the definition that follows them with a plausible
bug (a dropped guard, a missing reset). Nothing uses them in a specification:
each one names a way the code could be wrong and a property that would say so.

### RunPromise

A run's `stage` is none, open, attention or closed; its `reply` none, trying,
rejected, sent or unknown. It is opened once and closed for good; a reply is tried
only while the run is open and only if the previous try is known to be rejected; a
proof of delivery closes the run, and is accepted even of a closed one.

### WorkStore

State: `runs` (the rows of `runs`), `execs` (the rows of `run_executions`, keyed by run
and fence), `trail` (the delivery receipts of the append-only audit log, by delivery
attempt id). A run's row has its status, disposition, delivery state, current attempt,
whether its input is prepared, the approved output and its rendering, its lease, its
fence and its admission stamp.

* *One operation, one action.* A public operation of the store runs in one
  transaction. An operation that throws, whose UPDATE fails a CHECK, or whose audit
  INSERT repeats a primary key, leaves the database alone and is no step; a
  replayed call returns the row and is a stutter. The audit insert's key is why an
  attempt id starts once ever: it is derived from the execution (so from the fence)
  and the delivery method, on the replay path from the fence alone, and the model's
  attempt id is `<<fence, method>>`.
* *Time* is abstracted to a lease that is held or has lapsed: `LeaseLapses` is the
  clock passing `lease_until`. A renewal succeeds exactly while the lease is held
  and only moves `lease_until`: a stutter.
* *Claim* is the sweep of expired leases plus the claim, in one action, as in the
  code; `ClaimNothing` is the sweep that commits when there is nothing to claim.
* *Callers* are arbitrary: any fence the run has been given, in any order. A property of
  `WorkStore` is therefore one no bug in a caller can break.
* *Authority* is frozen when a run is admitted: `ledger` runs are claimed under a lease;
  `legacy` runs are written by the legacy runner, whose attempts bring their own fences and
  which closes interrupted runs with `SettleInterruptedRun`.
* `skipped` stands for `cancelled` and `superseded` too (they are accepted and refused in the
  same places). The driver outcome `settled` exists in the store (`ReleaseSettled`) although
  no handler of this version returns it. Work actions are not wired in this version: the only
  one modelled is the unknown outcome that stops a run (`RecordActionUnknown`).

### LedgerDriver

State beyond `WorkStore`'s: `drain` (the drain loop of the process: its phase, claims
left, whether it must stop, the batch of claims it waits for), `worker[r][f]` (the handler of
each claim: where it is, whether it executes or delivers, its verdict, what Slack said, whether
it knows its lease is lost), `job` (the `turn_jobs` row of a ledger turn: its state, attempts,
the execution named by the frozen observation, the dispatch receipt, the saved settlement),
`agent` (the Agent's submission and the input staged beside it), `slack` (how many replies posted under
an attempt are visible, whether a failure was shown that no attempt stands for, whether the presentation row
knows of a message, whether the model-repair reply was sent), and `trouble`, the bound on misfortune.

Each action that touches the ledger is an action of `WorkStore` conjoined with what its
caller does, so the refinement `UsesTheStore` is about the conjunctions that are *not* written
that way and is proved, not assumed.

* *The drain* (`Wake`, `DrainClaim`, `EndBatch`, `EndDrain`) is single flight: a Durable
  Object's alarm, or Node's wake pass. It claims a batch, then handles it, then claims again
  until it has had its claims or a requeue or a lost lease stops it. `ReleaseRefused` is
  `Promise.all` rejecting: the drain ends and the batch's other handlers run on.
* *The handler* walks the control points of `createLedgerSlackRunHandler` and the turn it runs:
  begin the attempt, prepare, create the execution, route, freeze the envelope, stage, dispatch,
  record the receipt, observe, save the settlement, settle the execution, record the response,
  start the attempt, post, acknowledge, finalize, retire the job. A claim of a run whose
  response is recorded goes through `deliverPersistedResponse` (`Replay...`).
* *A failed turn replies too.* From the freeze of the envelope to the settlement of the execution the turn catches
  its errors (`slack/run-turn.ts:2178-2416`): the Agent's failure, and anything that throws at the freeze, at the receipt
  or at the saving of the settlement (`TurnThrows`), lead to `failing`. `SettleFailure` settles the execution as failed or as
  never submitted, and the failure is recorded, started and posted like an answer (`Respond`, `StartDelivery`,
  `Post`), or withheld from a suspended installation (`WithholdReply`).
* *A failure beside the ledger.* If what is refused is the settlement of an *answered* turn (`SettlementRefused`), the same
  catch takes it. The lifecycle is unusable from then on: the second settlement is a gap (`work/lifecycle.ts:408`),
  `beforeDelivery` returns no attempt (`:285`), and the presenter still posts a failure final
  (`run-turn.ts:2382-2415`). `PostUnrecorded` is that post: it can set `slack.beside`, and `slack.known` if the presentation
  row acknowledges it, which a row that already intends or knows another terminal (`NoReplyOnItsWay`, `slack.known`) does
  not do; then the job is retired, or kept if the post throws. What this means for a current handler of the same run is `AlreadyShown`: its
  reply finds the row finalized and posts nothing.
* *Other failures* are `classifyExecutionFailure`, branch by branch (`ClassifyDecided`,
  `ClassifyRejected`, `ClassifyUnsubmitted`, `ClassifyAmbiguous`), reached when the ledger refuses another
  write (`WriteRefused`, with the refusals spelled out in `Refuses`) or something throws before the turn is with the Agent or
  once it replies.
* *The Agent* takes the dispatch (idempotent under the job's key), marks the execution its
  input names, and settles, fails or never starts. `Staging` says which input that is: on
  Cloudflare the observation staged beside the submission (the first staged wins), on Node the
  one frozen in the job.
* *Misfortune*: `Crash` of the process anywhere, a post of unknown fate (which may or may not be
  visible), a failed renewal that the handler may not notice, an interrupted staging, dispatch
  or observation, a dispatch conflict, an Agent that restarts, an installation that ends, an
  operator who quarantines or retires a stale run at any time.
* Store writes are local: they are refused or they succeed, never lost.
* Notices of a turn that cannot be recovered, the model-repair reply and a failure beside the ledger go out outside the
  ledger's receipts and are not counted in `slack.replies`.

### GatewayInbox

State: `inbox` (a row per delivery: status, whether it still has its payload, attempts, age, what is left of
its lease or backoff, the instance that claimed it), `instance` (of the state object), `alarm`, `drain` (whether
the alarm runs, whether it has looked into the inbox, and what it does with each delivery of its batch),
`stray` (what is left of the call a replaced instance was awaiting), `intake` (admissions that have not yet set the
alarm), `slack` (the time since the event was sent) and `ghost` (admissions, hand-outs and receipts, which only the
properties read).

* *The inbox* is synchronous; each operation is one turn of the state object. `Maintained` is `maintain` for one row,
  statement after statement (orphaned and lapsed leases, keys nobody checked, abandoned rows, tombstones), and every
  admission and every claim begins with it, as in the code.
* *Claims* (`ClaimPending`) take the oldest due rows there is room for; the claim of an Add key form takes its key out
  of the row, so a second claim finds no payload and parks it. A row whose payload is unreadable would be parked
  in the same way.
* *The drain* claims one batch after another until it ends; between two of its network calls anything may happen. It
  processes one delivery of a conversation at a time, in any order; the code keeps the order of their admission.
  The passes of the alarm (up to eight, and more while other work goes on) are a drain that may claim again.
* *Outcomes* are `complete`, `markRecoveryRequired` and `retryOrRecover` with and without a backoff; they name a
  delivery, not a claim, and do nothing to a row that is no longer in flight.
* *The receipt* goes out after the alarm is set, for duplicates too (`Receipt`); setting the alarm may fail (`ReceiptFails`).
* *Time* (`Tick`) moves ages, leases and backoffs together; a network call lasts at most `CallTime`, which the
  model takes to be at most the orphan grace, as the code does.
* *`Replace`* is a new instance of the object: it loses everything but the rows and the alarm. A running alarm is
  fired again, by the platform or by `resumeAfterRestart`, which looks for leases of its predecessor.

### TurnQueue

State: `rows` (the rows of `turn_jobs` of one thread: status, order of insertion, which executor has it, attempts,
whether its dispatch was frozen and received, the saved settlement, its role in a stop and in a fold), `exec` (where
the executor of each turn is), `sub` (the submission at Flue), `read` and `cyc` (the messages and the number of late
claims in its model input), `used`.

* *One call, one transaction, one action* (`Enqueue`, `Stop`, `Claim`, `Freeze`, `Prepare`, `Receipt`, `Settlement`,
  `FinishStop`, `Record`, `LateFold`, `OperatorCancels`, `ResolveRecovery`, `Reopen`, `HandOver`, `PreflightFails`).
  What `markDelivered`, `markError`, `markRecoveryRequired` and `finishStop` do to the *other* rows is in the operators
  `Delivered`, `Errored`, `ParkedAs` and `FinishedStop`.
* *Executors.* `Ready` says which turn an executor takes up: the runner in order of insertion, the alarm only
  what was dispatched before the hand-over. `Interrupt` is an eviction, a yield or an attempt that failed.
* *Folds.* A claim takes the contiguous run of rows behind the turn that may join (`Takes`); how many of them fit
  in the text is the choice `n`. A late claim counts the earlier ones as read first, and its answer, or the count
  of it, may be lost (`LateFold`).
* *Stops.* A stop marks its head and holds what waits before its cutoff; the hold is read through the head
  (`StopRole`), so an ending of the head releases without writing the held rows.
* *Time* does not matter to these rows except for the 30-day backstop, which is left out.

`TurnPromise` gives each message one fate: answered, folded, dropped or failed. The mapping `FateOf` reads it off the row.
A reply ends its message and the messages it read in one step (`Answer`). `AnswerLate` is the one exception: a run may
outlast its message. That takes four messages and two reconnections: *u*, parked after its dispatch, is answered after all
while *h*, reopened behind it, is stopped and holds *t*, which is being executed; *u*'s reply ends *h*, *t* dispatches and takes
*m* late, *h*'s stop drops *t*, and *t*'s reply still ends *m* (`markDelivered` calls `settleFoldMembers` whatever the status,
`turn-jobs.ts:2916`). `NothingLost` holds there too. The bounds of `Queue` (three messages, one parking) do not
reach it; the refinement is proved with it, and that without reopened turns no answer is late (`InTime`).

### ThreadRunner

State: `row` (what the runner uses of `turn_jobs`), `job` and `stop` (its tables `runner_jobs` and `runner_stops`),
`mem` (what an eviction loses: receipts and settlements noted, cascades under way, the abort request of each turn),
`run` (the turn its alarm executes, where, and the row as `begin` read it), `host` (the submission of each turn), `net`
(dispatches on their way, aborts nobody waits for), and the ghost `told`.

* *The alarm* (`Begin` to `MarkDelivered`) runs one turn at a time through the checkpoints of its row: it waits for
  abort requests to be answered, prepares, dispatches, notes the receipt, observes, notes the settlement, starts the
  coding cascade, posts, settles its own job, and tells the state store. `Leave` is the end of its budget, a new version
  or a failed attempt; `Evict` forgets `mem` and `run`.
* *The `stop` RPC* (`Receive`) is one action up to the sending of the abort: the object's input gate is
  open only while it waits for the answer. The answer comes later (`Answer`), or is given up (`GiveUpRequest`).
* *The state store* hands turns over in order (`Admit`, whose answer may be lost), owes notices of stops until they are
  acknowledged, and ends deferred turns through its outbox (`OutboxDelivers`).
* *Flue* keys a dispatch by the turn, so a repeated one finds its submission; an abort hits whatever runs when it lands.

### RoutineRuns

State: `routine` (its state, what it waits for, failures in a row, version), `occ` (the rows of `routine_runs` with the
latest admission attempt: status, trigger, lease, envelope, receipt, settlement, delivery and its cause), `exec` (what
each heartbeat is doing and what it has read), `sub`, and the ghosts `posts` (messages put in the destination) and
`blamed` (occurrences counted as failures since the last reset).

* *A heartbeat* lists an occurrence, admits it, prepares the dispatch, dispatches, follows, settles, and finalizes;
  each of these is one call of the store, and what it read earlier (`queued`, the version, the attempt, the phase) is
  kept in `exec` because the code keeps it across the calls.
* *Endings* go through `Ends`, which applies `Outcome` to the routine: a failure is counted, disables, pauses or is of no
  consequence, by its class. Classes stand for the failure codes of the code, by what `applyRoutineOutcome` does with them.
* *Delivery* is claimed once (`Claims`), for the result or for the notice of a failure; a post may be taken, refused, or
  not be heard of. A lapsed delivery is recorded as unknown, never made again.
* *Time* is the age of an occurrence (before its deadline, after it, a grace after it) and the two leases.
* *People* pause, disable, resume, edit and run now, in any state the code accepts.

## The runs

| run | question | instance | states |
|---|---|---|---|
| `StoreLedger` | is a run consistent under every order of calls, fresh and stale, owned by the ledger or by the legacy runner, and do runs of one thread stay in order when admitted in order? | 3 runs, one at a time in detail (2 fences, 2 methods, 1 answer, 2 renderings), the two of one key coarsely | 332,000 |
| `StoreLateAdmission` | and when they are not? (violated, see below) | the same, admission in any order | |
| `Driver` | one turn through driver, handler and Agent with misfortune anywhere: safety, refinement and ending | 1 run, 5 fences, 2 misfortunes, 2 renderings, staged input | 117,000 |
| `DriverStray` | two turns in one drain, one release refused: handlers without a drain, overtaken by the next claim | 2 runs of their own keys, 3 fences, 2 misfortunes, Node's input | 423,000 |
| `DriverRetry` | is a reattached turn let through? (violated, see below) | 1 run, 3 fences, at most 1 misfortune | |
| `Inbox` | is every event admitted once, handed out within its budget, and never processed beside the call its claim began? | an event and a key form, 1 active row, 2 attempts, 1 replaced instance | 1,033,000 |
| `InboxLive` | does every delivery end once its receipt is out? | the same two, 2 active rows, 1 in flight, the shortest times | 146,000 |
| `Queue` | does every message of a conversation meet one fate, in order, and end? | 3 messages, 2 dispatches and a stop, or 1 dispatch and two of a stop, a fault and a reconnection | 337,000 |
| `QueueStall` | is a held message always freed? (violated, see below) | 2 messages, a stop, a parking, an eviction | |
| `Runner` | do the turns of a thread end once each, one after the other, and does an abort hit only its turn? | 2 turns, 1 stop, 1 fault | 162,000 |
| `RunnerStop` | does an acknowledged stop abort its run? (violated, see below) | 2 turns, 1 stop, no fault | |
| `Routine` | one message per occurrence, one count per failure, no stranded one-time routine? | 2 occurrences, 2 heartbeats, 1 misfortune, both kinds | 455,000 |

### What they check

`StoreLedger`:

* `TypeOK` — the shape of the tables.
* `DeliveryMatchesReceipts` — the delivery columns, which are overwritten, agree with the
  append-only receipts: the attempt they name is the only one that may have been seen.
* `RetryOnlyAfterRejection` — no attempt starts before every earlier one is known rejected.
* `SettledIsFinal`, `RecoverySticks` — what is closed stays closed; what needs an operator gets one,
  or the receipt it was waiting for.
* `StaleExecutionFrozen` — a superseded worker cannot show an execution as invoked or settled.
* `NoOvertaking` — while an older run of a thread is open, a younger one has never been claimed.
* `KeepsPromise` — the store implements `RunPromise`, for a sweep that moves two runs at once too.

What the operations rely on beneath these, `SchemaHolds` (the CHECK constraints and foreign keys) and
`LeaseOnlyWhileActive` (nobody holds a run that is settled or in recovery), is proved and not run.

`Driver` and `DriverStray` (`OnlyTheOvertakenGoUnrecorded` and `BatchHoldsLatestClaims` in the second only, where handlers are
overtaken; `DeliveredMeansShown`, `UsesTheStore` and `EveryOwedTurnEnds` in the first only):

* `OneRecordedReply` — the user never sees two replies to one message that were posted under an attempt.
* `RecordedReplyIsBooked` — a visible reply under an attempt is never one the ledger would send again.
* `OnlyTheOvertakenGoUnrecorded` — the handler of the latest claim fails closed: only one whose run has been claimed again
  comes to show a failure beside the ledger. (That such a one does is a difference from the lifecycle's own words; see below.)
* `DeliveredMeansShown` — a delivery is never booked that the user cannot see.
* `BatchHoldsLatestClaims` — while a drain waits for a handler, nobody has claimed its run again,
  even though its lease may have lapsed. (This is a fact about the drain, not about the leases.)
* `UsesTheStore` — driver, handler, Agent and operator stay within the store's operations.
* `EveryOwedTurnEnds` — a turn whose job is pending and whose run can move is settled, handed to an
  operator or retired, however often the process stops.

`Inbox`, `InboxLive`:

* `AdmittedOnce` — while Slack may send an event again, the inbox knows it, however its row ended.
* `HandedWithinBudget` — leases that lapse, are taken over or given back, and rows that are swept, never buy an
  event more than its attempts; a key is handed out once.
* `OverlapCovered` — while the call that a replaced instance began with its claim may still complete, the delivery is
  not processed again. (A call begun later in the batch is not covered; see below.)
* `ReceiptedDeliveriesEnd` — after the receipt Slack sends nothing more, so whatever the object leaves behind when a
  drain ends or the instance is replaced must be found by an alarm it has set.

`Queue`:

* `NothingLost` — a message that ended well had its own run, or was stopped, or was dropped by a stop that came after it,
  or was read by the completed run it ended with.
* `EndedByAnotherNeverRan` — a folded or dropped message never reached the model by itself; `FoldsInOrder` — a turn that
  takes a message already has every message that waits between the two.
* `KeepsTurnPromise` — the table implements `TurnPromise`: a message keeps the ending it was given, and what a reply read ends
  with its record and not otherwise; `TurnsEnd` — every turn ends or is parked.
* `EndedByAnotherNeverRan` and `TurnsEnd` are stated for conversations in which no parked turn is reopened: a reopened turn stands before turns that
  were dispatched meanwhile, which is what `QueueStall` shows.

`Runner`:

* `NoReplayAfterMark` — a turn whose ending was reported is not executed again, whoever did not hear of it.
* `OneRunAtATime` — two turns run at once in Flue only if the first was stopped before its receipt.
* `AbortSparesOthers` — an abort the runner waits for ends no turn but a stopped one.
* `EveryTurnEnds` — hand-off, stops, holds, evictions and lost answers leave no turn behind.

`Routine`:

* `OneMessage` — one message per occurrence, its result or its failure notice, and one that is recorded is there.
* `EachFailureCountsOnce` — whoever finds an occurrence failed, it counts once toward the pause.
* `OnceNeverStranded` — a one-time routine is never active with nothing to wait for.

### Why the bounds are enough

* *One run in detail* (`OneInDetail` of `StoreLedger`): every operation but the claim touches one run, and
  two runs interact through their key only, which needs a lease each and no answers.

* *Fences.* A stale write needs an older and a newer claim: two fences in the store runs. In `Driver`
  five fences are never exhausted by two misfortunes and the turn's own retries: no claim is blocked
  by the bound, which matters for the liveness property.
* *Methods and renderings.* Two methods under one fence, and one method under two fences, give attempts
  that differ in either half of their id. Two renderings tell a replaced rendering from the first.
  One answer suffices: no guard compares answers, only their presence.
* *Misfortunes.* `MaxTrouble` = 2 is a crash in the middle of the recovery from a crash, or an unnoticed
  lapse and then a crash. The fate of a post and the operator are not counted against it.
* *Attempts.* `MAX_TURN_ATTEMPTS` is 2 as in the code; `MAX_POST_DISPATCH_ATTEMPTS` is 8 in the code and 2
  in the runs, so that both sides of the comparison are reached. The driver's `maxClaims` and concurrency
  are 4 in the code, 2 in the runs: `DriverStray` has two handlers in one batch.
* `DriverStray` has a state constraint (`MCStrayHandler`): the second run is claimed and released to recovery and never
  begins its turn, because it is there for its refused release only; the first Agent does not fail and nothing is
  quarantined, both of which `Driver` covers (a turn that fails by itself is in both). It checks safety only, so the constraint hides no
  behaviour by breaking fairness.
* `ReplayRefused` joins two ways the store can refuse a replay. The one in which it refuses a booking from the
  presentation row needs a quarantine *and* a handler that outlives its drain; no run reaches it. It is kept
  because the code has it.
* `slack.replies` counts to 2, enough to see a second reply; `slack.beside` does not count.
* *Times of the inbox.* In `Inbox` the lease is longer than the grace, the active age longer than the lease, and the
  retention as long as Slack retries: the boundary of the assumption, where an off-by-one shows. In the code the
  retention is twice that (48 h). `Horizon` is beyond every age that is compared. In `InboxLive` all times are the
  shortest allowed: liveness asks only that each of them passes. One active row fills the inbox in `Inbox`; two
  rows compete for one place in flight in `InboxLive`. Two attempts are one retry and the cap (5 in the code).
* *The queue.* Three messages are a turn, one it takes and one between or behind; the third sender differs, so that a
  personal plan takes it for information only. `Bounds` keeps the run within minutes: two dispatches with a stop, or one
  dispatch with two of a stop, an eviction or parking, and a reconnection. A constraint can hide liveness violations that
  leave it, and `TurnsEnd` is checked of the behaviours within it; the two-message instance without it (400,000 states) passes
  the safety properties, and with two parkings or two evictions no violation of one was met in eight million states.
* *The runner.* Two turns are the stopped one and the one it holds or spares. `MaxFaults` = 1 is any one eviction, yield,
  lost answer or failed call; with two faults (1.1 million states), or two stops (2.2 million), the safety properties hold too.
* *The routine.* Two occurrences: the one under way and the next slot; two heartbeats; `PauseAfter` is 3 in the code and 2
  here. `MCTogether` lets heartbeats work on the latest occurrence only and leaves earlier ones to the cleanup; without it
  (5.7 million states), and with two misfortunes (2.7 million), the properties hold. `MCView` forgets what no later
  step and no property reads: the details of an ended occurrence nobody works on, a receipt once there is a settlement, the
  number of an attempt nobody else has entered. Heartbeats are interchangeable. No liveness is checked under the symmetry.
* `CHECK_DEADLOCK FALSE`: a system whose work is all ended and whose bounds are spent has
  nothing left to do, and may stop.

### Fairness

`FairDriverSpec` assumes weak fairness of:

* `WakeForWork` — the alarm re-arms itself while `hasPending('ledger')`, and only then; a `Wake` for any other
  reason may happen and is not assumed;
* `Drain` and `Handle` — a process that lives goes on with its promises;
* `AgentStep` — a submission is eventually started and settled by its runtime, which retries on its own;
* `AbandonedLeaseLapses` — time passes and nobody renews the lease of a handler that is gone.

`FairSpec` of `GatewayInbox` assumes weak fairness of:

* `FireForInbox` — an alarm that is set fires; an alarm that fires for other work may and need not;
* `ClaimPending`, `Process`, `Processed`, `EndDrain` — a running alarm goes on, and its network calls return;
* `Tick` — time passes.

Nothing is assumed of Slack, admissions, receipts or replaced instances (`MaxRestarts` bounds them).

`Spec` of `TurnQueue` assumes weak fairness of every step of an executor with a turn in hand, of its taking up a turn that is
ready, and of Flue's accepting and ending what it was sent; not of messages, stops, folds that are optional, or reopening.

`FairSpec` of `ThreadRunner` assumes weak fairness of the alarm's execution, of the follow-ups it re-arms for, of the
store's hand-offs, notices and outbox, and that calls return and Flue ends what it runs. `Rows` (syncing an ending, finding a
deferred turn ended) has strong fairness: every alarm of the runner does these before it takes up a turn, so they are not
passed over for ever although the turns between disable them again and again.

`RoutineRuns` states no fairness: its properties are about safety.

Nothing is assumed by `FairDriverSpec` of crashes, misfortunes, restarts of the Agent, operators or admission.
Misfortune is finite (`MaxTrouble`): a process that crashes in every attempt ends nothing, in the code as in
the model.

## The proofs

All theorems hold for every number of runs, fences, methods, answers and renderings, every assignment of keys
and authorities, and every value of the driver's constants, under `StoreAssumption` and
`DriverAssumption` (the constants have their types; NULL is no value of a column).

`WorkStore_proofs`:

| theorem | says |
|---|---|
| `TypeCorrect`, `SchemaCorrect`, `LeaseCorrect`, `ReceiptsCorrect` | `Spec => []` of `TypeOK`, `SchemaHolds`, `LeaseOnlyWhileActive`, `DeliveryMatchesReceipts` |
| `Invariance` | `Spec => []Inv`, their conjunction |
| `NoSecondReply` | `Spec => RetryOnlyAfterRejection` |
| `SettlementIsFinal` | `Spec => SettledIsFinal` |
| `RecoveryEnds` | `Spec => RecoverySticks` |
| `StaleWorkersAreFenced` | `Spec => StaleExecutionFrozen` |
| `OrderingExclusion` | a step that ends `NoOvertaking` is a `LateAdmission`, whatever the stamps |
| `StoreKeepsPromise` | `Spec => KeepsPromise`, the refinement of `RunPromise` |

*The argument.* `DeliveryMatchesReceipts` is not inductive alone: that a delivery marked `failed` has no other
attempt in flight depends on the row's schema (which columns are NULL in which status), and that a claim cannot
re-open a delivery on who may hold a lease. The conjunction `Inv` is inductive. Every operation touches one run
except the claim, which sweeps all of them; so the lemmas are about one row (`RowSchema`, `RowReceipts`) and say
that reconciling a row, and each operation on it, keep them, and the theorem puts the rows together.
`RetryOnlyAfterRejection`, `SettledIsFinal`, `RecoverySticks` and, once it is known which execution each operation
writes (`ExecutionMoves`), `StaleExecutionFrozen` are then read off the guard of each operation
in a state where `Inv` holds. The refinement maps a status to a stage and the receipts of a run to one reply
state; `Inv` gives that the receipts determine it uniquely, and each operation is shown to be one step of
`RunPromise` or a stutter. `OrderingExclusion` assumes nothing of the stamps: a claim asks about older runs only and
no other operation moves a stamp or a fence, so the exclusion of a key survives every claim, sweep, lapse,
release and recovery, and ends by one step alone, the admission of a run whose stamp is older than that of a claimed
one (`LateAdmission`). The run `StoreLateAdmission` shows that this step happens; `StoreLedger` checks the invariant where it does not.

`LedgerDriver_proofs`:

| theorem | says |
|---|---|
| `DriverUsesTheStore` | `DriverSpec => UsesTheStore`: every step of the whole is one of `WorkStore` or a stutter |
| `DriverInvariance` | `DriverSpec => []DriverInv`: `Inv`, the driver's types, and that a job's frozen envelope names a fence its run was given |
| `DriverTypeCorrect` | `DriverSpec => []DriverTypeOK` |
| `DriverNeverResends` | `DriverSpec => RetryOnlyAfterRejection` |

*The argument.* An Agent presents the fence its frozen observation names; the store's environment presents only
fences that were issued. That these agree is the part of `DriverInv` called `EnvelopeFrozen`, and with it each
driver action is matched to its store operation. Everything proved of the store then holds of the driver.

`LedgerReply_proofs`:

| theorem | says |
|---|---|
| `ReplyInvariance` | `DriverSpec => []ReplyInv` |
| `OneReplyOnly`, `ShownIsBooked`, `BookedIsShown` | `DriverSpec => []` of `OneRecordedReply`, `RecordedReplyIsBooked`, `DeliveredMeansShown` |
| `OvertakenAlone` | `DriverSpec => []OnlyTheOvertakenGoUnrecorded` |
| `BatchHoldsClaims` | `DriverSpec => []BatchHoldsLatestClaims` |

*The argument.* A handler that lost its lease, its drain and its run goes on and may still post; so what makes a post safe
cannot be a lease. It is the attempt: `ReplyFits` says of *every* handler, whoever has claimed the run since, that while
it is about to post the run waits for the outcome of the attempt this handler started and nothing is shown; that it is
past the acknowledgement only with the reply shown; and that after a rejection of its own attempt nothing is shown. For the
handler of the latest claim it adds that a turn still to be executed has no response, and that a retry follows a rejection
on record. A failure shown beside the ledger makes the presentation row know of a message although no reply is visible
under an attempt; `ShownFits` says that no attempt is under way then and no response waits for one, so that nothing books the failure as
the reply. A started attempt is ended only by its handler or by a settlement that makes the delivery unknown or delivered,
never one that may be sent again, and that is one lemma per operation of the store (`AttemptFits` to `FinalizeFits`), used
by each step of the handler. `BatchFits` is about the drain: the runs it has claimed and not started hold their leases, and a
handler it waits for has the latest fence. Only a claim issues a fence, a drain claims only with none under way, and
its own sweep passes over what it has just claimed. `OvertakenAlone` adds `RecordFits`: between the route and the settlement, the
execution of a handler whose run has not been claimed again is `Live`, routed or invoked with no outcome. Only its own handler settles a
live execution (`StaysLive`), nobody but the route and the control points after it lead there (`Comes`), and fences never
fall (`FenceGrows`); so a settlement that is refused finds a higher fence.

`GatewayInbox_proofs`:

| theorem | says |
|---|---|
| `InboxInvariance` | `Spec => []IInv` |
| `InboxTypeCorrect`, `OneAdmission`, `BudgetHolds` | `Spec => []` of `InboxTypeOK`, `AdmittedOnce`, `HandedWithinBudget` |
| `OverlapIsCovered` | `Spec => []OverlapCovered` |

They hold for all sets of deliveries, limits and times under `InboxAssumption`, of which they use that Slack retries
no longer than the retention, and that a network call is over before the grace is (the code's reason for the grace).

*The argument.* None of the four is inductive. `IInv` ties each row to its event (`FitRow`): a row that was admitted
is there until Slack cannot send the event any more, because it is never older than its event and a tombstone's
clock starts later still; each hand-out cost an attempt; a key form with its payload was never handed out. The
lemmas say that each operator on a row keeps it fit, the sweep is their composition, and the step lemma has one
case per action. For the overlap, `OverlapInv` adds what ties a row to the call a replaced instance left behind: the row is
still claimed by an older instance, and what is left of its lease is `Lease - CallTime` and what is left of the call, which
time keeps so; or the row has ended for good. While the call lasts, the claim is younger than the grace, so no sweep gives it
back, and an event whose row has ended is not admitted again.

`TurnQueue_proofs`:

| theorem | says |
|---|---|
| `QueueInvariance` | `Spec => []IInv` |
| `QueueTypeCorrect`, `NoMessageLost` | `Spec => []` of `QueueTypeOK`, `NothingLost` |
| `FoldsKeepOrder` | `Spec => FoldsInOrder` |

*The argument.* That a message which ended with another was *read* by that one is a fact about three parties: the claim that
gave it to the turn, the run that received it, and the record of the reply. `IInv` follows it: a member of the first cycle is
in the input frozen with the dispatch, a member counted as received is in `read` (`FoldFits`), a recorded reply
belongs to a turn whose settlement is that of its submission (`StepFits`), a member that ended keeps a head that ended
(`EndFits`), and a drop points at a stop that is finished and later than the message (`StopFits`). Most steps leave stops and folds alone, which one lemma (`QuietStep`) says once; `FoldsInOrder` is read off the
claim, the only step that makes a member.

`TurnFates_proofs`:

| theorem | says |
|---|---|
| `FatesInvariance` | `Spec => []FatesInv` |
| `EndedTurnsNeverRan` | `Spec => []EndedByAnotherNeverRan` |
| `QueueKeepsThePromise` | `Spec => KeepsTurnPromise`, the refinement of `TurnPromise`, reopened turns included |
| `AnswersInTime` | as long as nothing is reopened, every step that changes a fate is one of `InTime`: no late answers |

*The argument.* That a message taken by another turn did not run is again a fact about who is where. As long as nothing is
reopened, one turn of a thread is in hand at a time and in order (`HandFits`), so what an open turn took, or what a stop
holds, was not yet dispatched and is not about to be (`MemberUnrun`, `HeldUnrun`), and a turn that is cancelled while it runs
leaves no open member (`OrphansEnded`); an ending by another then finds a turn that has not run. Reopened turns break
the first of these, which is why the property is stated without them. The refinement needs none of it: `BusyInv` adds to `IInv` only
that a turn in hand is open, cancelled, or done by another's ending. The steps that leave every fate alone are one lemma (`Stutters`), every
other step is matched with its step of `TurnPromise`.

`RoutineRuns_proofs`:

| theorem | says |
|---|---|
| `RoutineInvariance` | `Spec => []IInv` |
| `RoutineTypeCorrect`, `OneMessageEach`, `OneCountEach`, `NeverStranded` | `Spec => []` of `RoutineTypeOK`, `OneMessage`, `EachFailureCountsOnce`, `OnceNeverStranded` |

They hold for any number of occurrences and heartbeats and any amount of trouble, under `RoutineAssumption`.

*The argument.* What `OneMessage` rests on is who has the delivery: `MessageFits` says that at most one heartbeat
delivers an occurrence, that it has claimed it, and that it knows whether the message is out. A failure is counted
once because the occurrences blamed have ended and ended ones stay ended (`FailuresFit`); a one-time routine without
a next slot has an active occurrence of its own, which is the witness of `OnceFits`. Most steps keep the rows as the
invariant sees them (`Kept`) with no heartbeat entering a delivery, which `QuietStep` says once; every end of an
occurrence, by whichever of the seven paths, goes through one lemma (`EndsStep`).

`ThreadRunner_proofs`:

| theorem | says |
|---|---|
| `RunnerInvariance` | `Spec => []IInv` |
| `RunnerTypeCorrect` | `Spec => []RunnerTypeOK` |
| `NeverReplayed` | `Spec => NoReplayAfterMark` |
| `OneAtATime`, `AbortsSpareOthers` | `Spec => []OneRunAtATime`, `Spec => AbortSparesOthers` |

They hold for any number of turns and any bounds, under `RunnerAssumption`.

*The argument.* Three parties hold a piece of each turn: the runner's rows, the state store's job, and Flue. `IInv` ties them:
jobs are handed off in order, the turn in hand is the next one and a reported turn is done (`JobFits`); a held turn was
not dispatched (`RowFits`); what Flue runs was dispatched after every earlier turn was over, and a turn that is over and
still runs was stopped before its receipt (`HostFits`); what the alarm read still holds (`RunFits`); and requests exist only
for stopped turns that were dispatched, none for a turn before one that starts (`StopFits`). The last is why an abort
cannot hit another turn. One lemma per part says which change of it an action may make (`RowMoves`, `JobMoves`,
`HostMoves`, `RunMoves`), `MovesFit` that changes of these kinds keep `IInv`, and each action is shown to make only such.

*Only model-checked*: `ReceiptedDeliveriesEnd`, `TurnsEnd`, `EveryTurnEnds` and `EveryOwedTurnEnds`, because liveness and
ENABLED are out of the prover's reach. Every other property that a passing run checks is proved, `NoOvertaking` as what every step
but a late admission preserves. There is no recursion in these modules and no induction over data is needed.

## Where code and intention part

Each of these is a run that TLC finds violated, against a line of the repository:

* **`StoreLateAdmission`** — a run is claimed while no *older* run of its thread is open, by a stamp its caller
  took before the transaction. A run that commits late with an older stamp, or with the same millisecond and
  a smaller random id, is claimed beside a younger one in progress. "WorkStore owns atomic eligibility, ordering
  exclusion, leases, and fencing" (`work/driver.ts:62`).
* **`DriverRetry`** — the observation frozen at the first dispatch names the first attempt's execution; a handler
  interrupted after dispatch is requeued, and the next claim bumps the fence. The reattached submission marks an
  execution the ledger calls stale, is refused, and the turn fails although nothing had. "Keep the receipt and
  let the durable relay reattach instead of freezing a paid, possibly completed turn as a permanent failure"
  (`slack/flue-dispatch.ts:649`).
* **`QueueStall`** — a turn that was parked and is reopened stands before one dispatched meanwhile. If that one waits for
  its reattachment when a stop arrives, the stop holds the reopened turn; the runner meets the held turn first, each
  time, and never reaches the stopped one whose ending would free it. "the stopped ending drops or releases it within
  seconds" (`slack/turn-jobs.ts:124`).
* **`RunnerStop`** — a stop meets its turn's dispatch in flight. The abort it sends lands first and is answered late; the
  receipt finds the abort owed and a request out, and adds nothing; the next notice is acknowledged because the submission
  is known; then the answer marks the abort done, which covered nothing. The run goes on to its end. "the outbox brings the
  stop back with the receipt and the abort is repeated then" (`slack/runner-stops.ts:118`).

Met while reading and modelling, and not the subject of a run:

* "ledger-owned Runs use enforcement mode and fail closed before crossing an unrecorded boundary"
  (`work/lifecycle.ts:79`). An overtaken handler does not: the settlement of its answered turn is refused, the turn catches the
  refusal and posts a failure final without attempt or receipt (`slack/run-turn.ts:2293-2415`), beside the answer of the
  current handler, or in its place when the presentation row acknowledges it first and the job is retired. `DriverStray` reaches this
  (`PostUnrecorded`); `OnlyTheOvertakenGoUnrecorded` says who can do it.

* `work/store.ts:1291` takes any latest execution that is not settled unsuccessfully for a success: the replay of a failure
  reply records a turn that failed before the model as succeeded.
* `slack/run-turn.ts:1757` posts the reply that a model needs repair without a lifecycle: the job is delivered, the run is
  requeued, and the next claim, which finds no payload, leaves it waiting in recovery.
* `slack/gateway/inbox.ts:149` covers one call begun with the claim; a call begun later in the batch by an instance that
  is then replaced may complete while the delivery is processed again.
* `routines/execution.ts:946` — a heartbeat that loses the claim of a delivery to a post in flight takes the result for
  unknown, ends the occurrence as failed and pauses the routine, although the winner then records it as delivered.
* `routines/store.ts:2085` — of two heartbeats that prepare one attempt with different envelopes, the loser fails the occurrence
  the winner is running.
* A one-time routine made by editing a recurring one whose occurrence is active is skipped as an overlap and completed unrun;
  the automatic pauses of `applyRoutineOutcome` and the cleanup turn a disabled or completed routine into a paused one.
* `slack/turn-jobs.ts:2714` — a turn cancelled by an operator while an executor has it is still dispatched.
* `slack/turn-executor.ts:234` — a stopped turn with a frozen dispatch and no receipt ends as stopped before dispatch,
  although the call in flight may land: the exception in `OneRunAtATime`.
* `slack/runner-stops.ts:205` — a coding cascade may stay owed for ever when its turn ended by itself.

## What is not modelled

Of the modelled components:

* `WorkStore`: the content table and its retention, configuration revisions, trace ids, usage, the read
  projections; work actions other than the unknown outcome.
* `LedgerDriver`: reading back a pending file completion (`reconcileFiles`), the choice of a
  fallback presenter, presentation rows beyond their acknowledgement, an unsupported adapter and a missing client
  (they end like an installation that ended), resumed executions, the observe mode and its backlog.
* `GatewayInbox`: the limits on bytes and on total rows, conflicting identities, the Node process's drain (the same
  store without owners, a batch of one), the order of a conversation within a batch, an alarm that throws (the platform
  fires it again), and the in-memory admission in front.
* A job left pending after its run settled (a crash between the receipt and `Close`) is reached in the model, but
  no property speaks of it: the properties are about owed turns.
* A lease lost with a retired job is only reconciled when other traffic drains (`work/driver.ts:125`): the code's
  design, listed among the hazards.
* `TurnQueue`: edits of a message, approvals and refusals answered without a dispatch, turns deferred to the receipt outbox
  (they are in `ThreadRunner`), the length of the text except as how many messages fit, the rows of other Agents in the
  thread, unreadable rows, and the 30-day backstop. The call that counts an attempt and the one that claims follow-ups are one step.
* `ThreadRunner`: rows the store takes back (recovery required, released), cleanups of Slack messages, repairs of
  active work, jobs carried over from an older version, and the executor of the state store's alarm with its own fence.
* `RoutineRuns`: deletion, direct threads, the notices of a pause and of a recovery, installations that refuse, spending limits,
  confirmations and the ledger of schedule actions, the capacity of the deployment, retention, and a store call whose answer
  is lost on its way to the heartbeat (a heartbeat that stops there is modelled).

Not modelled at all, and why: components with no protocol of their own (rendering, catalogues, telemetry, memory,
configuration, identity) and calls to outside services (connections); the rest is in the plan. The repository is large
(361,000 lines), and most of it is of that kind: an administration interface of 21,000 lines in one file, route
handlers and services that translate requests into single-row updates, catalogues of other services' actions. The modules
here cover the protocols, which are a small share of the lines; no model of the rest would say more than its schema does.

## The plan

The ledger path came first because it is the one place where a mistake is a second answer, a lost answer or a
thread that stops. Next, in order:

1. `RunPresentations` — projection versions with two writers; then `LedgerDriver`'s `known` refined by it.
2. `ContainerLease` and the browser's session lease — a sweep that acts on what it was told earlier.
3. `Approvals` — one-use approvals against change receipts.
4. `ShadowLifecycle` — the observe mode's backlog beside direct writes.
5. `InboundAdmission` — the in-memory admission in front of the inbox, where a retry meets its first copy.
6. Proofs — those of the modules above, as they come; of the present ones, only liveness is left, and it stays with TLC.
