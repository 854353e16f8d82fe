# Venture Harness in TLA+

Specifications of the parts of the Venture Harness that are hard to test: the
durable command ledger, the durable workflow run and the executor that drives
it, the ledgers before providers and before money, the fleet rollout and the
production run of a venture loop. TLC checks every module on small instances;
TLAPS proves their safety properties for all instances, two of them under an
assumption that section 4 names; liveness stays with TLC.

## 1. The system

The harness is a TypeScript monorepo. `bin/vh` and generated surfaces (REST,
MCP, SDK, UI) turn a request into a *command*; long work is a *workflow run*, a
graph of nodes whose handlers write to providers (GitHub, Vercel, Stripe, ad
networks). Everything that outlives a process is a file or a SQLite database.

| Component (source) | State it keeps | Operations | Status |
|---|---|---|---|
| Command bus (`packages/command-bus`, with `audit`, `events`, `telemetry`) | `command_idempotency` rows, events, meters, audit chain | `executeById`; `claim`, `complete`, `release`, `markAmbiguous`, `markArtifactsEmitted` | modelled |
| Workflow store (`lib/workflow/store.ts`) | `state.json` with a pending event, `events.jsonl`, `lastSequences` | `create`, `load`, `checkpoint`, `appendEvent` | modelled |
| Workflow executor (`lib/workflow/executor.ts`) | run state: status, node records, verified effects; active states, controllers | `start`, `startQueued`, `resume`, `cancel`, `steer`, `supersede`, `approve`, `refreshAuthorization`, `reconcileNode`, `compensate` | partly |
| Provider idempotency ledger (`lib/runtime/file-idempotency-ledger.ts`) | one JSON document, one lock file | `claim`, `put`, `settle`, `get` | partly |
| Provider adapter (`lib/providers/adapter.ts`, `lib/runtime/provider-bindings.ts`) | none of its own | `apply`, `reconcile`, `promoteVerifiedOperations` | partly |
| Spend ledger (`lib/winner-loop/spend*.ts`) | grants, halts, reservations, pause obligations | `registerGrant`, `withReservation`, `settle`, `release`, `reconcileProviderOutcome`, `queueAutoPause`, `processProviderPause`, `activateKillSwitch`, `revokeGrant` | partly |
| Fleet controller (`lib/fleet`) | run record with checkpoints and a lease | `rollout`, `upgradeOne`; `get`, `put`, `acquireLease` | partly |
| Venture loops (`packages/loops`) | run rows with leases, effect journal, authorization uses | `executeVentureLoopCore`; `claim`, `save`, `apply`, `reconcile`, `authorize` | partly |
| Venture runtime (`lib/venture-runtime`) | entitlement usage, audit | `execute`, `reconcile` | not modelled |
| Migrations, upgrades, path lock | journal, managed files, lock file | `run`, `applyUpgrade`, `applyMigrationPlan` | not modelled |
| Subscriptions, paid tests, organic policy | append-only event stores | ingest, propose, approve | not modelled |
| Provider transports and plans, launch, founder launch, materialization, CLI, analytics, small packages | none that several steps share | one-pass computation and I/O | not modelled |

How they interact. Surfaces call `CommandBus.executeById`; a command's handler
may start or resume a workflow. `WorkflowExecutor.record` calls
`store.checkpoint` for every change, so the store's file is the executor's
memory after a crash. Handlers, reconcilers, validators, conditions and
compensators are injected functions; they reach providers through the provider
ledger and the spend ledger. A venture loop is driven by a surface or a timer
and applies its effects through a journal of its own; a fleet rollout calls
hooks that merge, deploy and compensate. `cancel`, `steer` and `supersede` take
the active in-memory state when the run executes in the same process, and load a
copy otherwise; `approve` and `refreshAuthorization` always load a copy.

What is hard here: no lock guards a run directory; each `await` of the executor
lets a cancellation or a steer in; a process may die between any two durable
writes; an external write may have happened although nobody said so, or may still
happen although its caller is gone; a lease is looked at when it is taken and
not while a provider is waited for; a claim's clock is read long before the
claim.

What makes each component correct: one effect per idempotency key and one
answer to all its callers; the event log is the state's history and every run
loads again; an unknown outcome is never permission to repeat a write, success
needs a read-back, a fan-in waits for its dependencies, a failed run has
compensated what it verified, every execution ends; what a ledger says was
written was written, and what it releases was not; a cap is never exceeded and
spent money never given back; a canary bounds the damage and an ended rollout
says what is deployed; a lost lease cannot change the record of an ended run; a
set of files changes together or not at all (upgrades, not modelled).

## 2. Modules

| Module | What it is |
|---|---|
| `EffectOnce` | Abstract specification: what an idempotency key promises. |
| `CommandBus` | The bus, its ledger and its evidence sinks. Implements `EffectOnce`. |
| `CommandBusProofs` | Its theorems. |
| `WorkflowStore` | One run's two files, sessions in processes, crashes and thrown I/O. |
| `WorkflowStoreProofs` | Its theorems. |
| `WorkflowExecutor` | One run of a graph in one process, with every await a step. |
| `WorkflowExecutorProofs` | Its theorems. |
| `ProviderLedger` | The ledger file with its lock file, and the adapter's `apply` and `reconcile` before it. |
| `ProviderLedgerProofs` | Its theorems. |
| `SpendLedger` | Grants, reservations, settlements, halts and pauses of several processes on one database. |
| `SpendLedgerProofs` | Its theorems. |
| `FiniteSums` | Lemmas about the sums of `SpendLedger` (`SumFunctionOnSet`). |
| `FleetRollout` | One upgrade of a fleet, by controllers that share its record under a lease. |
| `FleetRolloutProofs` | Its theorems. |
| `LoopRun` | One production run of a venture loop: run store, effect journal, provider. |
| `LoopRunProofs` | Its theorems. |
| `MC...` | The TLC instances of the module they are named for. |

Each module from `ProviderLedger` on composes a component with the store below
it and the provider behind it, for their properties are about all three; the
provider is what may happen, kept in history variables (`writes`, `charged`,
`effect`, `effects`) that no action of the code reads except through an answer.

### CommandBus

Each SQLite transaction (`BEGIN IMMEDIATE`) is one action on `ledger`, the row
per key; `call[c]` is the local state of one `executeById`, its `pc` the next
await: `Start` reads the clock, `Authorize` stands for the five hooks and the
input parser, `Claim` for the six outcomes of `claim`, `HandlerReturns` and
`HandlerThrows` for the handler, `Complete`, `Release` and `MarkAmbiguous` for
the settlement, `EmitEvent`, `EmitMeter`, `EmitAudit` and
`MarkArtifactsEmitted` for the evidence, `FileFailure` for the error path.
Every store operation also has a variant that throws. `effects[k]` is the
history variable of the properties: the calls whose handler wrote. Handlers
that prove they had no effect are believed, as the bus believes them. A handler
may also throw a `CommandBusError` of its own, before or after it wrote, and the
bus keeps its code (`index.ts:1047`): with a code that the audit files as a
denial (`:1075`) the call is answered as denied though it had its effect. So
`DenialHidesNoEffect` does not say that a denial had none; it says that the bus
itself denies only calls that changed nothing, and that a key whose handler
refused it after writing stays in doubt (`by` tells who refused).

### WorkflowStore

A state is its *history*, the sequence of the changes that made it;
`eventSequence` is its length. `files` says how far `create` came. A session
opens by `CreateDirectory`/`CreateState`/`CreateLog` or by `Load`, which
repairs a pending event; `record` is `WriteState` (state with pending event)
followed by `AppendEvent`, `AppendRefused` or `AppendThrows`. `cache[p]` is the
store's `lastSequences`, shared by the sessions of a process and lost with it.
No lock guards a run directory, so sessions of one or several processes
interleave freely. Two history variables, which no guard reads, say what that
does: `stale` holds the sessions whose copy misses a state that another one
wrote, and `races` takes note of an "overwrite" (a state written from a stale
copy) and of an "intrusion" (a load between two file operations of another
process's `create` or `checkpoint`). The properties say how far the files can be
trusted until then, and `NoChangeLost` that nothing but an overwrite takes a
change back. A line torn by a power loss, redaction and `listRuns` are left out.

### WorkflowExecutor

`main` is `execute` with `recoverInterruptedNodes`, `prepareNodes`, the loop
and `compensate`; `task[n]` is `executeNode(n)`; `ctl` is a `cancel` or
`supersede` under way. `rec[n]` keeps of the node's record what decisions read:
state, attempts of the iteration, revision, operation phase, polls,
effectVerified. A step runs from one await to the next, or to a checkpoint
after which a crash matters: `Busy` keeps others out while synchronous code is
between two such checkpoints, but `Crash` is always allowed. A crash keeps
`status`, `rec` and `verified` (the store's module says why) and loses the rest.

`world[n]` is what the node's effect did outside: clean, partial, applied,
twice. It is written only by `HandlerWrites`, and, when `LateWrites`, by
handlers that outlive their timeout or their process. Reconcilers may answer
anything, but their claim about the world is true when made: that is the
contract of an injected read-back, and without it nothing could be said.

`used` counts crashes, cancels and steers for the bounds, and its `steered` is a
history variable: the nodes that a steer took back while something was under way
at them (`AtWork`). The await that it met ends afterwards and goes on with the
node (`executor.ts:835`, `:971`, `:1134`); `FanIn` is about all the others.

Left out: node loops and the scheduler's iteration limit, the run cache, cost
arithmetic (accounting may fail at any time), checkpoint grants, concurrency
groups, the public `reconcile()`, the replacement run of `supersede`.
A manual action is an approval.

### ProviderLedger

`doc` is the document and `lock` the lock file, which a process that dies leaves
behind. Every ledger operation is `Enter` (or `LockedOut` after two seconds),
`Commit`, `Leave`: the document read under the lock is replaced whole, so
`NoEntryLost` is about the lock. `call[c]` carries one operation through the
adapter: claim; `Discovered` (search before create), `Executed`, or, for an
unknown outcome, `Reconciled` and `Repeated`; settlement; `ReadBack` and its
promotion with `put`. A request sent by a caller that died or timed out stays in
`late` and may still be carried out. `Native` keys are deduplicated by the
provider, `Rerun` commands are idempotent. Providers answer truthfully or not at
all. Any caller may lack the operation's transport, and any transport may prove
at its reconciliation that nothing was written; both release the key for the
request rather than for an attempt (`adapter.ts:753`,
`file-idempotency-ledger.ts:367`). The history variable `released` holds the
keys that somebody released like this who had not acquired them. Left out: plans
of several operations, replay values, the ledger's identity and older documents,
and `get`, on which no caller decides.

### SpendLedger

Every method that runs in one SQLite transaction is one step on `grants`,
`halted`, `res` and `pauses`; reads before it and provider calls are steps of
their own, and `job[p]` remembers what was read. Of the nine caps of a grant,
its own total and one ceiling shared by all grants of a platform stand for all:
they are checked by the same loop, and a shared one is what lets two grants
interfere. A provider's reported spending is final and true, and who reconciles
with outcome `absent` is right; validity windows, days and months, tenants and
the adoption of older databases are left out.

### FleetRollout

`record` is the stored run, `live` whether its lease is unexpired; `ctl[c]` is a
controller with its own copy `mem` of the record, which replaces the stored one
at every `persist`. `step` is its place in the plan of `upgradeOne`; `runHook`
is `RunHook` (reuse, read back, or save as prepared and invoke) and
`HookAnswers`. A hook takes effect at its own time (`HookActs`), passes or not,
and reads back truthfully or not at all. One whose controller dies or rejects
before it took effect is lost, as one that was never sent, or still on its way
(`Abandoned`, `LateEffect`); a lost one is read back as not applied and invoked
again (`NotApplied` in `RunHook`). The lease may expire while its owner works,
for only progress renews it (`controller.ts:779`). `MaxTroubles` bounds crashes,
throws, read-backs that find nothing out and such lapses, of which one takes
`LapseCost` of the bound. The history variable `overtaken` says whether an
expired lease was taken from a controller at work, `recorded` which ventures the
record has reported as verified. `policy` says which ventures merge without a
human and which deploy to production. Files are old, of the candidate, or new;
writing them and restoring them is one step each, as is `acquireLease` with the
`put` after it. Callers load `currentLock` from disk, as the repository's tests
do. Left out: ventures already current or unaffected, and selections that change
between calls.

### LoopRun

`saved` is the row of the run store with its owner and lease, `journal` the
effect journal's row per iteration, `call[o]` the call that has owner token `o`
and the copy of the record it works on. A call claims the run (`Claim`), asks
about actions left open (`Reconciles`), repeats those known to have had no
effect (`Recovers`, `Applies`) and goes on with the iterations (`Iterates`).
Each save, journal transaction and provider call is a step. Tokens are reused
only when nothing refers to them any more. A loop of the catalog that applies
effects has one rule, so an action is named by its iteration. Evidence grows
stale all at once (`fresh`), the apply envelope is active or not (`authority`).
The provider's definite answers are true; its read-back finds the effect, or
fences exactly the attempt it was asked about. Replays, pending claims and
conflicts change nothing. Left out: loops that only observe or propose, source
fetching, the output store, and definitions with their validation.

## 3. Runs

| Run | Instance | Shows |
|---|---|---|
| `command_bus` | 2 callers, 1 write key, 2 inputs, 2 outputs, 2 calls each, clock to 2, 1 fault, 1 crash | types, one effect per key, one answer, no denial hides an effect, evidence exactly for completions and before success is told, settled rows are final, implements `EffectOnce` |
| `command_bus_live` | 2 callers, a write and a read key, 1 fault, 1 crash, fair | every call comes to an answer |
| `workflow_store` | 3 sessions, two of them in one process, side by side, 3 changes, 2 crashes, 2 throwing operations | types, the log is the history and every run loads again until a session races or an operation throws, the log never tells another history, only an overwrite loses a change |
| `workflow_executor` | a read and an effect in parallel and an effect that waits for both, both compensable, 2 attempts, 2 polls, 1 crash, 1 steer | types, no blind replay, success is read back, failed runs are compensated |
| `workflow_executor_late` | the same graph with a human approval, an effect without a reconciler, late handlers, 1 crash, 1 cancel, 1 steer | a verified effect's handler is never called again; fan-in |
| `workflow_executor_live` | a chain of two effects, 1 crash, 1 cancel or supersede, fair | every execution ends |
| `workflow_executor_cancel_final` | the same chain, 1 cancel, no crash | **violated**: a cancel meets an await of `prepareNodes`, and the scheduler reports the run as succeeded |
| `provider_ledger` | 2 callers, a plain key with 2 requests and a native one, 3 calls, 1 failure, callers without the transport, proofs of no write, fair | types, one request and one write per key, entries are true, no entry is lost, every call ends |
| `spend_ledger` | 2 processes, 2 grants of one platform, 2 keys with 3 requests, 1 campaign, 1 failure | types, caps hold, spending is accounted, overspending halts, pauses are asked once and seen |
| `fleet_rollout` | 2 controllers, a canary and a second venture of any policy, 2 troubles or a lease that expires at work, hooks lost or late, fair | types, no hook takes effect twice, the canary bounds the damage, results are true, runs end |
| `loop_run` | 3 owner tokens, 4 observations of up to 2 iterations, 2 failures, 1 stall, fair | types, effects are applied once, records are true, ended is final, runs end |
| `loop_run_fenced` | the same, 1 failure, 2 stalls | **violated**: an attempt taken for fenced takes effect after the run has ended without it |

Bounds. Two callers, sessions, processes or controllers suffice for a race,
since each hazard is one actor overtaking another; the loop has a third owner,
for there an owner that lost its lease may meet the successor of its successor.
Two inputs and outputs tell a rebinding and a changed answer; two calls per
caller let a retry meet its own earlier claim. One fault and one crash may hit
any step; two crashes of the store include one inside the recovery of the other,
two failures of a loop one of the call that settles the first. Three changes let
the log lag, recover and lag again; of the store's three sessions two share a
process and so a cache, and one does not. Two troubles of a fleet are a hook
that is lost and a reconciliation, or a crash of whoever takes over. Two
attempts and two polls are the least with a retry, a last attempt, a poll and an
exhausted poll. Three nodes are the least with a parallel batch and a fan-in.
The two keys of the spend ledger together are above the first grant's total at
one grant and above the second's ceiling at two. The plan of the fleet has one
hook for each way a hook is treated; migrations, checks and preview are hooks
like `branch`. Three provider calls are an attempt, one that overlaps it and one
that comes after. Each bound is a guard or a constant named `Max...`.

`CHECK_DEADLOCK FALSE` everywhere: when its bounds are used up, or its calls
and runs have ended, the system rests.

Fairness. `CommandBus!Fairness` and `ProviderLedger!Fairness` are weak fairness
of each call's own steps, not of starting calls, time, faults or crashes: an
`await` on a file, on SQLite or on a handler returns or throws.
`WorkflowExecutor!Fairness` is weak fairness of the process going on
(`Synchronous \/ Awaited`): every injected function runs under the node's
timeout or returns, and code that can run runs. Calls from outside, late
handlers and crashes are not fair. `FleetRollout!Fairness` lets hooks return,
leases expire and requests already on their way arrive, but never asks a lost
hook to act: there the record says prepared, and a successor reads it back and
invokes it again. It is strongly fair to each controller's steps: a controller
that died or rejected is started again, as `FLEET_UPGRADES.md` describes
("Durable ownership and resume"); two controllers may disable each other's steps
for a while by the lease, hence strong. `LoopRun!FairSpec` is weakly fair to
each call's steps and to the expiry of a lease nobody renews, and strongly fair
to a claim with a fresh envelope: somebody calls again in the end. The stores of
workflows and of spending have no liveness property: they are called
synchronously, and nothing in the code calls them again.

What the properties do not claim. No code here refuses two sessions, a steer, a
cancel or a lapsed lease, and each of them breaks something (section 5). Such a
step is therefore not kept out of the model: a history variable takes note of
it, and the property says what holds until then, or of everything it did not
touch. `LogIsHistory`, `LogIsPrefix` and `Recoverable` of the store hold until a
session overwrites or intrudes, the first and the last also only until an
operation throws; `FanIn` of the executor excepts nodes that a steer met at
work, `FailedIsCompensated` cancelled runs, and `VerifiedNotRepeated` cancelled
runs with late handlers; `OneWrite` of the provider ledger claims one request of
every key, but one write only of keys nobody released who had not acquired them,
and `EntriesAreTrue` excepts those, native and re-run keys from what it says of a
release; `CompletedNotRepeated` and `ResultIsTrue` of the fleet hold until a
controller is overtaken at work, and the second excepts verified ventures that
were compensated; `BlastRadius` holds after that too. `FleetRollout!RunEnds` and
`LoopRun!RunEnds` except `Stranded`, states that no step of the code leaves.
`ProviderLedger!EveryCallEnds` says that calls end, with errors for ever if a
dead process's lock file stays.

## 4. Proofs

Every type invariant, safety invariant and action property of the passing runs,
and the refinement of `EffectOnce`, is a theorem for every value of the
constants that the module's own assumptions allow: any sets of callers, keys,
sessions, nodes or ventures, any graph, any caps, any numbers of crashes and
failures. Two theorems need more, `~LateWrites`, and section 5 shows that they
do. The theorems are listed in `PROJECT.json`.

| Module | Theorems |
|---|---|
| `CommandBusProofs` | `TypeCorrect`, `OneEffect`, `SameSuccess`, `Settled`, `NoHiddenEffect`, `EvidenceInOrder`, `BusImplementsEffectOnce` |
| `WorkflowStoreProofs` | `StoreTypeCorrect`, `StoreLogIsHistory`, `StoreRecoverable`, `StoreLogIsPrefix`, `StoreNoChangeLost` |
| `WorkflowExecutorProofs` | `ExecutorTypeCorrect`, `ExecutorVerifiedNotRepeated`, `ExecutorFanIn`, `ExecutorFailedIsCompensated`; with `~LateWrites`: `ExecutorNoBlindReplay`, `ExecutorSuccessIsVerified` |
| `ProviderLedgerProofs` | `LedgerTypeCorrect`, `LedgerKeepsEntries`, `LedgerReportsTruly`, `LedgerWritesOnce`, `LedgerEntriesAreTrue` |
| `SpendLedgerProofs` | `SpendTypeCorrect`, `SpendAccounted`, `SpendOverspendHalts`, `SpendPausedOnce`, `SpendWithinBudget` |
| `FleetRolloutProofs` | `FleetTypeCorrect`, `FleetCompletedNotRepeated`, `FleetBlastRadius`, `FleetResultIsTrue` |
| `LoopRunProofs` | `LoopTypeCorrect`, `LoopAppliesOnce`, `LoopRecordIsTrue`, `LoopEndedIsFinal` |

Where a property holds until a history variable says that something has happened
(`races`, `overtaken`, `used.cancel`), the inductive invariant is an implication:
the types always, and the rest as long as it has not. A step that makes it happen
has nothing to show but the types.

**Command bus.** `OneEffect`, `SameSuccess` and `Settled` follow from `IInv`,
which adds to the claims that a pending row's owner is the one call that may
settle it (`Owners`, `Sole`), that only owners of pending rows or rows given up
have effects (`EffectRows`, `HandlersFresh`), that a completion follows an
effect (`CompletionsApplied`) and that a call emits only for a completed row
(`Emitting`). Without `Sole` a row released and claimed again could be settled
by its former owner: the owner token forbids it. `NoHiddenEffect` adds (`DInv`)
that a call the bus can still refuse has not acted (`NotActed`), that its number
is not used by anybody else's effect (`Issued`), that a row in doubt answers
with the code of doubt or the handler's own (`DoubtCode`), and that the row of
an effect whose handler refused the call is still that call's claim, which
nobody else can release, or ambiguous for good (`EffectDoubtful`).
`EvidenceInOrder` adds (`EInv`) that an emitting call has written all that its
place says (`Staged`). `BusImplementsEffectOnce`: under the mapping of
`CommandBus` (applied: the handler runs that carried out the key's effect;
verdict: the row's final state; result: its output; recorded: the keys with a
success row) every step is a step of `EffectOnce` or a stutter.

**Workflow store.** `OrderInv` says that a session inside `create` or
`checkpoint` is not stale, and that any other open one is (`BusyInv`): whoever
loads next to it intrudes, and whoever writes, overwrites. `UndisturbedInv`, for
`StoreLogIsHistory` and `StoreRecoverable`, says that until a race or a throw
`StoreInv` holds: what exists of the files at each stage of `create`
(`FilesInv`), what a pending event may be (`PendingInv`), and of every session
that is not stale, that its memory is the disk's history and its process's cache
the log's length (`SessionsInv`). `StoreNoChangeLost` needs only that the memory
of a session that is not stale extends the history on disk (`AheadInv`), until an
overwrite; `StoreLogIsPrefix`, which allows operations that throw, also that the
cache is not ahead of the log (`CacheBehind`) and that a state is written before
its event (`WrittenAhead`), in `PrefixInv`.

**Workflow executor.** `SafeInv`, for the two theorems with `~LateWrites`, says
of each effect: it is written once (`WritesOnce`); verified, it is applied; not
verified, it is not taken for done (`Unverified`), whatever leads to another call
finds it absent or partial (`Repeatable`), and an open call has left a trace in
the record (`Traced`). Nothing is late and only nodes of the batch have tasks
(`TasksInBatch`). `ExecutorVerifiedNotRepeated` follows from it if handlers do
not act late; if they do, from the record of a run that nobody cancels
(`LateInv`: a node sure of its effect is verified, and a started one is not).
`ExecutorFanIn` rests on `FanInv`: a node that goes ahead (from ready on, with a
task, or at an await of `execute`) has only dependencies that are `Settled`,
succeeded with nothing under way that could change it, and the dependencies of a
pending node are not on a cancellation's list (`Based`), for all nodes but
those of `used.steered`. `ExecutorFailedIsCompensated` rests on `FailInv`: a
verified node is done, failed or running, nothing runs past the loop, and what
compensation has passed is compensated or was tried (`Handled`).

**Provider ledger.** The file keeps every entry whatever overlaps, throws or
dies (`Formed`, `Locked`), and a caller is never told more than its answer and
the provider support (`Reported`). `OneWrite` says nothing of the document and so
cannot be inductive: what keeps a second write away is that a key is given to
one attempt at a time (`Held`), that an entry is given out again only when
nothing is written or under way for it (`Free`), that a key never changes the
request it was claimed for (`Bound`), that only native or idempotent operations
are repeated (`RepeatsNative`) and that the provider carries a write out once
(`CarriedOutOnce`). `Held` and `Free` are about `Guarded` keys, plain ones that
nobody released who had not acquired them; `Bound` is about all, and with it that
no key is written for two requests.

**Spend ledger.** `IInv` says that money is spent for a key once at most, by the
one who runs it or by its late request, and by nobody once it is free or settled
(`Accounted`); what a process knows of the key it works on (`Knows`); that a
pause never tried was never asked for and a verified one was carried out
(`PausesHold`); that an overspent grant is halted (`OverspendHalts`); and that
finitely many reservations are on record and fit the caps (`Budgeted`). The sums
of `WithinBudget` are folds of the community modules; `FiniteSums` proves what a
changed or added element does to them, by the least cardinality of a
counterexample.

**Fleet.** Until a controller is overtaken at work (`UntilOvertaken`), one
controller at most works, the record is leased to it and its copy is the record
(`Holds`, `Follows`); so a phase whose hook is on its way or took effect is at
least recorded as prepared, and is not invoked again before it reads back as not
applied (`Once`): `FleetInv`. `FleetBlastRadius` holds beyond that, and its
`BlastInv` is not about the lease: what any controller's copy or the record
reports as verified is in `recorded`, which only grows (`Copies`, `Told`), so a
controller that has come to a venture, from whatever copy, has all earlier ones
there (`Led`), and so has a hook on its way or in effect (`Preceded`).
`TruthInv` adds to `FleetInv` that a venture's phases are completed in the order
of the plan and what each completed phase proves about it (`Past`), that a
controller's place agrees with the record (`AsPlanned`), that a compensation
begins only when production is settled (`Undoes`), and what an ended record says
(`AtEnd`). The order it needs is `PlanAssumption`, that of `upgradeOne`:
production is marked as touched before it is deployed and read back after, and
the lock is written last.

**Loop.** `IInv` says that what may still take effect is the attempt that holds
an undecided row whose effect is not there, that a fenced attempt had none, and
that a decided row is true (`Held`); that an owner about to send an attempt
nobody has fenced holds the row (`Asked`); that a definite answer is true
(`Heard`); that the owner of an ended run has left it (`Left`), and that a
completed run is satisfied (`Finished`).

**Only model-checked.** Liveness: `EveryCallEnds` of the bus and of the provider
ledger, `EveryRunEnds` of the executor and `RunEnds` of the fleet and of the
loop. They rest on fairness, and so on ENABLED, which TLAPS does not do here.
The two violated properties and those of section 5 are refuted, not proved.

## 5. Where code and documents disagree

The two violated runs, with their quotes, are the findings of `PROJECT.json`.
`workflow_executor_cancel_final`: a cancel persists `cancelled` and makes every
node terminal while `execute` awaits `prepareNodes` (`executor.ts:709`);
`execute` does not look at the status again, selects no node, finds all of them
terminal and sets `succeeded` (`:746`-`:750`). A cancel in the awaits of a
resumed run's recovery (`:695`) or of a failing run's compensation (`:762`) is
overwritten likewise, but neither is the shortest trace. `loop_run_fenced`: the
journal answers for an open attempt from the row of an earlier one
(`packages/loops/src/index.ts:1117`).

TLC finds the following too, with the named property alone in a cfg that makes
the given change; no run repeats them. Invariants and action properties take
`Spec`. Where the property has an exception, its removal is the change: it shows
that the exception is needed.

| Property | Take | Change | What happens |
|---|---|---|---|
| `StateLoads` | `MCWorkflowStore.cfg` | `Home <- OneProcess`, `MaxCrashes = 0`, `MaxFaults = 0` | `approve` loads a copy of a run that executes in the same process and checkpoints it (`executor.ts:2472`): the executing copy's next number is behind the log, and the run never loads again (`ARCHITECTURE.md:161`, `WORKFLOW_GRAPHS.md:27`). |
| `StreamOrdered` | `MCWorkflowStore.cfg` | `MaxCrashes = 0`, `MaxFaults = 0` | `vh cancel` beside a run in another process: two events with one number (`ARCHITECTURE.md:160`). |
| `StateLoads` where `races = {}` | `MCWorkflowStore.cfg` | `MaxFaults = 0` | A crash inside `create` before `events.jsonl` exists: resumes once, then never loads. |
| `StateLoads` where `races = {}` | `MCWorkflowStore.cfg` | `MaxCrashes = 0` | A checkpoint that throws skips an event number; the next one makes the run unloadable. |
| `NothingStartsAfterCancel` | `MCWorkflowExecutorCancelFinal.cfg` | none | A cancel during a condition's or an input validator's await: the handler is still called. With `LateWrites`, after a verification too. |
| `FanIn` over all `Nodes` | `MCWorkflowExecutorCancelFinal.cfg` | `Effectful = {b}`, `Reconcilers = {b}`, `MaxCancels = 0`, `MaxSteers = 1` | A steer makes a dependency and its dependent pending while the dependent backs off or evaluates its condition; the await's end makes it ready (`executor.ts:835`, `:1134`) and it runs before the dependency (`WORKFLOW_GRAPHS.md:23`: "waits at fan-in edges"). |
| `StaleResultDropped` | the same | the same | A steer during the output's validation: the old result is taken (`executor.ts:971`). |
| `CompensatedRunFails` | `MCWorkflowExecutorCancelFinal.cfg` | `MaxCancels = 0`, `MaxCrashes = 1` | A crash after compensation and before `run_failed`: the resumed run finds its nodes compensated, and succeeds (`tests/workflow-runtime.test.ts:533`: `expect(state.status).toBe("failed");`). |
| `EveryRunEnds` | `MCWorkflowExecutorLive.cfg` | `Effectful = {}`, `Reconcilers = {}`, `MaxCancels = 0`, `MaxSteers = 1` | A crashed run steered while inactive has status `created`: started, it skips recovery and spins on its running node. |
| `EveryRunEnds` | `MCWorkflowExecutorLate.cfg` | `FairSpec`, `MaxCancels = 0`, `MaxSteers = 0` | The same after `approve` or `refreshAuthorization` of a crashed run. |
| `FailedIsCompensated` without `used.cancel = 0` | `MCWorkflowExecutor.cfg` | `MaxCancels = 1`, `MaxSteers = 0` | A task's own reconciliation and that of a cancel read the same node: the later answer, less definite, takes a verified node back to waiting. After a crash and a refreshed authorization the run goes on, fails, and its node, skipped, is not compensated. |
| `VerifiedNotRepeated` without `LateWrites => used.cancel = 0` | `MCWorkflowExecutorLate.cfg` | none | A cancel's reconciliation verifies a late write while the next attempt is before its handler: the handler is still called. |
| `NoBlindReplay`, `SuccessIsVerified` | `MCWorkflowExecutor.cfg` | `LateWrites = TRUE` | A handler that timed out, read back as not applied and was retried writes after all: the effect is applied twice. |
| `OneWrite`, `EntriesAreTrue` without `released` | `MCProviderLedger.cfg` | none | A caller without the operation's transport settles an entry it found pending as not written (`adapter.ts:753`) while another caller's request is under way, and a third writes again (`tests/provider-idempotency-safety.test.ts:376`: "retries only after a transport explicitly confirms that no write occurred"). Or a proof that nothing was written, settled late, releases a later attempt: a settlement names the key and the request, not the attempt (`file-idempotency-ledger.ts:367`). No transport of the repository proves this today. |
| `ReconcileNeverWrites` | `MCProviderLedger.cfg` | `Rerun = {}` | Reconciling an operation with native idempotency sends the write again (`adapter.ts:1178`), also one never sent before; the comment at `adapter.ts:859` says it never executes. |
| `CompletedNotRepeated`, `ResultIsTrue` without `~overtaken` | `MCFleetRollout.cfg` | none | The lease is renewed only by progress (`controller.ts:779`): a hook that outlasts it is run again by a second controller (`lib/fleet/types.ts:75`, `FLEET_UPGRADES.md:75`), and what two controllers do to one venture need not be what either reports. |
| `VerifiedNotCompensated`; `ResultIsTrue` without its exception of compensations | `MCFleetRollout.cfg` | none | A controller that resumes after a compensation was begun comes to it only if something fails again: production that answers healthy is reported as verified (`FLEET_UPGRADES.md:123`: verified only when "any compensation" is observed). |
| `RunEnds` without `Stranded` | `MCFleetRollout.cfg` | none | A crash between writing `harness.lock` and saving it in the checkpoint leaves a lock that no resume accepts (`controller.ts:60`, `:509`). |
| `RunEnds` without `Stranded` | `MCLoopRun.cfg` | none | A crash, or an envelope that expires, between saving an action as prepared and the journal's claim leaves a run that no reconciliation can settle (`index.ts:1112`, "loop effect operation is missing from the durable journal"). |

Seen while modelling, without a property of their own:

* Command bus: a handler that wrote and then throws a `CommandBusError` of its
  own, or passes on that of a command it calls, is answered and audited as
  denied (`packages/command-bus/src/index.ts:1047`, `:1075`), though its key is
  in doubt.
* Fleet: a controller that read the run as running leases it after another has
  paused it, and works on (`FLEET_UPGRADES.md:78`).
* Loops: the output of a call that returned waiting may be written over that of
  the call that ended the run (`index.ts:1820`). A crash after a rejected action
  was saved lets the resumed run go on to the next iteration.
* Spending: the campaigns to pause are listed before the transaction that halts
  (`spend.ts:775`), so one that reserves in between gets no obligation. A
  reservation left held by a dead process is settled only by a spend read-back,
  for `reconcileProviderOutcome` refuses it (`spend.ts:734`).
* Executor: when a task's record throws, `execute` leaves while the other tasks
  of its batch go on writing the run (`executor.ts:713`).

`NoBlindReplay` is not claimed for `LateWrites`: a read-back cannot see a write
still on its way, and the executor cannot stop a handler that ignores its abort.

## 6. Plan, and what is not modelled

1. Done: `CommandBus` with `EffectOnce`, `WorkflowStore`, `WorkflowExecutor`,
   `ProviderLedger`, `SpendLedger`, `FleetRollout`, `LoopRun`.
2. Done: the safety properties of these modules as theorems. Left: abstract
   specifications of the spend ledger and the loop beside `EffectOnce`.
3. Not modelled: `UsageReservation` (venture runtime: reserve, execute, settle,
   reconcile and quarantine of a usage key, the shape of the spend ledger with
   one cap), `MigrationJournal` (an `applying` row of which no runner knows
   whether its owner lives), `FileTransaction` (files written one by one with a
   rollback in memory), the authorization envelopes and checkpoint grants as an
   operator module. They are the next modules; each answers a question that
   resembles one of the runs above, so they come after these theorems.
4. Left out of modules as their sections say: the executor's loops, iteration
   limit and public `reconcile`, and the composition of executor and store for
   records that throw.
5. Not worth a model: compilers, materializers, generators, transports, reports
   and command-line wiring, which compute in one pass or only do I/O. They are
   most of the repository's lines.
