# Atlas: a TLA+ verification project

Atlas is a single-owner assistant. A FastAPI process serves the owner's
conversations, and its background loops recover abandoned work, run schedules, watch the
host and send notifications; systemd services next to it drive managed background tasks
and maintain memory. All of them
share one PostgreSQL database and coordinate through nothing else: row locks,
compare-and-set columns, advisory locks, heartbeats and leases. Any of them can be
stopped between two transactions. The models are about that: what the tables say after
every interleaving of transactions, crashes and owner decisions, and what reaches the
outside world.

Throughout, one TLA+ action is one committed transaction, one call to an external
system, or one unlocked read whose result is used later. Paths below are relative to
`src/backend/atlas/`.

## 1. Inventory

| Component | State | Operations | What makes it correct |
|---|---|---|---|
| Action authority (`actions/`, `runtime/execution.py`) | rows of runs, actions, owner attention | propose, decide, begin, dispatch, record, acknowledge, dismiss, expire, reconcile | an effect happens at most once and only as intended; the owner's queue and the run status tell the truth |
| Run recovery (`runtime/recovery.py`, `actions/reconciliation.py`) | heartbeat, `inference_active`, `inference_status` | heartbeat, fence, interrupt | a dead process releases its slot; a slow one that was taken for dead does no harm |
| Conversation runs (`api/app.py`, `runtime/conversation.py`) | one live run per chat | admit a message, stream, finish, fail | one live inference per chat |
| Managed tasks (`runtime/managed_tasks_worker.py`, `workspace/tasks.py`, `runtime/task_state.py`) | `active_task_state` of the transcript: status, controller, budgets, checkpoint | claim, turn, checkpoint, merge, record outcome, cancel, resume | no effect is lost or replayed across iterations; budgets hold; no task is silently dropped |
| Shared writes (`persistence/shared_writes.py`) | version per resource, operation rows, receipts | lock, claim, check, mutate, commit, replay | an atomic, at-most-once compare-and-set |
| Memory candidates (`memory/reconciliation.py`, `candidates.py`, `explicit.py`) | candidates, attempts, leases, explicit obligations | enqueue, lease, stages of verification, publish, release, requeue, expire | nothing purged is published; each explicit request is answered |
| Durable memory lifecycle (`memory/lifecycle.py`, `durable.py`) | durable memories, commands, reviews, conflicts | remember, correct, retire, restore, delete, confirm, resolve | one active memory per claim; deleted content does not return |
| Retrieval and indexing (`memory/indexer.py`, `embeddings.py`, `continuity.py`, `discovery.py`) | chunks and index cursor, vectors, continuity capsules, discovery cursor | index, embed, build, sweep, rewind | derived data follow what the owner deletes; a rewind loses no turn; a worker that read before a deletion does not publish after it |
| Schedules (`schedules/`) | tasks, queued occurrences | create, update, delete, claim by time, claim by event, execute | one outstanding run per task; an event is claimed when everyone it wakes was served; the claim is never stuck |
| Notifications (`notifications/`) | ledger of rows on threads, outbox, subscriptions | emit, resolve, mirror of attention, deliver | the newest row of a thread tells its state; a row is sent once per surviving delivery; the outbox drains |
| Host monitors (`monitors/`) | recorded unit health, automaton and cursor of the connector's journal | one pass of each | alarms match the record; a code is announced once |
| Transcripts (`transcript/`) | turns, chats, revisions | append, open, close, delete | revisions fence stale readers |
| Capabilities, registry, evidence, artifacts, auth, storage, integrations, maintenance, frontend | see `PROJECT.json` | | mostly input and output around the transactions above |

**Interactions.** An inference process and the owner's decision requests both write the
ledger of actions; the reconciler writes it for processes it believes dead; cancelling a
managed task writes it from the workspace API. The task controller reads the ledger to
rebuild its checkpoint. Memory publication and every owner memory command go through the
shared write on the one resource `memory_state/owner`; deleting a chat and appending
turns move the content revision that publication is fenced with. The same deletions
rewind the index and the sweep of the conversation. What the ORM changes in owner
attention is mirrored into the notification ledger by a flush hook, in the transaction of the
authority; scheduled tasks wake on rows of the ledger, and their runs write to it again.

**What is hard here.** Checks made in one transaction and used in the next; rows read
without a lock and written back; two transactions of one handler with a crash between
them; heartbeats and leases that expire while their holder is alive; results that arrive
after the ledger has given up on them; several handlers that must each remember to do
the same bookkeeping. `PROJECT.json` lists these hazards at their lines, each with the
property that watches it or the reason why none does yet.

## 2. Modules

| Module | Models |
|---|---|
| `ActionAuthority` | ledger, inference processes, decision requests, reconciler, cancellation |
| `ActionAuthority_proofs` | nine theorems about it |
| `ManagedTasks` | the task controller over a coarser ledger |
| `ManagedTasks_proofs` | five theorems about it |
| `AtomicWrites` | the abstract shared write: an atomic compare-and-set that happens once |
| `SharedWrites` | the transactions that implement it |
| `SharedWrites_proofs` | six theorems about it, the refinement among them |
| `MemoryCandidates` | candidates, leases, publication, requests, the owner's memory commands |
| `MemoryCandidates_proofs` | four theorems about it |
| `Notifications` | ledger, attention mirror, model emits, inbox, devices, delivery |
| `Schedules` | tasks, both claims, execution, recovery; extends `Notifications` |
| `HostMonitors` | unit monitor and connector monitor; extends `Notifications` |
| `Awareness` | the three composed |
| `Awareness_proofs` | the inductive invariant of the composition and eight theorems |
| `TranscriptDerivatives` | index, vectors, capsule, sweep, deletion of turns and chat |
| `DurableMemory` | table of memories, provenance, publication, owner commands; extends it |
| `MemoryStore` | the two composed |
| `MemoryStore_proofs` | the inductive invariant of `TranscriptDerivatives` and two theorems, in the composition |
| `DurableMemory_proofs` | the inductive invariant of `DurableMemory` and two theorems, in the composition |
| `NumberLemmas` | lemmas about sequences, least numbers and iteration that the proofs share |
| `MC*` | instances for TLC |

### ActionAuthority

Variables are columns of the three tables (`runStatus`, `active`, `inference`, `fresh`,
`actStatus`, `attention`, `notice`, ...), program counters of the processes, and
`effects`, which counts how often the external effect of an action left Atlas. A decision
request is four steps, as in `decide_action`: an unlocked read, the check of the choice,
the locked `begin_execution`, the dispatch and the record of its result; the process can
die between any two. `recover_abandoned_runs` is `Fence` (slot released) and `Recover`
(run interrupted), in two transactions. `cancel_task` commits the cancellation and then
cleans up action by action and run by run (`CancelTask`, `CleanupAction`, `CleanupRun`,
`CleanupDone`), and can die in between. Heartbeat and deadline are Booleans that time may
flip at any moment, so a live process can look dead. A capability call may succeed, fail,
be refused before dispatch, or never return. Resolving the authority of a call may raise
(`ResolutionFails`): `tool_handler` then goes on with `None` and `CapabilityRuntime.call`
resolves a second time, after which the call is a proposal, is refused, or is dispatched
with no action row (`DispatchUnrecorded`); `RecordExecution` writes one afterwards. Hashes
of proposals are abstracted to the status and deadline they protect.

### ManagedTasks

Variables are the fields of `active_task_state` (`status`, `controller`, `due`, the two
failure counts, `pending`: the unresolved actions the checkpoint knows), the runs and
actions as the controller sees them, and the worker's position in its turn. `Claim` is
all of `_claim_one`: it reads the `ScanLimit` transcripts that were updated longest ago and
are not locked (`Window`; `older` is the order of `updated_at`, which only `append_turn`
moves), rewrites the checkpoints of the active ones it scans, cancels proposals for coding
operations that policy by now runs without asking, and commits only with a claim.
`task_state_handler` reads the task
without a lock and merges after locking, so it is `DeltaRead` and `DeltaMerge`.
`RecordEvidence` is the turn's evidence that the controller does not read. `RecordOutcome` is the whole of `_record_iteration_outcome` with both budgets. Identities
of runs and actions are reused when nothing refers to them, so task lifetimes are not
bounded.

### SharedWrites and AtomicWrites

`SharedWrites` takes `execute` step by step: advisory lock, insertion of the operation
row (which waits for an uncommitted row with the same id), version check, mutation,
commit, and rollback at every point; a caller may repeat its envelope or send another
one under the same id. `AtomicWrites` says what callers rely on: per operation id one
verdict for ever, and the effects of a resource form one history. The refinement mapping
reads the verdict off the committed row.

### MemoryCandidates

`cand[c]` is the row of a candidate, `attempts[c]` its reconciliation attempts,
`req[q]` an explicit obligation with its command, `review` and `conflicts` the pending
questions to the owner, `work[w]` what a worker holds in its process between its
transactions, `purge` what a retirement or deletion has read.

* `Sweep` is `claim_batch`, one transaction: obligations and retained claims expire,
  exhausted candidates fail, those without evidence are invalidated, the rest are leased.
  What the clock and the skipped locks make of each row is its parameter.
* `LoadSnapshot` ... `PersistPolicy` are the persisted stages; each rechecks the lease
  (`LiveClaim`, `_locked_live_claim`). Every outcome of the publication transaction is an
  action (`Publish...`); it expects the memory revision the worker refreshed from
  (`fresh`) and the content revision it read (`source`).
* `_release_failed` and `_invalidate_candidates` read rows without locking them. They are
  two steps each, and the second writes what SQLAlchemy would: the columns that differ
  from the row as read (`Flushed`), subject to the table's constraints (`Storable`).
* `state_version` is represented by what is asked of it, whether an attempt still carries
  the candidate's version. A version recomputed from a stale row may coincide with that
  of any open attempt, so it is a free choice there (`Recomputed`).
* What a model answers, and which memory a decision targets, is nondeterministic.

### Notifications

`notes` is the table in order of creation, `attention` the rows the flush hook mirrors.
Every settlement of a row through the ORM is mirrored (`SettleAttention`); the two bulk
UPDATEs (`DismissAll`, `OwnerWrites`) are not, and leave the item `"dismissed"`.
An emit inside a transaction that holds its thread is one step (`EmitAlone`); the model's
own emit selects the open rows in one step and writes in another, because nothing locks a
thread that has no open row yet. `deliver_pending` is one transaction with slow sends in
it: `DeliverSelect` locks the batch with SKIP LOCKED, `DeliverSend` sends one row to every
device, each of which answers on its own, `DeliverCommit` writes all results. The process
may die before (`DeliverLost`), and a device that is removed meanwhile makes the update,
and with it the transaction, fail (`DeliverTorn`). The loop and the test endpoint deliver
at the same time. `shown`, `tries` and `disturbed` are history.

### Schedules

A pass is `ClaimDue`, `ClaimEvents`, then `ExecuteClaim` and its end for each queued run;
the process can die anywhere (`SchedulerCrash`) and its running run is recovered by the
reconciler (`RecoverRun`). The reconciler may also take a live run for dead: its answer is
then refused (`ExecuteRefused`), or its heartbeat notices first and cancels the loop
(`LoopCancelled`), which only a restart of Atlas undoes. `Aggregate` is `_recompute_run`,
so a run that asks the owner waits at once, while its inference goes on; deciding settles
it, acknowledging an uncertain effect does not (`OwnerAcknowledges`). `ClaimDueFails` is the pass that the unique constraint on
(task, instant) refuses. `due()` gives `ClaimDue` the first `DueLimit` due rows in the order
of `next_run_at` (`sooner`), before the ones with an outstanding run are dropped (`Window`,
`Claims`). Both claims skip the rows that another transaction holds (`held`, `Meets`).
`ClaimEvents` carries the deferral of the code: of the `EventLimit` oldest notifications, one
is claimed only when every task it wakes, of those whose rows the pass has read, got its run
in this pass. What a run raises for the owner goes through `RaiseAttention`, and so wakes
other tasks.

### HostMonitors

Each pass holds its state row and commits the new state with the events. `UnitEvents` and
`ApplyLine`, `LineEvents`, `ApplyLiveness` are the pure transitions of the code. A line
of the connector's journal is a symbol; the lines of a device code come one by one, so
they are spread over passes in every way. `told`, `lapsed` (codes that had expired when they
were read) and `stale` are history.

### TranscriptDerivatives

One conversation. An indexing pass lists the transcript (`IndexBegin`), holds its row and
computes chunks (`IndexHold`), and commits; the listed revision and cutoff are the ones it
uses. Where `_chunk_rows` cuts is a free choice (`Chunkings`). The deletion of content is
one transaction that reads chunks, cursors and revision without locks (`PurgeOpen`) and
writes when the rows are free (`PurgeClose`): a loaded row is written only where its value
changed (`Written`). `raced` remembers what committed while a deletion was open.

### DurableMemory

A row has its status, record kind, wording, what verified it (candidate or owner
assertion), its source turn, its supersede links and its event time. Since publication and
every command serialise on the shared write of `memory_state` (modelled by `SharedWrites`)
and publication is refused when the revision moved, each is one step here. The exception
is `memory.correct`, which looks its target up in one session and writes guard and candidate
in another, without that lock: `Correct` takes any target that was once active and any
wording that was once free (`OnceActive`, `OnceFree`), and does not ask again. A guard that
a command makes on a turn that was removed before is marked `"blind"`. `Publish` takes
the model's reading (relation, target, wording, time) as a free choice, applies
`EnforceTemporalOrder`, and does what the publisher does for that decision, refusals
included (`Obstacle`). `Delete` computes the cascade (`Purged`): descendants of the
target, their candidates and source turns, what else rests on those, and what stays
because the owner asserted it in a turn that stands; what stays is detached.

## 3. Runs

| Run | Instance | States | Shows |
|---|---|---|---|
| `authority_chat` | 1 chat run, 2 actions, 2 requests, fair | 350 thousand | `AtMostOneEffect`, `NoEffectWithoutIntent`, `AttentionMatchesLedger`, `RunStatusAggregates`, `SettledIsFinal`, `ExecutingSettles`, `AbandonedRunReleased` |
| `authority_task` | 2 runs of chat and task, 1 action, cancellation | 721 thousand | `NoAbandonedExecution`, `OneLiveInference`, `CancelCleansUp` |
| `tasks_safety` | 2 tasks, 2 runs, 2 actions, scan of 2 | 1.2 million | `CheckpointCoversUnsettled`, `CompletionIsSettled`, `NoReplay` |
| `tasks_live` | 2 tasks, scan of 1, 2 runs, 1 action, budgets of 2 and 1, fair | 433 thousand | `StallIsShown`, `TaskContinues` |
| `tasks_cancelled` | 1 task | violation | `CancelledNotClaimedAgain` |
| `shared_writes` | 2 writers, 2 operation ids, 2 resources | 27 thousand | `LinearHistory`, `NoLostUpdate`, `ReceiptIsDurable`, `NoDeadlock`, `WritesAreAtomic` |
| `memory_races` | 2 requests on one turn, 2 workers and a purge or 2 candidates, retries, retention | 532 thousand | `NoMemoryFromPurged`, `AnsweredWhileChatStands` |
| `memory_live` | 1 request, 2 workers, 2 attempts, 2 retries, a purge, fair | 204 thousand | `RequestAnswered` |
| `memory_chat_deleted` | 1 request | violation | `AnsweredWithCandidate` |
| `awareness` | 2 notes, 2 tasks, 3 occurrences, 1 device, 1 unit, 6 journal lines, due limit 1, fair | 498 thousand | `LedgerIsCurrent`, `DeliveryIsOrderly`, `OneRunAtATime`, `UnitAlarmsMatchRecord`, `CodesAnnouncedOnce`, `ClaimedWhenServed`, `OutboxDrains`, `ClaimsGetThrough` |
| `scheduler_cancelled` | 1 interval task, 2 occurrences, fair | violation | `DueTasksWake` |
| `memory_store` | 3 turns, 2 sweepers, 2 purges; 2 wordings, 2 candidates, 3 memories, 2 commands | 1.8 million | `IndexIsFaithful`, `WorkersAreFenced`, `NothingRestsOnRemoved`, `MemoryTableConsistent` |

`authority_chat`, `tasks_safety`, `shared_writes`, `memory_races` and `awareness` also
check the type invariant of their module.

**Bounds and why they are enough.** Two requests and an inference are the two competitors
a compare-and-set has to separate, with the reconciler as a third; a second action makes
the aggregate differ from the status of one action. Two runs are the old and the new
inference that `OneLiveInference` separates. One task with reused identities lives
through any number of iterations; a second task is needed because one claim pass rewrites
the checkpoints of others. `TwoTasksOrTwoActions` bounds that run: a second action or a
second task, not both, and cancellations with one task only. `tasks_live` scans one row at
a time, so that two tasks are enough for one to be kept out of the window; with the second
task it leaves out actions and cancellations (`OneTaskOrTwoPlain`). Two writers with two ids on two resources
give every wait-for pattern of two transactions, and a retry under a foreign id. Two
workers are the stalled one and the one that takes over; with two attempts a candidate is
requeued as well as failed. `TwoWorkersOrTwoCandidates` bounds that run: both workers and
the purge meet on the candidate of one request; its retries, the retention and the
conflicts of two candidates, and the two requests on one turn, are explored with one
worker. `OneTroubleAtATime` bounds `memory_live` to one of a second worker at work, a purge,
and a retry or retention; the fair behaviours that stay within it are checked. `MaxRetentions` and `MaxPurges` bound what the code does not;
a purge in flight meets every stage once.

In `awareness`, `Deployments` switches on a few loops at a time: the loops that are apart
share nothing but the ledger, and each set holds those that meet on a thread, on a task
or on the outbox. Two notes suffice for a thread to be superseded and for a delivery to
overtake another; a batch of one row makes the two deliverers overlap. Six journal lines
are a whole device code after a start, and the line that follows. Three occurrences let a
task run again while another one is outstanding. A due limit of one lets a single
outstanding task hide the other; the limit of claimed notifications is not reached, and no
property is about it. One upset (`MaxUpsets`) is an edit, a pass that finds rows locked, a
capability switched off, a crash or a live run taken for dead; what each leads to goes on
to the end. In `memory_store` the parts of
maintenance act in behaviours of their own (`Parts`), each with the conversation and the
deletions, since they share nothing else; memories are made of a conversation that stands
still. Three turns make a chunk of several turns next to another; a third indexing pass
can commit after two deletions. Two commands and two candidates give every pair of steps
on a memory, from an empty table or from one unverified memory of the migration
(`Heritage`); three rows are a memory, what replaced it and a guard.

Runs, actions, requests, workers and candidates are interchangeable, which the safety
runs of tasks and memory candidates use as symmetry; runs with liveness use none.

Deadlock is checked in the shared-write and memory-candidate runs. In the others all work
may come to an end or to the bounds, and the check is off.

**Fairness.** `ActionAuthority`: an inference ends (tool calls are bounded and provider
calls time out), time passes, the reconciler's loop keeps running and is not killed
between its two transactions every time. Nothing is assumed of the owner or of external
systems. `ManagedTasks`: systemd restarts the worker, which scans again and again with no
row of the window locked, so a task that is claimable in the window time after time is
claimed; nothing is assumed to bring a task into the window. Time passes, the reconciler
works. `MemoryCandidates`: leases run out and
reviews lapse, the timer starts pass after pass, a pass goes on until it ends or is
stopped, the advisory lock is granted in turn; crashes are never required to stop.
`Awareness`: `push_delivery_loop` and `scheduler_loop` catch every `Exception` and run
on; a cancelled scheduler loop is at its end and nothing is assumed to restart it; sends
time out and an inference ends; crashes are bounded
(`MaxLost`, `MaxUpsets`), the owner, devices and other emitters owe nothing.

## 4. Theorems

All are for every value of the constants, under the assumptions named in the modules
(identities of different kinds are disjoint, `None` is none of them).

`ActionAuthority_proofs` proves the type invariant and the eight safety properties of
`ActionAuthority`. None but the type invariant is inductive by itself. What is added:

* `EffectInv`: a begun action has exactly one holder, and a holder that stands before the
  dispatch holds an action without effect. This is what the compare-and-set of
  `begin_execution` gives, and `AtMostOneEffect` and `NoEffectWithoutIntent` follow; the
  latter also says that an effect leaves without a row only after `ResolutionFails`.
* `LedgerInv`: the evidence columns agree with the status they were written with, which
  makes `AttentionMatchesLedger` inductive.
* `InferenceInv`: an automatic execution whose process is alive is the one that process
  holds. So whoever ends the inference settles it (`NoAbandonedExecution`), and a slot is
  active only while its inference runs (`OneLiveInference`).
* `AggregateInv`: an inference that ended by itself has no process left; three writers do
  not recompute the run status, and this is why that is harmless (`RunStatusAggregates`).
* `CancelInv`: whatever a cancellation still has to clean up is on the list it read
  (`CancelCleansUp`).

`SettledIsFinal` is an action property; each action's guard excludes settled actions.

`SharedWrites_proofs` proves the five invariants of `shared_writes` and the refinement
`Spec => AtomicSpec`. The inductive invariant is `TypeOK`, `LockInv` (the advisory lock
and the inserted row exclude other transactions; a claimed id has no committed row) and
`TransactionInv` (what was read under the lock still holds at the commit).
`WritersNeverDeadlock` follows without a further induction: of the writers under way, one
that has gone furthest waits for nobody.

`ManagedTasks_proofs` proves the four invariants and the action property of
`ManagedTasks`, for any retry budgets. `CheckpointCoversUnsettled` and
`CompletionIsSettled` are inductive beside the types; `NoReplay` follows from the first
and the guard of `Claim`. The bounds of the budgets in `TypeOK` are not: a failure is
counted long after the claim, so `BudgetInv` says that a task that is worked on, or is
active and not stalled, has both budgets left, and that a stalled one has spent one and
has nothing pending. `WorkerInv` ties the program counter to the run and action held.

`MemoryStore_proofs` proves `IndexIsFaithful` and `WorkersAreFenced`, for any number of
turns, passes, sweepers and deletions. The inductive invariant is `DerivInv`: what a
deletion read when it began still describes the index, the revision and the sweep, as far
as the pass, append or advance that may race with it has not (`PurgeView`); a pass that
holds the index row has cut exactly the turns after the cursor (`PassInv`); chunk ids are
used once (`NumbersInv`); the content revision grows with every change, so a builder that
finds the one it read has read what still stands (`CapsuleInv`); a sweeper's window has
every live turn it advances over (`SweepInv`).

`MemoryCandidates_proofs` proves the type invariant, `NoMemoryFromPurged` and
`AnsweredWhileChatStands`. `CandidateInv` says what a copy of a row read earlier still
tells: a purge that was read as done is done (`ReadInv`), a worker that releases has read
a leased row (`WorkersInv`), a request and the candidate it waits for name each other
(`LinksInv`). `ObligationsAreAnswered` makes no assumption on the turns that requests cite:
the request that is not first in line on a shared candidate is an exception of the property
itself (`Behind`), which is the hazard listed at `memory/explicit.py:75`.

`DurableMemory_proofs` proves `NothingRestsOnRemoved` and `MemoryTableConsistent`, for
any number of turns, memories, candidates and commands. `memory.delete` erases the
closure `Rests` of what it was asked for, a least set and not a recursion. That nothing
kept rests on it needs the closure to find everything, and so that candidates, rows and
provenance name each other: the evidence of a candidate is turns there are, its origin is
one memory, a candidate that may still be published is nobody's origin (`CandidatesInv`),
and every link ends at something that exists (`ProvenanceInv`). That no two active
memories claim one wording needs, of every pair, who may come back (`WordingInv`), and
that replacements are in the order of event time needs the rows compared to stay verified
(`TimesInv`). The proof has one lemma per publication outcome and per command. What the
migration left is constrained by `HeritageAssumption`: active memories that
are `legacy_unverified` (`src/migrations/versions/25a13_memory_state_machine.py:127`), one per
wording (the unique index of `25a06_durable_owner_memory.py:66`); superseded rows of
before the migration are left out.

`Awareness_proofs` proves the type invariant, the five safety properties of
`Notifications`, `Schedules` and `HostMonitors` and the action property
`ClaimedWhenServed`, for any number of rows, items, writers, devices, tasks, occurrences,
units and journal lines. All actors write one ledger, so a step is first seen through what
it may do there: `Extends(old, new, T)` says that rows are only added, on the threads `T`,
that no row changes what it says and that none is opened again. The threads of items,
model, units and connector are apart (`ThreadsApart`), and a property about one thread
survives every step of the actors of the others. The inductive invariant `AwareInv` has
five parts:

* `LedgerInv`: a superseded row has a later one on its thread, and only on the model's
  threads, where two writers may have read the same open rows, is there a later row than
  an open one (`Orderly`); the newest row of an item that asks for the owner says what it
  asks for; a draft is on a thread of the model's.
* `DeliveryInv`: no two deliveries hold one row, a row that waits for its send has not
  been sent, and as long as nothing was disturbed whatever was sent is older than
  whatever waits.
* `RunsInv`: a run's status is the aggregate of its parts, an outstanding run is the
  newest of its task, and the task shows it.
* `UnitInv` and `RdcInv`: the recorded health against the open alarms; the announcements
  of each line against cursor, lost cursors and ledger.

`CodesAnnouncedOnce` needs `CodeInv` beside it: the connector logs a code's lines in order
(`Chained`) and the automaton stands, between two passes, where the lines behind the cursor
put it, so that a code begun in one pass is neither lost nor announced twice in a later one.

A pass of a monitor emits a list of events. `EmitAll` and `ApplyJournal` are recursive
functions, and what they compute is proved by induction over a set: `Iterates` and `UpTo`
of `NumberLemmas` give the existence and the steps of such a function from the least
element of the set of counterexamples, since no operator can be passed to the library's
induction theorems. The assumptions are the bounds, that sets of tasks and units are
finite, and that every conversation, action and run has an attention item.

**Only model-checked.** The liveness properties `OutboxDrains`, `ClaimsGetThrough`,
`AbandonedRunReleased`, `ExecutingSettles`, `TaskContinues` and `RequestAnswered`:
fairness and `ENABLED` are outside the prover's reach. Every invariant and every action
property that a passing run checks is also a theorem.

## 5. Findings

* `tasks_cancelled`: `task_state_handler` checks the task before it locks it. A
  cancellation that commits in between is overwritten with "active" by the merge, and the
  worker claims the cancelled task again, against
  `docs/28-managed-workspace-tasks.md` and the comment in `cancel_task`.
* `memory_chat_deleted`: `delete_owner_chat` invalidates the candidates of the chat and
  leaves their explicit obligations pending for ever, against `docs/02-memory.md`
  (an obligation "resolves in the same transaction as the candidate's terminal outcome").
  For requests whose chat stands, the property holds (`AnsweredWhileChatStands`).
* `scheduler_cancelled`: `maintain_heartbeat` cancels the task it was entered in. For a
  scheduled run that is `scheduler_loop`: when the run is interrupted by the reconciler
  while its process lives (a stalled event loop, a suspended host), the `CancelledError`
  passes both `except Exception` handlers and ends the loop. Due tasks are never claimed
  again until Atlas is restarted, against `docs/11-schedules.md` ("When due, Atlas wakes a
  model with the stored intent"). A heartbeat that fails with an exception of its own does
  not do this: that exception replaces the cancellation and is caught.

## 6. Observations and limits

What the models show of the code besides the findings. Where a property holds except
for one of these cases, the exception is part of the property's formula.

Effects and tasks:

* When resolving the authority of a call raises and the second resolution, in
  `CapabilityRuntime.call`, answers "auto", a consequential effect is dispatched with no
  action row. A crash before `record_execution` loses every trace of it, and an unknown
  outcome is recorded as "failed", where an effect with a row would be "uncertain".
  `docs/17-runtime-constitution.md` asks for a durable identity before every dispatch, the
  repository's README for a durable "executing". `NoEffectWithoutIntent` holds but for these
  calls (`unresolved`). `ManagedTasks` takes the ledger as its rows tell it: an effect
  without a row is in no checkpoint there either.
* `_claim_one` scans 20 transcripts in the order of `updated_at`, whatever their status, and
  a scan moves none of them: twenty tasks that are complete, cancelled, waiting or stalled
  keep the younger ones from ever being claimed. `TaskContinues` holds but for a task that
  is out of the window for good.

Schedules and notifications:

* A one-off task that ran and is enabled again keeps its past `next_run_at`; the next
  claim violates `uq_schedule_occurrence`, rolls back and does so in every poll, so no
  task is scheduled any more. `ClaimsGetThrough` holds but for this (`Poisoned`).
* `acknowledge_uncertain` leaves action and run `uncertain`, on purpose
  (`docs/20-implementation-notes.md`); since that is outstanding, the scheduled task
  behind the run is never claimed again.
* `dismiss_informational_notices` and a new owner message resolve attention rows with one
  UPDATE, which the flush hook does not see: their threads stay open in the inbox, although
  `bridge.py` says that every resolution is mirrored and `docs/26-notifications.md` that
  dismissing resolves the thread. `LedgerIsCurrent` holds but for these (`"dismissed"`).
* `due()` takes ten tasks before `_outstanding` filters them, so ten tasks that wait for
  the owner keep the others out. `ClaimsGetThrough` holds but for this (`Crowded`). In the
  same way twenty deferred notifications keep newer ones from being claimed until they are
  too old.
* `claim_events` skips the task rows it finds locked: a notification that wakes such a task
  is claimed without a run for it, although the docstring says "only once every matching
  task has a run". `ClaimedWhenServed` holds but for these tasks (`poll.skipped`).
* Two event tasks can wake each other: only a task's own runs are excluded.
* `_thread_push_history` counts a pending row as pushed, so a resolution is pushed even if
  the alarm before it fails or is skipped later.
* Two emits on a thread without open rows leave two open rows; the newest is still open,
  which is what `LedgerIsCurrent` asks. Overlapping deliveries can show the older row of a
  tag last, hence `disturbed` in `DeliveryIsOrderly`.
* A unit that is taken off the list while it is down leaves its alarm open (`forgotten`).
  A stale journal cursor announces codes again (`stale`). A connector that restarts while
  it waits for authorization and restores its session leaves the old thread open.

Deletion and derived data:

* An indexing pass that commits while a deletion is open keeps a copy of the removed
  text, or chunks that overlap, and the cursor rewound by the deletion can be lost. A
  later pass can collide with such a chunk on its unique range and fail for ever.
  `docs/02-memory.md` and `docs/13-memory-lifecycle.md` promise that derived copies go
  with the deletion; `IndexIsFaithful` holds but for this race.
* `content_revision` is computed from the row as loaded. An `append_turn` in between can
  be undone, and a capsule read before the deletion then passes its fence (`"append"` in
  `WorkersAreFenced`); a sweep that advances meanwhile can lose the rewind (`"advance"`).
* A deletion locks turns and then the transcript, `delete_owner_chat` the other way round;
  PostgreSQL ends one of them (`PurgeAborts`).
* The deletion also clears `active_task_state` of the conversation it redacts.

Memories:

* A wording the owner retired is not published again when the owner asks to remember it:
  the restriction blocks it, and only restore brings it back. Retiring an unverified
  memory restricts nothing.
* A memory-only deletion also takes memories that share a source turn with the target.
  After "keep current" the rejected candidate is on record with the memory it lost to, so
  purging its evidence deletes the memory that was kept.
* A retire guard goes when the turn that asked for it is redacted. Restoring a guard makes
  it an active memory. `latest_owner_source` does not skip deleted turns, so a command given
  after the last turn was redacted makes its guard on the redacted turn, and restoring it
  gives an active memory that rests on it. `NothingRestsOnRemoved` holds but for these
  (`"blind"`). A review of a deleted memory can no longer be resolved.
* Two explicit requests on one owner turn share a candidate, and settling it settles the
  older only; the other stays pending with nothing to resolve it. `AnsweredWhileChatStands`
  and `RequestAnswered` hold but for the request that is behind (`Behind`). An owner confirmation is lost when a requeue
  overwrites `decision_json`; a review confirmed after a retirement puts the candidate
  back to pending where no worker takes it; a stale release can do the same.

Limits:

* Transactions are atomic steps except where rows are read unlocked and written later;
  deadlocks between row locks, which PostgreSQL resolves by aborting one, are steps that
  do not happen.
* `DurableMemory` has one scope and one kind of memory; the anchor turn of a row is one of
  its evidence turns; a command that changes nothing ("already retired") is left out; the
  vectors of memories and the redaction of provider evidence are not modelled. A crash
  between the record of a command and its shared write leaves a command that the owner
  repeats. The deletion of the whole chat between the two sessions of a correction is left
  out.
* `TranscriptDerivatives`: every turn of the model has text. `_chunk_rows` skips turns
  without, which have nothing to index.
* Instants of schedules are numbered, not computed: `next_run` for cron and time zones is
  library arithmetic.

**Not modelled**: ranking and search over vectors, which is numeric; `observer.py` and
`observability.py`, which only read; evidence and artifacts, storage and projects
(content-addressed and single-request files); authentication; provider and integration
clients, whose outcomes are the nondeterministic results of a dispatch; maintenance
scripts, the frontend, deployment and migrations. `PROJECT.json` gives the reason for
each.

## 7. Plan

1. An abstract `ActionLifecycle` that `ActionAuthority` implements, with the refinement
   proved.
2. Publication of `MemoryCandidates` and of `DurableMemory` in one composition.
3. Row-lock order of ledger, controller and reconciler.
