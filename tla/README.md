# PayProbe: TLA+ models, checks and proofs

PayProbe tests payment systems: scenarios, participant networks and load runs
are executed by an orchestrator and a fleet of workers, and an *agent hub* runs
LLM agents and human-gated workflows against the same APIs.  This directory
holds TLA+ modules for the parts of it that coordinate: who may act, in which
order, and what survives a crash.  All paths below are under `src/`.

Reading order: [1 the system](#1-the-system), [2 the modules](#2-the-modules),
[3 the workflow engine](#3-the-workflow-engine),
[4 heartbeats](#4-heartbeats), [5 the flow fleet](#5-the-flow-fleet),
[6 load runs](#6-load-runs), [7 the TCP link](#7-the-tcp-link),
[8 functional runs](#8-functional-runs), each with its model, runs, bounds,
fairness and proofs; [9 what the code does that its comments
deny](#9-disagreements-between-the-code-and-its-documentation),
[10 what is left out](#10-not-modelled).

## 1 The system

| component | state it keeps | operations | interacts with |
|---|---|---|---|
| **agent-hub: workflow engine** `packages/agent-hub/agent_hub/engine.py` | one row per run (status, cancel flag, node states, results); in memory only a lock per run and the coroutines that wait for it | start, cancel, decide, advance, retry, heartbeat done, approval expired, tick, reconcile | the store (SQL), the launch path (call and callback), the API (calls), time |
| **agent-hub: store** `store.py` | Postgres tables: definitions, versions, heartbeats, runs, approvals, plans, pause flag | one guarded statement or one transaction each | everything in the hub |
| **agent-hub: launch path** `main.py` `launch_heartbeat`, `quotas.py` | a heartbeat row; a thread that executes it | refuse, coalesce, start, execute, record, cancel, revert | engine, wake sources, API; LLM and platform APIs from the thread |
| **agent-hub: registry** `store.py`, `main.py` `_publish`, `validate.py` | versions draft / active / superseded / retired | create, add version, edit draft, validate, publish, retire, resolve | engine and launch resolve names while editors publish |
| **agent-hub: wake sources** `triggers.py` | last wake times | event, due schedule, webhook | launch path |
| **agent toolkit** `payprobe_common/agent_toolkit.py` | the change journal of one call context | scoped dispatch, record, undo | launch path, tool nodes, MCP server |
| **flow fleet coordinator** `orchestrator/api/flow_fleet.py` | placements, registry snapshot, cooldowns | place, stop, reconcile, poll | hosts through the bus |
| **flow host** `worker/flow_host.py` | hosted listeners | claim, start, advertise, heartbeat, stop, drain | coordinator through the bus |
| **load bus** `worker/engine/load/bus.py` | queues, stop/done flags, retune key, rows with a TTL | push, claim, report, signal, list | coordinator, workers, hosts, several processes |
| **load coordinator, provisioner** `orchestrator/api/load_coordinator.py`, `worker_provisioner.py` | a load run, its tasks, merged samples | start, scale, retune, stop, drain, finish, fall back in-process | workers through the bus, run store, other replicas |
| **load worker** `worker/load_worker.py`, `engine/load/driver.py` | its shard, counters, stop event | claim, drive, sample, retune, drain | load bus |
| **run control and stores** `orchestrator/api/run_control.py`, `run_store.py`, `schedule_store.py`, `signoff_store.py` | which replica owns a run, run records, schedules, sign-offs | register, request stop, finish, orphan sweep | orchestrator replicas |
| **orchestrator API** `orchestrator/api/main.py` | in-memory live runs, network runs, topologies | start/stop/drain of runs and networks, health, replay | all of the above |
| **scenario execution** `worker/engine/engine.py`, `runner.py` | one run's phases, results and permits; a runner its scenarios share, with the undos their writes declared | check health, run fixtures and phases, walk, undo, conclude, be cancelled | adapters; the orchestrator owns the task |
| **TCP adapters** `worker/adapters/tcp` | sockets, pending requests by correlation key | send, match, time out, reconnect, late answer | scenario execution, responders |
| **services of documents** scenario, auth, insight, report, assistant, MCP, portal | rows and files | CRUD and rendering | the orchestrator |

Hard behaviour, by component, and what would make it correct:

* *Workflow engine.*  Six kinds of coroutines take turns at one lock per run and
  rewrite the whole row; rows of other tables (approvals, heartbeats) change
  outside the lock; the process may die between any two statements.  Correct if
  a write never happens without a human's approval in the run, an ended run
  stays ended, a restart resumes from the row alone, what can be undone is
  journalled and no write repeated, gates can always be answered, and a run
  always moves on.
* *Launch path.*  Check-then-act over three reads; a watchdog that fails rows
  whose thread may still live; a journal that is written through from another
  thread.  Correct if an agent has at most one running heartbeat, the quota is
  respected, no write lacks its record and a revert undoes all of them.
* *Registry.*  Publishing validates what it read and activates what is there.
  Correct if at most one version is active, pins keep resolving, and what is
  active was validated.
* *Flow fleet.*  Placements and advertisements travel through a queue and rows
  with a TTL; hosts may be slow, drained or killed.  Correct if an instance is
  served by one live host in the end, a stopped network leaves no listener, and
  the registry shows what is there.
* *Load run.*  Shards claimed by processes that come and go, cumulative samples,
  a retune key that is overwritten, a stop from another replica.  Correct if the
  slices of the fleet add up to the target, the roll-up counts every sample,
  and a stop ends the run.
* *Run control.*  Correct if exactly one replica finishes a run and no run is
  left `running` by a dead one.
* *Scenario execution.*  Scenarios of a phase run side by side on one runner; a
  cancel or an exception may come at any await, also while undos or fixtures run.
  Correct if each declared undo is executed once and in time, the after-fixtures
  come last and always, and only a run that did everything passes.
* *TCP adapters.*  Many calls share a socket that drops, stalls and answers late.
  Correct if an answer reaches the call it belongs to, every call ends, and the
  link comes back.

## 2 The modules

| modules | what they model | section |
|---|---|---|
| `WorkflowEngine`, `WorkflowEngineMC`, `WorkflowEngineProofs`, `WorkflowRowsProofs`, `WorkflowCausalProofs` | one run of the engine over its rows, with crashes | 3 |
| `HeartbeatContract`, `Heartbeat`, `HeartbeatMC`, `HeartbeatProofs` | launch path, thread, watchdog, journal and revert, and the contract they implement | 4 |
| `FlowFleet`, `FlowFleetMC`, `FlowFleetProofs` | coordinator, bus and flow hosts of one network run, composed | 5 |
| `LoadRun`, `LoadRunMC`, `LoadRunProofs` | coordinator, provisioner, bus and workers of one load run, composed | 6 |
| `TcpLink`, `TcpLinkMC`, `TcpLinkProofs` | calls, reader and reconnect of one TCP adapter | 7 |
| `ScenarioBatch`, `ScenarioBatchMC`, `ScenarioBatchProofs` | one functional run: phases, fixtures, scenarios on a shared runner, cancel | 8 |

Each component module declares its constants with named assumptions, has one
action per operation or step between two awaits, and states its properties at
its end.  The `MC` module beside it gives the constants of the `.cfg` files their
structure; the `Proofs` module holds the inductive invariant and the theorems.
Each property of a passing run has a mutant: a definition changed the way a
plausible bug would, kept beside the original with a comment `mutation:`; under
it TLC finds the property violated.

Proved, for every value of the constants: every safety property that a passing
run checks, invariants and action properties alike, and the refinement of the
heartbeat contract.  What stays with TLC is liveness (`RunMovesOn`, `CancelEnds`,
`RowsEnd`, `NetworkStops`, `Recovers`, `StopEnds`, `CallsEnd`, `Reconnects`,
`RunEnds`): it needs fairness and `ENABLED`, which TLAPS does not reach.  Two
proofs could have needed an induction over data and do without: a revert is
followed by the *first* record of each document only, and the slices of a fleet
are counted, one element for each transaction per second, instead of summed.

Work on the proofs, larger instances for TLC and closer reading of the failure
paths showed several properties to be false in an earlier form; sections 3.2, 4.2,
5.2, 6.2 and 8.2 say what each now leaves out (`EndedAtGate`, `MustCover`,
`Forgotten`, `intruded`, `left`, `leaked`, `OneEach`, `Spare`, `lost`), and section
9 lists what of that contradicts a comment.

## 3 The workflow engine

### 3.1 The model

`WorkflowEngine.tla` models one run of one workflow version; runs share nothing
but the agents (represented by `OtherWake`) and the pause flag.

| TLA+ | code |
|---|---|
| `status`, `cancel`, `doc` | the row in `agent_hub_runs`: status, `cancel_requested`, and `node_states` with `results` as functions on the nodes |
| `ap` | rows of `agent_hub_approvals` of the run |
| `hb` | rows of `agent_hub_heartbeats` of the run, and of other wakes of the same agents (`node = None`) |
| `paused`, `agentMode` | the pause flag; what `resolve` returns for an agent's name, `"none"` when retired |
| `phase` | the hub process: `down`, `starting` (store open, first tick), `resuming` (inside `reconcile`), `serving` |
| `pc`, `cur`, `mem` | the coroutine inside `async with self._lock(run_id)`: where it is, the node in hand, and its `run` / `states` / `results` dictionaries, which it changes in memory before it saves |
| `tasks` | coroutines spawned, sleeping, polling or waiting for the lock |
| `runners` | `execute()` coroutines with their thread |
| `wrote` | history only: writes each tool node performed |

One action per handler; a handler that awaits something in between is cut where
a crash or another coroutine can come in:

* `StartRun`, `RequestCancel`, `Decide` - the API call up to its first statement;
  the rest of `cancel` and `decide` waits for the lock as `CancelTask`,
  `DecideTask`.
* `DecideLocked`, `ApprovalExpired`, `RetryLater`, `HeartbeatDone`,
  `CancelLocked` - the sections under the lock.  A section with one save is one
  step; `_cancel_locked` and `_stop_siblings` touch the heartbeats and the inbox
  first (`StopNodes`) and save in a second step (`SaveStopped`).
* `Advance` and the steps of the scan: `SkipNode`, `PassThrough`,
  `EvaluateCondition`, `RequestApproval`, `CallReadTool`, `GateWriteTool`,
  `Journal`, `Write`, `RecordCreate`, `DispatchFails`, `ResolveAgent`,
  `LaunchRefused`, `LaunchCoalesced`, `LaunchStarted`, each followed by its save
  (`EndNode` when nothing outside the row changes, else `SaveNode`), then
  `EndAdvance` or `StopSiblings`.
* `RunnerEnds`, `OutcomeLost`, `WatchSees`, `Expire`, `Watchdog` - heartbeats and
  the tick; `OtherWake`, `SetPaused`, `PublishAgent` - the rest of the hub; `Crash`,
  `Restart`, `Reconcile`, `Serve` - the process.

A tool that is not a read belongs to one of three kinds, which differ in when
their undo record reaches the row.  An update or a delete puts it there first
(`Journal`), so that a sink that fails refuses the write, though the record may
still land (`DispatchFails`).  A create (`Creates`) writes first and records after,
because the record needs the new id: `RecordCreate` is that record, which may fail
and leave the write without one.  A tool of tier execute (`Executes`) records
nothing.

`execute()` tells the run that its heartbeat has ended only if `record_heartbeat`
and the alert after it return (`main.py:613`); `OutcomeLost` is the case in which
one raises, with the row still running or ended.

`ApprovedOnPath` (`_approved_on_path`) and `ApprovalGated` (`approval_gated`) are
depth-first walks with a memo and a stack in the code; on the acyclic graphs the
validator accepts, what they return is membership in a least fixed point, and
that is how they are defined here (no recursive operator, so they can be proved
about).  `MC` asserts that each workflow checked is one the hub would publish.

Abstractions: the scan's order over `spec.nodes` is dropped (any ready node may
be next, so every order is covered); values of inputs, expressions, prompts and
tool results are dropped (a condition may take either branch or fail, a tool or
heartbeat may end either way); a timeout or wall clock may elapse at any moment;
`StopNodes` is one step though it awaits once per node; timed-out approvals
expire one at a time; `advisor` is merged with `plan` (neither executes writes);
rows of refused heartbeats and plan artifacts are left out.

### 3.2 Properties and runs

`WorkflowEngineMC.tla` defines two workflows: *Deploy* (an agent plans while a
human approves a write tool and a full-mode task of the same agent, which run
side by side; plan and tool join, and the tool is followed by one that creates) and
*Route* (a condition skips the gate on one branch, the gate's `rejected` edge
leads to the same agent, and a tool of tier execute sits behind the gate).

| run | expects | properties |
|---|---|---|
| `engine_route` (520 k states, 1 min) | pass | `TypeOK`; `HumanGate`: a node writes outside mock only downstream of an approval row decided `approved`; `RowShowsTheGate`: the row itself shows an approved gate on every fired path into it; `CausallyClosed`: whatever has started has its predecessors resolved and one edge fired *in the row*, so a restart recomputes the same; `PublishedGateSuffices`: the run-time walk refuses no ready node the published graph gates; `StatusIsFinal` |
| `engine_live` (424 k states, 3 min) | pass | `RunMovesOn`: a `running` run comes to wait for a human or ends, unless the outcome of one of its heartbeats was lost (`Forgotten`); `CancelEnds`: an accepted cancel ends the run; `HeartbeatsTracked`: every heartbeat in flight is the one its node tracks, or was told to stop; `InboxIsLive`: no pending gate of an ended run or a moved-on node; `GatesStayOpen`: a gate the run waits at is pending; `WriteOnce`; `JournalComplete`: each update or delete, and each create whose node is done, has its record on the row |

`GatesStayOpen`, `InboxIsLive` and `HeartbeatsTracked` are stated for quiet states
(nobody holds or waits for the lock) because the code restores them within a
section.  `GatesStayOpen`, `WriteOnce` and
`JournalComplete` have the premise `crashes = 0`, because a crash does break them
(section 9), and so has `InboxIsLive`, since a gate may be requested twice when
the process dies before the save; every other property holds across crashes.
A gate that is rejected or expires ends the run without stopping its siblings:
`InboxIsLive` and `HeartbeatsTracked` leave out what such a run (`EndedAtGate`)
leaves in the inbox or in flight.  `JournalComplete` ranges over what the row must
be able to undo (`MustCover`): not over tools of tier execute, nor over a create
whose record failed, whose node then fails too.  `RunMovesOn` leaves out a run
with a node whose heartbeat is gone while nobody is left to tell the run
(`Forgotten`, reached by `OutcomeLost` only): such a run stays `running` until a
restart, whose watchers find the ended row, or a cancel.

### 3.3 Bounds

`MaxCrash` 1: one crash at every point, and the recovered process again runs to
the end; a second crash would restart from a row that one crash already
produces.  `MaxPublish` 1: one republish at every point changes the mode once,
in either direction.  `MaxOther` 1 in `engine_route`: one foreign wake makes the
agent busy once, for a deferral and a retry.  It is 0 in `engine_live`, where
the two tasks of one agent defer each other.  `MaxWrite` 2: the second write is
the one that must not happen; actions of a node's write are disabled beyond it,
which bounds replays after a crash only.  Tools of the three kinds are spread
over both: *Deploy* has an update and a create, *Route* a tool of tier execute.
`ApId` and `HbId` are as large as the workflow with these crashes and wakes can
use, plus none: a start that finds no free id is disabled, and 2 approvals and 3
heartbeats suffice for one gate or two tasks replayed once.  Deadlock checking
is on: the engine can always do something.

### 3.4 Fairness

`LiveSpec` assumes: the holder of the lock and the waiters run (asyncio runs
every ready coroutine; `asyncio.Lock` wakes waiters in order), a process that
died is restarted and serves (`Recovery`; strong fairness for `Serve`, because
the advance that `reconcile` awaits is first in the lock's queue, so coroutines
that come later cannot keep it from returning), and a heartbeat ends - its
thread returns, or the tick fails its row at the wall clock, and a watcher
polls. That its outcome reaches the run is not assumed.  Nothing is assumed
about humans, approvals' timeouts, other wakes, publishes or the pause flag;
`RunMovesOn` ends in `waiting` for that reason.

### 3.5 Proofs

`WorkflowEngineProofs.tla` (TLAPS, every obligation) proves for every graph,
every labelling of it, every set of ids and every bound, from
`WorkflowAssumption`, `IdAssumption` and `BoundAssumption` alone - in particular
without assuming that the graph is acyclic or that it was published soundly:

* `TypesHold`: `Spec => []TypeOK`.  `TypeOK` is not inductive: a decision taken
  over from an approval row must be one, an ended heartbeat must have an outcome.
  The strengthening `Backed` says what the coroutines and snapshots hold about the
  rows: a decision that waits for the lock is on its row, a heartbeat that is
  watched, run or named by a node has been started, one that is reported has
  ended, and a holder past the gate has a node in hand.
* `HumanGateHolds`: `Spec => []HumanGate`.  The invariant adds `Gated` to
  `TypeOK` and `Backed`: the row and the holder's snapshot say `approved` only of
  nodes whose approval row says so (`ApprovedDoc`); a holder past the gate is
  downstream of such a row (`Cleared`); hence so is whatever it writes.
  `HumanGate` alone is not inductive: nothing in it relates the snapshot, on
  which the gate is evaluated, to the approval rows.  The lemma `GateSound`
  turns the run-time walk into it: a node `ApprovedOnPath` accepts is downstream
  of an approved gate; `DownstreamMonotone` carries that over later decisions;
  `OrdinaryStep` is what all steps but five leave alone, so that the argument is
  made once for them.
* `StatusFinal`: `Spec => StatusIsFinal`.  The invariant `LockEnds` says that the
  snapshot of the lock's holder never knows less about the end of the run than
  the row: during a scan the row is active, or ended as `failed` or `done`
  exactly the way the snapshot has (`Ended`), and a failed node stays failed
  (`EndedKept`), so whatever the scan saves next has the same status.

`WorkflowRowsProofs.tla` builds on it and proves what holds of the rows when nobody
has the lock: `WriteOnceHolds`, `JournalCompleteHolds`, `GatesStayOpenHolds`,
`InboxIsLiveHolds` and `HeartbeatsTrackedHolds`.  Within a section rows and snapshot
differ, so none of these is inductive.  `RowsInv` says it of the *snapshot*, in every
state, and that between two sections the snapshot is the row (`IdleSame`):
`Written` (a node that has written is in hand or over in the snapshot, and what the
row must cover has its record there as soon as the write is made or, for a create,
recorded), `Gates`, `Inbox` and `Tracked` (what a node of
the snapshot says of its approval row or heartbeat, and the reverse), `Stopped` (a
section that stops siblings leaves none running or waiting), `ExpiredBacked` (a
timeout that waits for the lock is on its row) and `Reborn` (a hub that does not
serve has crashed).  One lemma per action; `StopFields` describes `StopNodes` once.

`WorkflowCausalProofs.tla` builds on both and proves `CausallyClosedHolds`,
`RowShowsTheGateHolds` and `PublishedGateHolds`.  The first two are about what
the row shows of a decision that was taken from a snapshot, which a crash may
have lost.  `CausalInv` says of row and snapshot that a node that has started
was due (`Closed`), and relates them (`Ahead`): what is resolved in the row is
in the snapshot too, and what the snapshot skips beyond the row is `Doomed`
there, that is, in the least set of nodes that can only be skipped, given
without recursion as what all sets closed under `Barred` share.  A node is
`Settled` when only doomed nodes are missing to make it ready, and `Traced` says
that each node with an approval row or a write, and the one in hand, is settled
in the row, whatever became of the snapshot. `Cancelled` and `NoOrphans` keep a
recovered process from taking a row it did not write for one of its own.
`PublishedGateHolds` relates two least fixed points: for a ready node of a
causally closed document, the gate over the published edges implies the gate
over the fired ones (`GraphGate`).

`RunMovesOn` and `CancelEnds` are model-checked only (fairness and `ENABLED`).

## 4 Heartbeats

### 4.1 The model

`Heartbeat.tla` models any number of wakes of any number of agents; `Ids` is one
element per wake that may ever be asked for.

| TLA+ | code |
|---|---|
| `rows` | `agent_hub_heartbeats`: status, `cancel_requested`, `journal`, `reverted_at`.  All outcomes are `"ended"`: nothing that is modelled tells them apart |
| `paused` | the flag in `agent_hub_meta` |
| `call` | which statement the `launch_heartbeat` coroutine of a wake is before |
| `runner` | the thread in `run_heartbeat`: place, step, calls left in this reply, `ctx.journal.records` (`mem`), the record in hand, whether the wall clock has passed (`expired`) and whether the row's may have (`overdue`) |
| `undo` | `revert_heartbeat` requests: the row and the records still to restore |
| `world` | the platform's documents the write tools replace, delete or create |
| `up`, `crashes` | the hub process |
| `base`, `intruded`, `overtaken`, `skipped`, `runner.after` | history, read by no action |

| action | code |
|---|---|
| `Wake`, `CoalesceCheck`, `QuotaCheck`, `StartHeartbeat`, `Reread` | `launch_heartbeat`, one action per statement that another coroutine may precede; the partial unique index is the `Busy` test of `StartHeartbeat` |
| `Begin`, `Turn`, `Reply`, `NextCall` | executor start, the two loops of `run_heartbeat` with `stop_reason` |
| `ToolReturns`, `ReadBefore`, `Journal`, `SinkFails`, `Write`, `Create` | one tool call: reads and refusals; the read of `before`; `ChangeJournal.record` through `journal_sink` to `append_journal`; the request it protects.  Create tools write first and record after |
| `RecordOutcome`, `RecordFails` | `record_heartbeat`, or the exception that leaves the row running |
| `WallClock`, `Watchdog` | time passes; `reconcile_running` at startup and on every tick |
| `RequestCancel`, `SetPaused`, `Revert`, `RestoreOne`, `MarkReverted` | the API; `restore_journal` goes newest first and passes over a record that fails |
| `Crash`, `Restart` | the process; rows and documents stay |

Two clocks matter and are kept apart: the wall clock of a wake starts in the
thread, the watchdog counts the same span and 60 s of grace from the row's
`started_at`.  A row can therefore be failed when its thread is gone, waits for
an executor, waited long for one (`overdue`, chosen in `Begin`), or has itself
passed its deadline inside a request; `Watchdog` has just these guards, and a
thread that came in time is never failed before its own deadline.
A request that answers late to `journal_sink` (`SinkFails`) may have landed.

Abstractions: the token ledgers and the human-behind-full-mode rule refuse a
wake at any time (`Wake` and `QuotaCheck` may go to `over`); what the model says
and which document a call names is any choice; documents hold one of `Values`;
the two flags of `stop_reason` are read with the decision they lead to (reading
them earlier is an interleaving of the same actions: one call may already be
past its check); the watchdog fails one row per step; the post-checks of an
answer lie between two steps of the thread and change nothing shared.

### 4.2 Properties and runs

| run | expects | properties |
|---|---|---|
| `heartbeat_one` (927 k states, 1 min) | pass | `TypeOK`; `WritesRecorded`: each document replaced or deleted has its record on the row, across failures, crashes and the overwrite by `record_heartbeat`; `RevertedIsUndone`: after a completed revert it holds what it held before the heartbeat's *first* write; `StopsWithinOneWrite`; `RowsEnd` |
| `heartbeat_two` (2.3 M states, 2 min) | pass | `KeepsContract`: refinement of `HeartbeatContract` with two heartbeats side by side |
| `unrecorded_write` | violation | section 9 |

`HeartbeatContract.tla` is what a reader of `GET /heartbeats` may rely on: per
agent one at a time, each started and ended once, the undo log grows only while
it runs, loses at the end at most records of refused writes, then is frozen until
one revert empties it.  The mapping reads `stage` and `log` off the row alone.

Exceptions the properties make, each because the code really leaves the case
open: `overtaken` heartbeats (the watchdog failed the row under a living thread;
section 9, 1), `skipped` ones (a record could not be restored and is passed
over, or the hub died in a second revert of the same row), documents someone
else changed meanwhile (`intruded`; a revert does not compare; a document is
meant as soon as the heartbeat has a record of it, also one of a call that
failed), and documents create tools made (a crash between the create and its
record leaves them; the comment at `agent_toolkit.py:754` says so), which
`WritesRecorded` and `RevertedIsUndone` leave out by ranging over `Docs` while
the actions range over `Fresh` too.

### 4.3 Bounds

`heartbeat_one`: one wake, one document with two values or none and one that is
created, two calls in one reply (a document written twice, or a write and a
create), two reverters, one crash at any point; a second turn of the loop adds
nothing a second call does not.  `heartbeat_two`: two wakes of one agent, one
document, one call each, one reverter, no crash; enough for both to race to the
index and, once the watchdog has failed the first, to write and be reverted side
by side.  Its two wakes are alike, and its property is safety, so symmetry in
them is sound.  `Cap` is 1, so the quota check of the second wake may
refuse.  No run deadlocks.

### 4.4 Fairness

`RowsEnd` assumes `WF(Run(h))`: LLM and platform requests have timeouts
(`llm.py` 60 s, `rest.py` 30 s) and the executor serves its queue;
`WF(Watchdog(h))`: the engine's ticker runs `reconcile_running` on every tick and
survives a failing one; `WF(Restart)`: a dead hub is restarted.  Nothing is
assumed about launches, cancels, pauses or reverts.

### 4.5 Proofs

`HeartbeatProofs.tla` proves for every set of wakes, agents and documents and for
every bound, from `WakesAssumption`, `DocsAssumption`, `NoneAssumption` and
`BoundsAssumption`:

* `HeartbeatTypes`: `Spec => []TypeOK`.
* `WritesAreRecorded`: `Spec => []WritesRecorded`.
* `StopsArePrompt`: `Spec => []StopsWithinOneWrite`.
* `RevertsUndo`: `Spec => []RevertedIsUndone`.
* `ContractKept`: `Spec => KeepsContract`, the refinement.

All rest on one inductive invariant, `IInv`.  None of the properties is
inductive alone: `WritesRecorded` looks at the row, yet the row is overwritten by
the thread's memory in the end, so `RecordOK` says that the memory knows every
document touched and, while the row runs, is contained in the row; a thread
before a write has its record in memory (`ThreadOK`); a heartbeat without a row
has not run, and a reverted row has ended (`RowOK`); a stopped thread with a write
behind it is past the place where another could start (`StopOK`); a revert in
progress is of an ended row that has something to undo or was already undone
(`UndoOK`), which is what makes `MarkReverted` an `Undo` or a stutter.
`OneHeartbeat`, `ThreadMoves` and `NoteGood` make the argument once for the steps
of one thread; `Untroubled` carries everyone else along.  The refinement has one
lemma per kind of step (`StartKept`, `NoteKept`, `EndKept`, `UndoKept`), and
everything else leaves `rows` alone.

`RevertsUndo` adds `UndoInv`, one conjunct per heartbeat and document.  A journal
may hold several records of a document, and records of calls that failed, but a
revert goes newest first, so what it leaves behind is the first record's `before`.
`FirstOK` says that as long as the heartbeat may write, and ever after if it has
written, the first record of a document, on the row and in the thread's memory,
is what the document held before the first write; `UndoneOK` that what a revert
still has ahead ends there, and that once one of several reverts is through with a
document, it is restored or another revert has it ahead.  So no induction along
the journal is needed: appending, taking the last and replacing by an equally good
journal each keep the first record (`AppendOpens` and its siblings).  With two
wakes TLC refuted an earlier form of the property, which took a document
changed by others to be harmless unless the heartbeat had written it; section 9
has the case.

`RowsEnd` (fairness) is model-checked only.

## 5 The flow fleet

### 5.1 The model

`FlowFleet.tla` composes one network run with the flow hosts and the bus between
them.  The run starts its listeners in `Waves`, one after the other.

| TLA+ | code |
|---|---|
| `queue`, `ad`, `stopped`, `draining` | the bus: placements, the registry rows (which lapse), the run's stop flag, a host's drain flag |
| `pc`, `cur`, `hosted` | the loop of `run_flow_host`, the placement in hand, its table of listeners |
| `leaked` | listeners that run on a host whose table entry was overwritten by a second copy |
| `run` | `start_network_flow` with `place()`, `stop_topology` with `stop()` |
| `placements`, `watched`, `poll`, `replacedAt` | the coordinator's tables, `_poll_loop` and `reconcile()`; the cooldown of a re-placement has not begun, runs, or is over |
| `left` of an advertisement | history: its host tried to retract it and could not |

`PlacePush`, `PlaceSees`, `PlaceFails`, `PlaceTimesOut` are `place()`, cut at each
await; `StopSignal` and `StopForget` are `stop()`; `Reconcile`, `PollPush`,
`PollEnds` the poller; `Claim`, `ClaimNothing`, `CheckRegistry`, `StartListener`,
`PopInstance`, `Retract`, `SweepDone`, `Beat`, `NoBeat`, `Leave` and `LeaveDone` the
host; `Drain`, `Crash`, `Expire`, `CooldownEnds` the world.  What fails in a host
has actions of its own: `StartFails` (the listener does not start, or runs and
cannot be advertised; the error is advertised, or that fails too and ends the
loop), `RetractFails` (swallowed by `_stop_instance`; the row stays until it
lapses), `LoopDies` (any other call of the bus raises: the `finally` stops what the
table has, and a claimed placement is lost), `ExpireEarly` (a host that is slow
refreshes its row too late).

`Hosts` is the assignment `hosted[iid] = h`: a host that claims a re-placement of
what it still runs overwrites the entry and leaks the first responder.

Time is reduced to its order: an advertisement lapses when nobody refreshes it, or
early as a fault, and a deadline may pass at any moment.  The three reads of
`reconcile()` are one step; the cached copy of the registry that one of them fills,
traces and the capture gate are left out.

### 5.2 Properties, run and bounds

`fleet_place` (873 k states, 3 min): `AdIsHonest`: an instance the registry shows
as up on a living host is in that host's table, or is being closed by it, or is a
row this host could not retract; `ServedOnce`: a listener that was never re-placed
runs once; `NetworkStops`: after a stop no table has a listener and nothing is
advertised, in the end and for good; `Recovers`: while the run is served, what died
with a host comes up again; `TypeOK`, which includes that no wave is placed that the
run does not have.

Two hosts compete for each placement; two waves make a wave that is placed while
another is served; one fault (a drain, a death, a failed start, a call that fails
or a row that lapses early) at any point is what sends a placement to the other
host, or back to the same; one placement in the queue at a time is a bound: a
second push waits until a host has claimed the first.  Deadlock checking is on.

`ServedOnce` leaves out listeners the poller re-placed.  Of those two may run:
`reconcile()` pushes again whatever is not advertised, also what is still queued
or starting (`flow_fleet.py:141`), both hosts can pass the registry check of
`flow_host.py:187` before either advertises, and the host that runs a listener can
claim it again once its row has lapsed.  In the last case the table keeps the new
responder only (`flow_host.py:200`): `NetworkStops` speaks of tables, because the
leaked one is stopped by nothing but the end of its process.

### 5.3 Fairness and proofs

Coroutines of the orchestrator and the loops of the hosts run on; a heartbeat
falls due again and again (`SF(Beat)`: the loop passes the place where it is
sent infinitely often, but is not there all the time); cooldowns and unrefreshed
rows run out (`WF(Time)`).  Nobody has to stop, drain, fail or die.

`FlowFleetProofs` proves `FleetTypes`, `RegistryIsHonest` and `OneHostServes`
for any number of hosts, waves and faults.  `AdIsHonest` is inductive once
`CurIsPlaced` says that a host between claim and sweep has a placement of the
run in its hands, which it lists as it advertises it; the rest of the proof is
that nobody takes a listener from a table without having it in hand (`Serves`),
and puts it down without a retract only where the row is marked `left`.
`OneHostServes` adds `OnceInv`: the placement of a listener that was never
re-placed is a token, which is in the queue once, or with one host, in its hands
or in its table (`Single`), so that its host has no entry of it to overwrite,
and of a wave that has begun, so that the request does not make it a second time
(`OnlyBegun`).  `ServedOnce` looks at the tables only, and says nothing of a
second placement still in the queue.

`NetworkStops` and `Recovers` are model-checked only.

## 6 Load runs

### 6.1 The model

`LoadRun.tla` composes one load run: coordinator, provisioner, workers and the
Redis bus.  `shards`, `stopKey`, `retune`, `done` and `present` are the keys of
the run on the bus (`present` rows lapse); `pc`, `shard`, `pend`, `fleet` the
workers; `run`, `profile`, `latest`, `grace` the coordinator's record; `stopping`,
`request`, `provisioning` the requests under way between their awaits.  Requests are
coroutines of `Caller`s, and nothing in the code keeps two of them apart: several
re-scales and re-tunes may be under way at once, beside `_provision`, and reach
the key and the provisioner in different orders.

| action | code |
|---|---|
| `Claim`, `ClaimTimesOut`, `PollStop`, `PollRetune`, `WindowEnds`, `Resolve`, `Sample`, `Drained` | `run_worker` and `LoadDriver`: claim a shard, drive, look at stop and re-tune every half second, report, drain |
| `Provision`, `FallBack`, `ScaleFleet` | `_provision`, `_external_or_fallback`, the provisioner's `scale` |
| `ScaleBegin`, `ScaleSignal`, `ScaleProvision`; `RetuneSignal`, `RetuneStore`; `Stop`, `StopTeardown`; `StopElsewhere`, `RetuneElsewhere` | `scale`, `retune`, `stop`, and a stop or re-tune that a replica without the run sends over the bus |
| `SendStopped`, `SendElapsed`, `WatchExternalStop`, `Close`, `DrainEnds`, `DrainWatch`, `DrainDeserted`, `DrainTimesOut`, `MarkDone`, `RollUp` | `_lifecycle` with `_await_drain` |
| `Die`, `DrainWorker`, `Expire` | deaths, the drain of one worker, lapsing presence |

The provisioner may fail (`ScaleFleet`): fewer workers start than were asked for,
each removal may fail and leave its worker, and a listing that fails shows none of
those there are.

Abstractions: transactions outstanding are counted once the send window closes
(before, nothing reads their number), and only for the workers in `Slow`; a
sample reaches the coordinator at once; `RollUp` is one step with the teardown;
soak profiles, histograms and the in-memory bus are left out, and so is a total of
zero, which `scale()` leaves out of the re-tune key, and an error of the bus that
ends the poller of a worker (`load_worker.py:245`) and leaves it deaf to stops.

### 6.2 Properties, runs and bounds

`load_fleet` (1.3 M states, 3.5 min): `SlicesAddUp`: once the workers have looked,
the slices of those who drive add up to no more than the total, and one slice for
each worker too many; `LateComersStop`: no drain, grace or roll-up begins before the
stop key is set; `StopEnds`: a stop on any replica, in any phase, ends in a roll-up
and a fleet where nobody claims or drives; `TypeOK`.  `drain_deserted` is a
violation (section 9).

Two workers, fleets of one and two, a total of 3 (which two cannot share evenly)
that may be re-tuned to 1, and `MaxOps` 1: one re-scale, re-tune, death or drain at
any point of the run.  Two callers, so that a re-scale overlaps the provisioning.
One transaction outstanding on one worker makes a drain that waits.  Deadlock
checking is off, because a finished run stops.

`SlicesAddUp` has a premise, `Told`: no re-scale is under way, the re-tune key
names the fleet size, and all who drive are the provisioner's and have looked at
the key.  Without it the slices do not add up, for reasons in the code: a
re-tune drops the size from the key, a scale that races a re-tune or another scale
writes the older numbers, a scale-down re-slices before it removes workers, and
workers of an in-process fallback are not counted.

What is left with that premise is `Spare`: the workers the provisioner has beyond
the profile, because a removal failed (`worker_provisioner.py:298`; the caller gets
a notice, profile and key stay lowered) or because two scales overlapped.  The key
does not count them, so each drives a whole slice on top of the total; the property
says that it is no more than that.

After a re-scale it has a second premise, `OneEach`: no two who drive claimed the
same index.  `scale()` pushes shards when a fleet grows, but a shrink leaves those
that nobody has claimed in the queue; a later growth pushes their indexes again, and
once a worker that held another shard has died, its replacement may drive the same
low index as a colleague: each then has the remainder's extra transaction, and the
fleet more than the total (section 9).  In `load_fleet` one operation is not enough
for that, nor for a re-tune on top of a re-scale; the theorem covers both.

### 6.3 Fairness and proofs

The lifecycle, the requests and the polls of each worker go on, and a worker that
has nothing outstanding ends its drain.  Nothing is assumed of the duration of
the run, of answers or of arrivals.

`LoadRunProofs` proves `LoadTypes`, `LateComersAreStopped`, `SlicesNeverOverdrive`
and `OverdriveIsBounded` for any fleet, total and bound.  The invariant of the first
two is `LateComersStop` with the shapes of workers, bus, coordinator and requests;
what has to be shown is that shards are cut for fleet sizes the operator may ask
for, and that no path of the lifecycle comes by the stop key.

`SlicesAddUp` needs one invariant more, `Unscaled`: up to the first re-scale the
queue is the rest of the shards of `start()`, in order, and those who drive have
different ones of the others.  Then every driver's slice is the one `_split`
cuts for its index (`ToldIsCut`), and the rest is a lemma about `_split`
(`SumOfSlices`): each driver has the quotient, and those with an extra
transaction have different indexes below the remainder; how many drivers there
are is the profile's number and `Spare` (`DriversFit`).  It is proved by
counting pairs of a worker and a unit of its slice, so that no induction over
the workers is needed. `OverdriveIsBounded` says what is left without `OneEach`:
at most one transaction per second and worker too many, besides the slices of
`Spare`.

`StopEnds` is model-checked only.

## 7 The TCP link

### 7.1 The model

`TcpLink.tla` models one `TcpAdapter` with reconnect and sign-on enabled and no
limit of attempts, from the moment `connect()` has returned.  `pc`, `key`, `fut`
and `answer` are the calls in `execute` and `_exchange`; `pending`, `lock`,
`connected`, `closing` and `task` the attributes of the adapter; `owed` is what
the host may still answer on this socket.  `shared` and `cut` are history.

`Start`, `Resume`, `TakeLock`, `Drained`, `Finish`, `Timeout`, `WaitsInVain`,
`WriteBreaks` are the parts of a call between awaits; `Cancel` the load drain that
cancels calls, `Answered` the reader, `OnDisconnect`, `Open` and `Disconnect` the
link.  Calls include health checks and the keepalive.

Abstractions: a call's key is any of `Key` (a STAN that wraps or is pinned); any
waiter may get the send lock next; attempts to open that fail leave no trace; a
stalled `drain()` ends when the host reads (`Drained`) or the socket breaks
(`WriteBreaks`); a new call on an evicted adapter just times out.

### 7.2 Properties, runs and bounds

`tcp_link` (202 k states, 0.5 min): `PendingIsLive`: `_pending` holds no
leftovers; `Found`: a call whose key nobody shared can be found by its answer and
by the loss of the socket; `OwnAnswer`: it gets its own answer or none;
`CallsEnd`: each call ends, provided no `drain()` stalls for ever; `Reconnects`:
the link comes back, unless a drop met the sign-on.  `tcp_wedged` shows what
happens then (section 9).

Two calls and the sign-on with two keys: keys clash between calls, and between
a call and the sign-on.  Two drops: one starts a reconnect, the second meets it.
Deadlock checking is off: when all calls are over and the drops used up, the
adapter rests.

What the exceptions leave open is in the code: two calls with one key shadow each
other in `_pending`; the send lock and `drain()` are outside the response
timeout, so a host that stops reading holds up every call; a call that failed
while it stood in line for the lock still writes.

### 7.3 Fairness and proofs

`WF(Open)`: one day the host accepts a connection; `WF(Step)`: ready callbacks
run and timers fire.  The host need not answer or read.

`TcpLinkProofs` proves `LinkTypes`, `PendingHasNoLeftovers`, `WaitingIsFound` and
`AnswersAreOwn` for any number of calls, keys and drops.  `Found` is not inductive:
the invariant adds `Sharers` (of two calls in flight with one key, each knows of
the other) and `OneOpener` (who may open a socket, and when a host may answer).

## 8 Functional runs

### 8.1 The model

`ScenarioBatch.tla` models one functional run: the task that the orchestrator
makes for `run_scenario_batch`, the tasks that `asyncio.gather` makes for the
scenarios of a phase, and the `ScenarioRunner` all of them share.

| TLA+ | code |
|---|---|
| `stage`, `failed`, `sound`, `ending`, `verdict` | the locals of `run_scenario_batch` (`failed_targets`, whether `phase1_status` is still passed), the exception that passes through its `finally`, the status of the record |
| `cleanups`, `holder` | `_cleanups` and `_last_result` of the runner |
| `pc`, `steps`, `status`, `bad`, `todo` | the coroutine `ScenarioRunner.run` of each scenario or fixture, its result, and the `pending` of its `_run_cleanups` |
| `inside` | who holds a permit of `connection_semaphore` and `ops_limiter` |
| `asked`, `hit` | a `CancelledError` on its way to the run's task and to the tasks it waits for |
| `declared`, `lost`, `tried`, `struck`, `cutAt` | history: writes in the database that declared an undo, those of them whose step came back without success or was cancelled, undos that were executed, whether a cancel met an undo, which stage it met |

| action | code |
|---|---|
| `Dispatch`, `Commits`, `StepReturns`, `WalkEnds` | `_execute_step`, the commit in the database, what `_run_step` does when it comes back, with the registration of an undo, the end of `_run_scenario` |
| `Unwind`, `UndoReturns` | the `finally` of `run()`, `_run_cleanups` |
| `Raises`, `Cancelled` with `WriteCutOff` | an exception or `CancelledError` in either; a write under way when its step is cancelled is made or not |
| `HealthCheck`, `StartFixture`, `BeforeDone`, `EmitPhase1`, `StartPhase2`, `StartPhase3`, `GatherDone`, `GatherRaises`, `PhasesDone`, `AfterDone`, `Close` | `run_scenario_batch`, `_run_phases_2_and_3`, `_run_fixtures`, `_run_phase` |
| `Cancel`, `RunCancelled` | `cancel_run`, and the `except` of `_run_engine` |

The undo of a write is registered when its step comes back, and not when the
database commits (`runner.py:1044` to `:1076`): in between a cancel may come, while
the thread of `to_thread` (`sqlite.py:121`) or the server goes on; and a step whose
connection breaks after the commit, or whose assertions cannot be evaluated, comes
back without success and registers nothing.  `Commits` is therefore a step of its
own.

Scenarios are given by their `test_class`: `Phase2`, `Phase3`, and `Dropped`, which
`run_scenario_batch` puts in neither list (`engine.py:169`; documents that come with
the request are not validated, `main.py:420`, `:1390`).

Abstractions: which node comes next, variables, loops, sub-scenarios and the
debugger are left out; a walk is any number of steps up to `MaxStep`, each of
which may fail, so a `call` that does not find its sub-scenario is a step that
fails.  The list of undos is a set: undos of one scenario are executed newest
first, those of different scenarios in any order.  The scenarios of a phase run
up to their first step in the step that starts the phase; `_last_result` is read
when an undo is reported (it does not change before phase 3 begins, and nobody
asks later).  Exceptions are those of scenarios and fixtures; one of the sink in
`run_scenario_batch` itself, and a `CancelledError` that an adapter lets through
when its group disconnects it, are left out.  So is the teardown of the
adapters, which the code reaches on the way to a verdict only.

### 8.2 Properties, runs and bounds

`scenario_batch` (2.3 M states, 2.2 min): `UndoneOnce`: no undo is on two lists,
or on one after it was executed; `WritesUndone`: when nobody runs any more, each
write the database has that declared an undo was undone, unless a scenario
raised, a cancel met an undo, or the step of the write was cancelled or failed
after its commit (`lost`); `VerdictIsEarned`: a run that passed had every
scenario of its phases run and pass, none blocked, and every before-fixture;
`AfterFixtures`: they run once the scenarios were started, and last; `RunEnds`:
every run and every task it started ends. `undone_early` is a violation (section
9).

One scenario in phase 2 (whose failed targets block phase 3), two side by side in
phase 3, of which one shares an adapter with it; one in no phase; one fixture
before and one after.  The scenarios and the after-fixture have writes that declare
an undo.  One permit, so that one lost permit is felt.  Two cancels: the second
meets the undos that the first set off.  One exception.  One step per walk: a
write and the end after it are what others interleave with; `undone_early` has
two steps, so that the undo comes between them.  Deadlock checking is off,
because a run ends.

The exemptions are cases the code leaves open: a write whose step is cancelled
between the commit and the registration of its undo is undone by nobody, nor is
one whose step failed after the commit; a scenario in no phase does not run, and
the run passes without it; a cancel that meets an undo loses those that were
left; a scenario that raises makes `gather` return while its siblings run on,
and the first after-fixture empties the list they leave their undos on; a cancel
in the health checks or the before-fixtures skips the after-fixtures, and so
does one that comes while these run.  A cancelled run with two scenarios at work
is reported cancelled, and its after-fixtures run, while undos are still being
executed (`AfterIsLast` lets undos, but no walk, run on).

### 8.3 Fairness and proofs

Each task that can go on does, and each call of an adapter returns.  The second is
what adapters with a timeout give; the TCP adapter's `drain()` has none (section
7.2), and a run whose call stands there is cancelled or waits.  Nobody has to cancel
and nothing has to raise.

`ScenarioBatchProofs` proves `TypesHold`, `UndoneOnceHolds`, `WritesUndoneHolds`,
`VerdictIsEarnedHolds` and `AfterFixturesHold` for any scenarios, fixtures,
adapters and permits.  One invariant, `IInv`, carries all of them: `Listed` (undos on
a list were declared by a write that is made, and wait only with someone who
executes them or for someone who walks), `InOrder` (who runs at which stage),
`Asked` and `Quiet` (where a `CancelledError` is, and that without exceptions the
run goes on only when no scenario walks), `Kept` (a write is undone, or its undo is
on a list, or its step is still under way, or it is `lost`),
`Settled` and `Earned` (what the statuses say once the scenarios are over).
`WritesUndone` is not inductive, because it says nothing while someone runs; nor is
`VerdictIsEarned`, which needs that whatever blocks a scenario fails the run.
`RunEnds` is model-checked only.

## 9 Disagreements between the code and its documentation

Each is the counterexample of a run:

1. `unrecorded_write`.  `append_journal` updates a row only while it is
   `running` and does not notice that it updated none.  A heartbeat that waited
   for an executor thread, or for a slow request, may live past the watchdog's
   deadline; once its row is failed its writes go on without records, and no
   revert can find them.  `main.py:578`: "the `before` snapshot is on the row
   before the write it protects runs; if this fails the exception refuses that
   write"; `agent_toolkit.py:178`: "no change ever happens without a journal
   entry".
2. `drain_deserted`.  A worker told to stop no longer refreshes its presence
   while it drains; the row lapses within the drain's time, the coordinator takes
   the worker for finished, and terminates it with transactions outstanding.
   `load_coordinator.py:574`: "their disappearance means they finished driving +
   draining and dropped".
3. `tcp_wedged`.  A socket that drops while the reconnect waits for the reply to
   its sign-on starts no other reconnect, because one is still under way, and
   that one returns as if it had succeeded.  The link stays down until someone
   disconnects the adapter.
4. `undone_early`.  The scenarios of a phase share the runner's list of undos:
   the first to end executes the undos of writes whose scenarios are still at
   their steps.  ADR-0012: "the runner queues and executes when the scenario
   ends".

Met while modelling, and kept as exemptions of the properties named:

* *A lost decision* (`GatesStayOpen`).  `decide()` commits the decision and then
  takes the lock; a crash in between leaves a node `waiting` at a gate that is no
  longer pending.  `reconcile()` reads only `node_states`, so nobody can decide
  it and it cannot expire, though `engine.py:3` says the row is "the whole
  truth" and a run is resumed "from the row alone".
* *An outcome nobody hears of* (`RunMovesOn`).  When `record_heartbeat` raises, with
  the row updated or not, or the alert after it, `execute()` ends without `on_done`
  (`main.py:613`).  The row ends, by the watchdog if need be, but nothing in a living
  process watches it for the run: node and run stay `running` until a restart or a
  cancel.
* *A write without a record* (`JournalComplete`).  A create is journalled after it was
  made; if that record cannot be stored within ten seconds (`engine.py:463`) the call
  fails and the document stays, on no row.  `append_node_journal` says that the record
  "lands on the run row's node state before the call executes" (`store.py:636`).
  Tools of tier execute have no record by design.
* *A replayed write* (`WriteOnce`, `JournalComplete`).  A crash after a tool's
  write and before the save repeats the write, and the second call's journal
  replaces the first.  The comment at the save: "a crash here must not replay
  either".
* *An expired gate.*  An approval that times out fails the run but closes no
  other gate; the inbox keeps offering it, and its decision is stored and
  ignored.
* *A start after a failure.*  After a node failed and the row says `failed`, the
  scan starts the other ready nodes before it stops anything: "one failed node
  ends the run".
* *A record too many* (`RevertedIsUndone`).  A call that failed after its record
  leaves the record on the row.  If someone else then changes the document, and
  the heartbeat reads and writes it again, a revert restores the older record,
  and undoes the other's change with the heartbeat's.  The comment at
  `agent_toolkit.py:753` says of such a record that it "restores to the state that
  already holds, which is harmless".
* *A stale advertisement* (`AdIsHonest`).  A retract that fails is logged
  (`flow_host.py:151`); until its TTL the registry shows a listener its host has
  closed, and no host starts a new one, for each sees it advertised.
* *A leaked listener* (`ServedOnce`, `NetworkStops`).  A host that claims the
  re-placement of what it still runs, after its row lapsed or another host retracted
  it, overwrites the entry (`flow_host.py:200`); the first responder is stopped by no
  stop of the network.
* *A worker too many* (`SlicesAddUp`).  A failed removal, or two scales that overlap,
  leave more workers than the key says, each of which drives a whole slice: a total
  of 3 on a fleet shrunk from two to one is driven twice.
* *A committed write without its undo* (`WritesUndone`).  Section 8.1: a cancel, or a
  failure, between commit and registration.  ADR-0012:175 has the undo executed
  "whatever the outcome".
* *A scenario in no phase* (`VerdictIsEarned`).  It is dropped without a note, and a
  run of such scenarios alone passes (`engine.py:240`).
* *An index claimed twice* (`SlicesAddUp`, section 6.2).  From three workers to one
  and back to three while shards are still queued, and a worker that dies: a total
  of 2 is driven as 3.  `_split` promises slices that "sum back to `total`"
  (`profile.py:34`), and the comment at `load_coordinator.py:383` that "old + new
  shards sum back to the target instead of overdriving it".
* The other exemptions of sections 5.2, 6.2, 7.2 and 8.2.

## 10 Not modelled

In the engine: alerts, plan artifacts, the texts of errors, deadlines as
numbers, `stop()` of a process that shuts down in order (a crash covers it: its
tasks are cancelled at any await).  In the heartbeats: what section 4.1 lists as
abstracted, refused wakes (rows that never run), and the restoration of a
deleted document under another id.

Of the components in section 1:

* *Wake sources, quotas in tokens, the registry of definitions*: they reach the
  modelled launch path; their own state is a row or two, changed by one statement
  or one transaction per request.  That publishing activates what the row
  holds, and not what it validated, is a check-then-act of two requests that the
  store does not guard.
* *Run control and stores*: one statement per request.  The one protocol among
  them, a stop that reaches the replica that owns the run, is modelled in
  `LoadRun` (`StopElsewhere`).
* *The step graph of a scenario*: loops, branches, variables and templates are
  one coroutine's own data.
* *Codecs, generators of test data, report generators*: pure functions over
  strings and bytes, which tests exercise better than bounded inputs.
* *HTTP, gRPC, NATS and HSM adapters, responders, simulators*: request and
  response over a client library.
* *Scenario, auth and insight services, assistant, MCP server, portal*: CRUD,
  statistics and rendering over rows and documents.
