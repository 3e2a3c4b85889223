# MoonMind: a TLA+ verification project

MoonMind runs AI coding agents ("managed" and "external" runtimes) as durable
Temporal workflows. Agents authenticate with *provider profiles* (API keys, OAuth
volumes), and most profiles may be used by only a few runs at a time. This project
specifies the parts of MoonMind whose correctness depends on concurrency, failure and
recovery, checks them with TLC on small instances, and proves the central facts with
TLAPS for every instance.

Three parts are modelled:

- the **provider-profile capacity ledger** (section 2): the singleton workflow
  `MoonMind.ProviderProfileManager`, the table `provider_profile_slot_leases`, and the
  clients that ask for slots;
- the **Omnigent session** (section 3): the workflow that supervises one session of an
  external agent, its bounded activities, the pure reconciler that decides what comes next,
  and the session row they share with the API and with sweeps;
- **container jobs** (section 4): the API service, the workflow, the docker activities with
  their memory budget, and the durable record of the job.

Sections 5 to 9 are about all of them: runs, findings, fairness, mutants, proofs. Everything
else is in the inventory and the plan.

File abbreviations used below:
`ppm` = `moonmind/workflows/temporal/workflows/provider_profile_manager.py`,
`ar` = `moonmind/workflows/temporal/workflows/agent_run.py`,
`act` = `moonmind/workflows/temporal/artifacts.py`,
`lc` = `moonmind/provider_profiles/lease_client.py`,
`os` = `moonmind/workflows/temporal/workflows/omnigent_session.py`,
`oa` = `moonmind/workflows/temporal/activities/omnigent_session_activities.py`,
`cj` = `moonmind/workflows/temporal/workflows/container_job.py`,
`cb` = `moonmind/workflows/temporal/container_job_backend.py`.

## 1. Inventory

| Component | State it keeps | Operations | Interacts with | What is hard | What makes it correct |
|---|---|---|---|---|---|
| **ProviderProfileManager** (`ppm`) | known profiles, `current_leases` per profile, cooldowns, handoff reservations, pending requests, flags | signals `request_slot`, `release_slot`, `report_cooldown`, `sync_profiles`, `shutdown`; updates `AcquireSlotV2`, `AcquireCredentialMaintenanceLease`; the loop refresh / drain / evict / verify / reclaim / drain / wait; startup, continue-as-new | AgentRun (signals both ways), lease client (updates), lease table (activities), profile rows | handlers interleave with the loop at every await; the execution dies between reserve, save and signal | capacity; one lease per requester; a holder keeps its lease and its row; ended holders are found; waiters are served |
| **Lease table** (`act`, `api_service/db/models.py`) | one row per lease | `save` (a whole snapshot), `remove`, `load` | manager | several saves in flight, retried, late | what is told is durable; what is restored fits |
| **Provider-profile activities** (`act`) | none | `list`, `verify_lease_holders`, `pending_request_order`, `ensure_manager` | manager, database, Temporal | answers are old when they arrive, or fail | a late or missing status never takes a lease |
| **Lease client** (`lc`) | deterministic owner ids | `acquire_execution_lease`, `acquire_maintenance_lease`, `release_lease`, `record_cooldown` | manager (updates) | an activity retry repeats a call that is still running; an HTTP action leases under a workflow id that does not exist | retries are idempotent; a lease in use is kept |
| **AgentRun, slot protocol** (`ar`) | requested/assigned flags, assigned profile | request, wait with timeout, selection change, release with handoff, failure | manager | `slot_assigned` crosses a release or a new request | no use without lease |
| AgentRun, execution (`ar`, `workflows/adapters`) | run status, launch and result records | launch, poll, completion signal, 429 cooldown retry, pause, cancel | manager, managed runtimes | cancellation against completion; retry after cooldown | exactly one terminal result; the slot is released on every path |
| Workflow run (`run.py`) | step ledger, children, dependencies | dependency gate, step dispatch, pause, cancel | AgentRun children | 23 000 lines, mostly data shaping | a step starts when its dependencies have succeeded |
| Merge automation, merge gate | cycle, head SHA, blockers | gate evaluation, resolver child, post-merge | GitHub, resolver | head moves during evaluation; signals during continue-as-new | merges only the evaluated head |
| **Container jobs** (`cj`, `cb`, `api_service/services/container_jobs.py`) | the row of a job, the workflow's state, the container, the capacity lock | submit, replay, cancel; resolve, acquire, create, start, observe; stop, publish, remove, clean up, project, repair | docker, Temporal, the database | create and start outlive the workflow's wait for them; projections fail or commit late; the start call fails although it succeeded | the budget holds; a cleaned-up job has nothing running; recorded and declared outcomes are real; every job ends |
| OAuth session | phase | start, finalize, cancel, expire | manager (maintenance lease) | finalize against expiry | one terminal phase; the lease is released |
| Managed agent session, reconcile | session epoch, bindings | control updates, clear, terminate | runtimes | updates against termination | no control after termination |
| **Omnigent session** (`os`, `oa`) | pending signals, deadline, the last decision | load, decide, run the activities of a command, observe, persist signals and failures | control plane, provider, host, manager | attempts die or overlap; the row changes under every decision | one outcome, real and final; the message is posted once; work is published before cleanup; the session ends |
| **Omnigent control plane** (`moonmind/omnigent/control_plane`, `bridge_store.py`) | the session row with revision and fences, commands, the bridge row | compare-and-set, claim, receipt, bind, record terminal, attach evidence | session activities, API, sweeps | writers that hold an old revision | the row only moves along the lifecycle |
| **Omnigent reconciler** (`moonmind/omnigent/reconciler`) | none (a pure reducer) | `reconcile`, `current_phase` | session workflow | many input combinations | the decisions it makes are safe in every reachable row |
| Omnigent host and provider leases | host lease rows, fences | acquire, renew, release, janitor | manager, hosts | janitor against a late renewal | fenced: an old holder cannot act |
| Omnigent fault laboratory | reference model | fault injection | control plane | test infrastructure | source of properties |
| Checkpoint branches | branch, turn | turn lifecycle | AgentRun | repeated turns | idempotent |
| Recurring schedules | definitions, occurrences | due occurrences, overlap, catch-up | run workflow | clock jumps, catch-up limits | no occurrence twice |
| PR resolver, publication recovery | cursor over GitHub state | resolve, recover | GitHub | external state | low priority |
| Manifest ingest, RAG | none of its own | pipelines | vector stores | I/O | not modelled |
| API service, dashboard, integrations, configuration | database rows | request handlers | everything | validation and formatting | not modelled |

`PROJECT.json` has the same list with sources and statuses, and under "hazards" the
40 places of the modelled code that are hard to test, each at its line and with the
properties about it.

### 1.1 Modules

| Module | Contents |
|---|---|
| `ProfileSelection` | the pure part: `available_slots`, `is_available`, `_profile_matches_request`, `_reserved_slot_count_for_other_groups`, `_sort_profiles_for_selection`, `_find_available_profile` |
| `ProviderProfileManager` | manager, table and clients as one state machine, with its properties |
| `CredentialLease` | abstract specification: what the users of a profile rely on |
| `ManagerImplementsLease` | refinement mapping from the manager to `CredentialLease` |
| `MCManager` | finite instances of the manager for TLC |
| `Reconciler` | the pure part of the Omnigent session: status classes, `reconcile`, `current_phase` |
| `OmnigentSession` | workflow, activities, row, commands and the world outside as one state machine, with its properties; finite by its bounds, so TLC runs it directly |
| `SessionLifecycle` | abstract specification: what readers of the session row rely on |
| `ContainerJob`, `MCContainerJob` | container jobs, with their properties, and the instance for TLC |
| `ProviderProfileManagerProofs` | types, one lease per requester, leased profiles stay known, proved with TLAPS |
| `CapacityProofs` | capacity of the ledger and of the table, slots kept for a handoff, edited capacities, proved with TLAPS |
| `HolderProofs` | holders and their leases, by signals and by updates, and the refinement of `CredentialLease`, proved with TLAPS |
| `OmnigentSessionProofs` | what each step of a session does to its state; types and the finality of the outcome, proved with TLAPS |
| `OmnigentOutcomeProofs` | recorded outcomes, publication before cleanup and accepted turns, in every behaviour, proved with TLAPS |
| `OmnigentDeliveryProofs` | one message and one lease, without overlapping attempts, proved with TLAPS |
| `OmnigentLifecycleProofs` | the refinement of `SessionLifecycle` and the order of the phases, proved with TLAPS |
| `ContainerJobProofs` | types, the memory budget, recorded and declared outcomes, what reopens a record, and lasting cleanup of container jobs, proved with TLAPS |

`ManagerImplementsLease` composes the manager with the contract its clients rely on.
`OmnigentSession` extends `Reconciler` and shows that the row implements `SessionLifecycle`.
The Omnigent model uses the manager through one variable, `lease` (`free`, `held`, or
`given_up`: released by the attempt that held it): that is the abstraction of `CredentialLease`
for a single user.

## 2. The provider-profile capacity ledger

### 2.1 Atomicity

A Temporal workflow runs its coroutines (the main coroutine, one per signal or update)
on one thread and switches only at an `await`. An action is therefore everything
between two awaits of one coroutine. `pc` is the await of the main coroutine,
`cst[c]` the await of update call `c`. A long synchronous stretch of the loop (a drain
that visits several requests without awaiting) is several actions; `pc` is then in
`Running`, where no handler, and no event outside that could be observed, may take a
step.

| `pc` | Await in `ppm` |
|---|---|
| `down` | no execution |
| `boot_profiles`, `boot_leases`, `boot_rows`, `boot_signal`, `boot_refresh` | `run`: profile list, lease load (before and after the table is read), reconnecting `slot_assigned`, refresh of restored profiles |
| `refresh`, `backoff` | `_load_profiles_from_db`, and the wait after a failure without any snapshot |
| `order` | `_order_pending_requests_by_schedule` |
| `save`, `signal` | `_drain_queue`: `_sync_leases_to_db`, `_signal_slot_assigned` |
| `evict_save`, `verify`, `reclaim_save` | save after `_evict_expired_leases`, status activity, save after `_reclaim_terminal_leases` |
| `idle` | the 60 s `wait_condition` |
| `top`, `prep`, `drain`, `restore` | none of them: `Running` |

### 2.2 State

`cat` is `_profiles` reduced to what selection reads: the sets of known, enabled, ready
and default profiles and their capacities. `leases[p]` is `current_leases` of profile
`p`; lease timestamps are not kept, so "expired" is a choice over `Expirable`. In the
same way an elapsed cooldown or reservation is a choice at the places where the code
clears it (`FirstDrainEnd`, `BeginDrain`, `AcquireOrWait`). `pend`, `todo` and
`remaining` are the queue, its sorted copy and the list being rebuilt: the code replaces
the queue by that list at the end of the drain. A queue has at most one request per
requester (`request_slot` replaces), so sets are enough; priorities order the visit and
ties (schedule, creation time, id) are left open. `snap` and `csnap[c]` are the snapshots
that saves in flight carry, `removes` the removals in flight, `db` the table, `stored` the
profile rows. `unparented` are activity leases whose metadata lost its `workflowId`.
`phase` and `told` are the clients: `told[r]` is the profile `r` believes it holds.

A requester is an AgentRun workflow (signals) or an *owner* (updates), with its workflow
`Parent[o]` and its exact profile `Target[o]`. There are three kinds of owner: an activity,
whose lease carries a deterministic id; an OAuth session, which maintains a credential under its
own workflow id, so that its lease can still be verified after a restart
(`OwnerIsWorkflow`); and an HTTP action (`_maintenance_guard` of
`api_service/api/routers/provider_profiles.py`), whose lease names the workflow `http:<id>`. Temporal does not know
that workflow, so `Parent[o] = None`, and a status check that gets an answer reports it as
not running, like an ended one: `NotRunning == Dead \cup {None}`. An activity retry is a second
element of `Calls` with the same owner.

### 2.3 Actions

*Signals*: `RequestSlot`, `WorkflowRelease`, `Withdraw` (a release without a profile id,
sent by an AgentRun whose selection changes while it waits), `OwnerRelease`,
`ReportCooldown`, `SyncProfiles`, `Shutdown`. All release handlers share `ReleaseSlot`.
*Outside*: `RemoveRow` (the removal activity of a release commits or gives up),
`EditProfiles`, `Terminate` (a workflow ends without releasing), `ReleaseLost` (the
release of an ending run finds no manager), `Crash`, `Start` (`ensure_manager`).
*Startup*: `BootProfiles`, `LoadRows`, `RowsLoaded`, `LoadFailed`, `RestoreRow`,
`RestoreDone`, `BootSignalled`, `BootRefresh`. *Loop*: `LoopTop` to `ContinueAsNew`.
*Updates*: `AcquireSlot`, `OwnerNotRunning`, `AcquireHeld`, `AcquireOrWait`, `Maintain`,
`MaintainHeld`, `WaitOver`, `UpdateSaved`, `UpdateSaveFailed`.

A save that fails may still have committed, because an activity can time out after its
last attempt has reached the database (`DrainSaveFailed`, `UpdateSaveFailed`, `Stop`). A `slot_assigned` that fails may have been
delivered or not (`DrainSignalFailed`).
When an execution ends, each save in flight may have committed or not. The `patched`
markers are taken as set: the model is the current code path.

Signals to the manager are delivered at the step in which they are sent, to a manager
that runs; a signal to a manager that is down fails, as it does for the code's external
workflow handle. `slot_assigned` is delivered when the manager's await of it ends,
so that everything may happen between the decision to signal and its arrival.

### 2.4 Environment switches

`Behaviours` names the environment behaviours an instance explores. The switches only
enable events the system really has; what a run leaves out is visible in its cfg.

| Switch | Event |
|---|---|
| `cooldown`, `handoff`, `sync`, `shutdown` | the signal of that name (or release with `handoff_next_step`) |
| `rerequest` | an AgentRun whose wait timed out asks again, even though a grant may be on its way |
| `withdraw` | an AgentRun changes its selection while it waits |
| `reuse` | a workflow id asks again after a release (next slot of the same run) |
| `terminate` | a workflow ends without a release |
| `crash`, `continue_as_new` | the execution is terminated from outside; the history limit is reached |
| `early_update` | an update arrives while the manager starts up |
| `save_failure`, `remove_failure`, `load_failure`, `list_failure`, `verify_failure` | the activity fails after its retries |
| `signal_failure` | `slot_assigned` of a drain fails, before or after its delivery, although the workflow runs |

### 2.5 Properties

Safety: `LedgerWithinCapacity`, `ShrunkCapacityIsHonoured` (a lowered capacity takes no lease
back, and none is granted beyond it), `LeasedIsKnown` (a refresh forgets no profile that is in
use), `HandoffFits`, `OneLeasePerRequester`, `HoldersInLedger`, `HoldersWithinCapacity`,
`HoldersAreDurable`, `TableWithinCapacity`; the type invariant, `TypeOK`, is proved and has no
run. Liveness: `TerminalLeaseReclaimed`, `WaiterServed`,
`ShutdownHonoured`. Refinement: `ImplementsCredentialLease`, the specification of
`CredentialLease` under the mapping `using[r] = told[r]` while `r`'s workflow runs. Each is
stated in words above its definition. `TerminalLeaseReclaimed` has one exception: a lease
restored without the workflow that owns it, which only expires.

The properties about *holders* are the ones users care about: a holder is a requester
that was told it has a profile and whose workflow runs. The ledger may be perfectly
consistent and still not contain a process that uses the credential; `HoldersInLedger`
and the refinement relate the two.

## 3. The Omnigent session

### 3.1 How the code works

`MoonMind.OmnigentSession` supervises one session. Its loop loads the session row, the
observations and the commands, lets the pure reducer `reconcile` decide one thing, persists the
decision, and does it: it runs the activities of a command (acquire the profile lease, launch the
host, create the provider's session, post the message, record the outcome, harvest and publish,
stop provider and host, release), or observes. Every activity re-reads the row, claims its
command, acts on the outside world, writes the row by compare-and-set, and settles the command.
The row is also written by the API, by projections and by a sweep that quarantines stuck sessions.

### 3.2 State

`row` is the session row with the state of its runtime binding and its turn; `obs` the
latest observations; `cmds.cur` the command of the last decision, `cmds.old` one that a late attempt still
executes; `wf` the workflow (`pc` is its await); `bridge` the bridge row's
`first_message_state`; `lease` (`free`, `held`, `given_up`), `hostUp`, `provider` and `posts` the outside world; `budget` what may
still go wrong.

A revision is compared only for equality with the current one. The model therefore keeps no
number: whoever holds a revision (the workflow, an attempt, a command) has a flag that
says whether it is still current, and every write clears the flags of the others
(`Stale`, `StaleCommands`, `Outdated`). This makes the state space finite without a bound on
the number of writes, which only `MaxBumps` (writes by others) limits.

An activity is a sequence of steps of an *attempt*. Temporal retries an attempt that dies; one that
times out may go on beside its retry. `att.main` is the attempt the workflow waits for, `att.late`
one it no longer waits for. Both run the same steps (`Attempted(a)`), between which everybody else
may act.

### 3.3 Actions

*Workflow*: `Load` (with the decision of `Reconcile`), `PersistPendingSignals`,
`LookBeforeTimeout`, `QueueTimeout`, `PersistDecision`, `Observe`, `LoadFailureAuthority`,
`PersistFailure`. *Attempts*: `Claim`, the steps of the ten activities (`ProfileGeneration`,
`AcquireLease`, `BindLease`, ..., `MarkReleased`), `Settle`. *Environment*: `Die`, `Overlap`,
`LosePost`, `AbandonLease`, `ObserveUnavailable`, `CancelSignal`, `ContinuationSignal`, `CancelWorkflow`,
`DeadlinePasses`, `Bump`, `SweepQuarantines`, `ProviderEnds`.

`AbandonLease` is every failure of `ensure_profile` between the acquisition of the lease and the
end of the bind: the profile is no longer ready, its runtime or its credential generation has
changed, the binding cannot be read or written, the database fails, or the answer to the commit
is lost. The code releases the lease in all of them (`oa` 2421-2459, 2499-2574, 2620-2622), also
when an earlier attempt, or the commit whose answer was lost, has bound the row. Then the row
says bound and the lease is given up, until a retry acquires it again.

A snapshot of a provider that has failed or was cancelled is correlated with the current turn or
not; one that is not exposes the provider as running (`RawStatus`, `TurnOutcome`).

`StoppedAs` says what the provider reports of a session that is stopped while it runs: the code
does not fix it, and the two answers lead to different behaviour. The other optional events are named in
`Behaviours`: `die`, `overlap`, `lost_post` (a request or its answer is lost), `lease_failure` (`AbandonLease`), `outage`,
`deadline`, `cancel_signal`, `continuation`, `workflow_cancel` (cancellation of the Temporal
workflow), `quarantine` (the sweep).

### 3.4 Properties

`PostedAtMostOnce`, `AcceptedWasPosted`, `RecordedOutcomeIsReal`, `OutcomeIsFinal`,
`WorkIsPublished`, `BoundLeaseIsHeld`, `PhaseNeverRegresses`; `ImplementsLifecycle` (the row
implements `SessionLifecycle`); `SessionSettles`. The two that the code does not have are
`QuarantinedIsCleanedUp` and `LeaseOutlivesHost` (section 5.2).

`BoundLeaseIsHeld` says that the lease of a row that is bound, and whose host has not been stopped,
is held, with one exception, which it states: an attempt gave the lease up after the row was bound.
No revision conflict, other writer or dead attempt loses it.

`SessionSettles` names its two exceptions, so that it says what the code does: the provider
contradicts the outcome on record (`Contradicted`; then the reducer quarantines the session
again and again), or the stop of the host was given up and the report of that was lost
(`Stranded`; the reducer then waits for an observation nobody will make). Deadlines, outages,
cancellation and dead attempts are not exceptions.

## 4. Container jobs

### 4.1 How the code works

The API service writes the row of a job and asks Temporal to start its workflow; a client
that has heard nothing submits again. The workflow resolves the workspace, acquires the
image, creates and starts the container, and observes it until it exits; all of that under one
deadline. Then it stops, publishes, removes and cleans up, each as well as it can, and
projects the terminal state to the row. Every state is projected on the way; a projection that
fails is made up for by a repair at the end. `docker start` is guarded by a memory budget: under
a file lock the backend adds up the running containers.

### 4.2 State and actions

`rec` is the row, `api` and `canceler` the requests of a client, `wf` the workflow, `op[j]` the
create or start activity of the job, `box[j]` its container, `lock` the capacity lock, `late` a
timed-out projection that may still commit. The point of the model is `op`: cancelling the wait for
an activity does not stop the activity, so the start of a container, waiting for the lock, meets
the removal of the same container by the end of its workflow.

*Service*: `SubmitReads`, `SubmitCommits`, `StartReturns`, `StartRaises`, `ServiceDies`, `CancelReads`,
`CancelCommits`. *Workflow*: `Begin` to `ObserveContainer`, `LaunchFailed`, `ActivityFails`,
`Deadline`, `Conclude` to `Repair`, `BestEffortFails`. *Activities*: `CreateContainer`,
`AcquireCapacityLock`, `LockBusy`, `EnforceBudget`, `StartContainer`, `Attest`, `WorkerDies`.
*Others*: `WorkloadExits`, `LateProjection`.

`submit` and `cancel` read the row, decide and commit with awaits in between, without a row lock or a
version, so each is two steps. What a submission does with the row it has read is
`AfterRead`.

The deadline is a choice of three outcomes, because what `asyncio.wait_for` makes of a
cancelled activity depends on where it falls: a timeout, a failure (the activity error reaches
the generic handler first), or, inside a projection, nothing at all: `_project` takes every error for a
failed write, and no deadline is left.

### 4.3 Properties

`BudgetHolds`, `CleanedUpJobDoesNotRun`, `RecordedOutcomeIsTheJobs`, `DeclaredOutcomeIsReal`,
`OnlyStaleWritersReopen` (a terminal record is replaced only by a write that was decided before
it was made and is still under way, `PendingWrites`: a late projection, a cancel request that has
read the row, a submission that has read the row or waits for its start call; and while the
record is terminal no such write begins) and `StartedJobEnds`, which has one exception, `OutlivesDeadline`: the deadline was swallowed,
nobody cancels, and the workload runs for ever.

## 5. Runs

States are distinct states.

### 5.1 Passing

| Run | Instance | Properties | States |
|---|---|---|---|
| `signals` | 1 profile of capacity 2, 3 workflows in 2 groups; handoff, reuse, cooldown | `HandoffFits`, `HoldersInLedger`, `ImplementsCredentialLease` | 371 thousand |
| `catalogue` | 2 profiles that are disabled, enabled and change capacity, 3 workflows with fallback and selector requests that are repeated, one expiring lease | `LeasedIsKnown`, `OneLeasePerRequester`, `ShrunkCapacityIsHonoured` | 3.9 million |
| `restart` | 1 profile that may be deleted, 2 workflows; crash, shutdown, continue-as-new, failing loads, lists, saves, removals and signals, repeated requests, ending workflows | `HoldersInLedger`, `HoldersAreDurable`, `TableWithinCapacity`, `ImplementsCredentialLease` | 515 thousand |
| `updates` | 1 profile, 1 workflow, the execution lease of an activity and the maintenance lease of an HTTP action, each acquired by a call and its retry; failing saves, withdrawals | `LedgerWithinCapacity` | 1.9 million, up to symmetry |
| `progress` | 1 profile, 2 workflows; repeated requests, crash, shutdown, failing removals, ending workflows | `TerminalLeaseReclaimed`, `WaiterServed`, `ShutdownHonoured` | 28 thousand |
| `progress_updates` | 1 profile, 1 workflow, an execution lease of its activity and a maintenance lease of its own; failing saves and status checks, ending workflows | `HoldersInLedger`, `TerminalLeaseReclaimed` | 13 thousand |
| `omnigent_faults` | 2 attempts per activity, 2 faults, 2 writes by others; dying attempts, lost posts, failures after the lease was acquired, outages, deadline, cancellation | `PostedAtMostOnce`, `AcceptedWasPosted`, `RecordedOutcomeIsReal`, `WorkIsPublished`, `BoundLeaseIsHeld`, `PhaseNeverRegresses`, `ImplementsLifecycle`, `SessionSettles` | 504 thousand |
| `omnigent_late` | 2 attempts, 1 fault; overlapping attempts, workflow cancellation, a continuation, the sweep's quarantine | `TypeOK`, `RecordedOutcomeIsReal`, `WorkIsPublished`, `OutcomeIsFinal` | 1.8 million |
| `container_jobs` | 2 jobs that each need the whole budget, one of them troubled: bridge network, 2 submissions, a cancel request, 1 fault, every outcome of the deadline | `TypeOK`, `BudgetHolds`, `CleanedUpJobDoesNotRun`, `RecordedOutcomeIsTheJobs`, `DeclaredOutcomeIsReal`, `OnlyStaleWritersReopen`, `StartedJobEnds` | 1.02 million |

Between them the passing runs take every action and every disjunct of the next-state
relations. Deadlock is checked in all of them but `container_jobs`, where the system stops when
every job is done and no client asks again.

**Bounds.** In the manager the sets in the cfg files are the only bounds; no counter is capped. Two
requesters on a profile of capacity one already compete for the last slot, which is
where every capacity test is decided; three workflows in two groups on capacity two are
the smallest instance in which a reservation, a lease and a foreign request meet. Two
profiles are needed only where the choice between them matters (`catalogue`).
Two calls of one owner are enough for a retry, since a third sees the
same states as the second; the workflow of `updates` is itself a competitor of the two
leases. `updates` declares the two calls of each owner symmetric (it checks an invariant only, and
nothing tells them apart). The other runs declare no symmetry: workflows differ by payload
or by `Expirable` in most instances, and symmetry is unsound in the liveness runs.
In `OmnigentSession` two attempts are the least that make a retry and an exhausted activity
different; two faults kill both attempts of one activity, which ends in the failure report,
or one attempt of each of two activities. `MaxTurnAttempts = 1` makes a continuation meet the end of its retry policy. In
`ContainerJob` one fault at each place, on one of two jobs, is enough to abandon an
activity; the other job only competes, so that the budget and the lock are contended while the
first goes wrong. The proofs (section 8) have none of these bounds.

The manager's runs are kept apart where the code has interleavings that break a
property (5.3): `restart` has no updates, so one writer of snapshots; `progress_updates` has no
restart and no HTTP action; `signals` has no repeated requests and no signal failures. In the same way `omnigent_faults`
has no overlapping attempts and `omnigent_late` checks what holds with them.

### 5.2 Violations: where the code and its documentation disagree

Each run checks one statement of a doc or comment; TLC finds an execution of
the model that breaks it. `PROJECT.json` quotes the lines.

| Run | Property | What happens |
|---|---|---|
| `early_update` | `HoldersWithinCapacity` | an update that arrives before a restarted manager has read the table is granted an occupied slot |
| `omnigent_quarantine` | `QuarantinedIsCleanedUp` | a session times out, its provider is stopped and reports that it was cancelled; that contradicts the recorded outcome, the reducer quarantines instead of cleaning up, the failure is already on record, and the loop begins again: host and lease are never released |
| `omnigent_orphan_host` | `LeaseOutlivesHost` | the host is launched, its binding loses the compare-and-set to another write of the row, and a cancellation comes next: nothing is bound, so `stop_host` stops nothing, and the profile lease is released while the host runs |

### 5.3 Further observations

These are executions of the models that are not runs of their own; adding the switches named
here to a passing instance shows them.

Manager:

- A `request_slot` that arrives during an await of the drain is overwritten by
  `self._pending_requests = remaining`. AgentRun's repeated request makes up for it:
  `WaiterServed` holds (`progress`).
- `restart` with a call: the drain's and an update's snapshots commit in the other order; the older
  one deletes a row that was already promised (`HoldersAreDurable`).
- `progress_updates` with `crash`: an activity lease restored from the table has no workflow
  id and is not reclaimed when the workflow ends, only when it expires.
- `signals` with `rerequest`: `slot_assigned` carries no request id, so one that was sent for
  a lease released meanwhile is taken for the answer to the next request, and the run uses a
  profile it has no lease on (`HoldersInLedger`).
- `restart` with `reuse`: the scheduled removal of a released row comes after the next lease of
  the same workflow is stored, and takes that row (`HoldersAreDurable`); and the reconnecting
  `slot_assigned` of a restart crosses a release and a new request, and answers the new request
  with the lease that was released (`HoldersInLedger`).
- `restart` with `withdraw`: a selection change that crosses `slot_assigned` removes the row of
  a lease that stays, until the repeated request is drained (`HoldersAreDurable`).
- `progress_updates` with a second call of `o1`: the retry is answered `already_held` while the
  first save is under way; when that save fails the lease is given up (`HoldersInLedger`).
- `updates` with `HoldersInLedger`: the lease that an HTTP action holds is reclaimed at the next
  verification, since Temporal answers NOT_FOUND for the workflow `http:<id>` and
  `verify_lease_holders` reports that as not running (`act` 4098-4101). A workflow is then granted
  the same profile while the action goes on, although the guard is documented as "Hold the shared
  credential lane through an HTTP maintenance action." (`api_service/api/routers/provider_profiles.py`
  line 71). TLC finds it in about 20 steps (`HoldersInLedger`, and with the next grant
  `HoldersWithinCapacity`).
- `signals` with `signal_failure`: a `slot_assigned` that is delivered and reported as failed
  leaves lease and request in place (the code calls this ambiguous, `ppm` 1462). The workflow
  releases while the next drain saves for the kept request, asks again, and is answered by
  that drain's signal for the lease it has released (`HoldersInLedger`, in 21 states). Without
  `reuse` it does no harm: `restart` has the switch.
- Two maintenance calls of one owner: the second may wait for the lease of its own owner, and
  one whose wait condition is true while its reservation fails starts over at once.
- `progress` with `continue_as_new`: a shutdown that arrives in the pass that ends in
  continue-as-new is forgotten, since the flag is not in the payload. Neither is `launch_ready`: an
  unready profile counts as ready until the refresh that follows.

Omnigent session:

- `omnigent_faults` with `overlap`: two attempts of `submit_turn` may both find the message
  not posted, and post it twice; the phase may go back, and with a write by others in between
  a bound lease may have been released by the attempt that lost.
- `omnigent_faults`: an attempt binds the lease, the answer to its commit is lost, and it gives the lease up
  (`AbandonLease`). The retry dies, the report of the failure loses the row to another writer,
  and the workflow loads again. The row says that the lease is bound, so the reducer goes on to
  `ensure_host`, which launches and binds a host without a lease (18 states). The same happens, with fewer
  faults, when the credential was rotated between two attempts and the retry also meets a revision
  conflict. `BoundLeaseIsHeld` states this exception.
- `omnigent_late`: a workflow cancellation that falls into `persist_decision` makes the next decision
  use its number again; if it is another decision the activity fails, and the session ends as a
  failure that is handed to the janitor. A cancellation that falls into the report of a failure ends the
  workflow (`dead`).
- The quarantine of the sweep is never taken back, so a quarantined session stays in the loop of
  observation; a continuation of a session that has ended leads to a hand-off, since its turn can
  never be submitted.

Container jobs:

- A late projection, and a cancel request that read the row before the last projection, overwrite a
  terminal record: the projection sequence is sent and never compared. So a terminal record
  is never a wrong one (`RecordedOutcomeIsTheJobs`), but it may be reopened for ever; the writers that can do so are
  those `PendingWrites` names (`OnlyStaleWritersReopen`).
- A start call that fails although the workflow was started writes FAILED over a running or ended job;
  a replay then resets the row to QUEUED, and nobody writes it again if the job has ended. That the
  replay finds the failed start on record is no protection: it may have read the row before the
  job projected its outcome and commit QUEUED over it (15 states).
- A create that outlives the job leaves a *created* container behind a successful cleanup;
  `CleanedUpJobDoesNotRun` says that it never runs.
- A cancellation signalled during the last observation overrides an observed success.

## 6. Fairness

Manager (`ProviderProfileManager!FairSpec`):

- `WF(Start \/ Boot \/ Loop)`: Temporal schedules a runnable workflow task, an activity
  returns or times out, the 60 s timer of the idle wait fires, and `ensure_manager` is
  called by whoever needs the manager;
- `WF(Update(c))`: the same for the handlers;
- `SF(Verified(NotRunning))`: the status activity reports an ended or unknown workflow sooner or
  later, although any single answer may be late or missing;
- `SF(RequestAgain(w))`: `AgentRun` waits for its slot with a timeout, looks at the
  manager's state and asks again if its request is not there; strong, because a
  crash may make the manager unreachable again and again;
- `SF(WorkflowRelease(w, FALSE))` and `SF(phase[w] = "released" /\ Terminate(w))`: a run
  ends and gives its slot back; without this a waiter may wait for ever, rightly.

Crashes are not bounded. `TerminalLeaseReclaimed` and `WaiterServed` are therefore conditional
on `Settles`: the manager is eventually not restarted any more. `Settles` is satisfied by most
behaviours of the instances, so the implication is not empty; the mutants of
`progress` break the conclusions with a settled manager.

Omnigent session: weak fairness of the workflow (`Supervise`), of the attempt it waits for
(`Attempted("main")`), and of the deadline. Nothing is assumed of the provider, which may be
silent for ever, of late attempts, or of others.

Container jobs: weak fairness of the workflow's steps, of the activities (the lock is waited for
with a limit, and whoever has it releases it or dies) and of the deadline. Nothing is assumed of
clients or workloads.

## 7. Mutants

Every property of every passing run has a mutant in `PROJECT.json`: a mapped definition
changed as a plausible bug would change it (a capacity off by one, a dropped second look
after a wait, a failed load taken for an empty table, a save that only adds rows, an
unreported status taken for terminal, a profile pruned despite a lease, a message posted again after a lost answer, a cleanup
decided before the evidence, a capacity lock per worker, a removal without force, ...). TLC finds
the property violated under each. The mutated forms stand in the modules in front of the
definitions they replace and are marked "Mutant:".

## 8. Proofs

### 8.1 Manager

`ProviderProfileManagerProofs`, `CapacityProofs` and `HolderProofs` prove, for any sets of profiles, groups, workflows, owners,
calls and payloads, and any capacities:

- **`TypeCorrect`**: `Spec => []TypeOK`, for any `Edits` and any `Behaviours`.
- **`OneLeaseEach`**: `Spec => []OneLeasePerRequester`, for any `Edits` and any `Behaviours`.
  This includes the behaviours that the violation and the observations above need (early
  updates, retries, withdrawals, failing activities, HTTP actions).
- **`LeasedStaysKnown`**: `Spec => []LeasedIsKnown`, for any `Edits` and any `Behaviours`.
- **`LedgerStaysWithinCapacity`**: `Spec => []LedgerWithinCapacity`, and
- **`TableStaysWithinCapacity`**: `Spec => []TableWithinCapacity`, both under
  `SteadyEnvironment`: `early_update` is not in `Behaviours`, and every profile row in `Edits`
  has the capacities of `InitialCatalogue` (rows may still be disabled, deleted, restored or
  change their defaults). The first condition is necessary, as `early_update` shows. The
  second excludes a capacity that is lowered below the number of leases, where the ledger
  exceeds the capacity by design until leases are released (`EditedCapacityIsHonoured` is
  about that case).
- **`ReservedSlotsStayFree`**: `Spec => []HandoffFits`, under `SteadyEnvironment` and
  `Maintenance = {}`: a maintenance lease is reserved with a look at the capacity only, so it
  may take a slot that is kept for a handoff.
- **`EditedCapacityIsHonoured`**: `Spec => ShrunkCapacityIsHonoured`, for any `Edits`, under
  `NoRestart` (no `crash`, `shutdown`, `load_failure` or `early_update`). A restart takes back
  every row of the table without a capacity test, so that after a capacity was lowered the
  restore itself adds leases beyond it.
- **`HoldersStayInLedger`**: `Spec => []HoldersInLedger`, and
- **`HoldersStayDurable`**: `Spec => []HoldersAreDurable`, both under `SignalProtocol`: no
  updates (`Calls = {}`), no expiring leases, neither `reuse` nor `withdraw`. Everything else
  is allowed: crashes, shutdowns, continue-as-new, repeated requests, failing loads, lists,
  saves, removals, signals and status checks, terminating workflows, edits of capacities. A save that is
  reported as failed has committed by then or never does (section 9). Each
  condition is necessary (5.3): with updates the table has two writers whose snapshots may
  commit in the other order; an eviction takes the lease of a running holder by design;
  after a reuse or a withdrawal the removal of the old row meets the new one.
- **`UsersStayWithinCapacity`**: `Spec => []HoldersWithinCapacity`, and
- **`ManagerIsALease`**: `Spec => ImplementsCredentialLease`, both under `SignalProtocol` and
  `SteadyEnvironment`. `HoldersWithinCapacity` is what the run `early_update` refutes when
  updates are sent to a manager that starts up.
- **`ReusersStayInLedger`**: `Spec => []HoldersInLedger` under `ReuseProtocol`, and with
  `SteadyEnvironment` **`ReusersStayWithinCapacity`**: `Spec => []HoldersWithinCapacity` and
  **`ManagerIsALeaseToReusers`**: `Spec => ImplementsCredentialLease`. Here workflows come back
  for further leases, and activities acquire leases by updates, maintenance leases included.
  Instead there are no requests repeated while one is open, no withdrawals, no signal failures, no
  expiring leases and no restart (continue-as-new is allowed), and `UpdateProtocol` holds: every owner
  belongs to a workflow (so it is an activity or an OAuth session), has one call,
  and a profile that is maintained is known, enabled and ready in every catalogue. Section 5.3
  has the executions that make the conditions on workflows and signals necessary, and the one in which the
  live lease of an HTTP action is reclaimed. A second call of an owner
  shares the lease of the first, which is given up when the save of the first one fails, or when
  the owner releases it before the first call has returned; a
  profile that is disabled or deleted while a maintenance call waits for it may be pruned, and
  the lease is then taken outside the ledger (`MaintainOrWait`).

So every passing run of the manager that checks a property of the holders has its theorems:
`restart` satisfies `SignalProtocol`, `signals` and `progress_updates` satisfy `ReuseProtocol`,
and `catalogue` satisfies `NoRestart`.

The assumptions are the named `ASSUME`s of `ProfileSelection` and
`ProviderProfileManager`: the constants have their types, `None` is none of the things it
is used beside, requests carry the group of their workflow, capacities are positive (the
column has a check constraint and the merge rejects other values), and workflows, owners
and groups are finite. TLC evaluates them in every run.

**Argument.** `OneLeasePerRequester` is not inductive: the drain checks `~HasLease` before it
reserves, but an update reserves `Target[o]` on the strength of a check that another
coroutine may have outrun, and a restart reserves rows one after the other, with signal
awaits between them in which anything may happen. `LeaseInv` has five named parts:

- `OwnersOnTarget`: a lease, a row of a snapshot in flight, a loaded row or a table row of an owner is on
  its target, so that no interleaving of update handlers can give it a second profile;
- `WorkflowsOnOne`: a workflow has at most one profile in the ledger;
- `UnrestoredHasNone`: a workflow whose row is loaded and not yet restored has no lease,
  so that restoring it does not make two. Nothing grants to a workflow during startup:
  only the drain does;
- `NoneBeforeLoad`: before the rows are loaded no workflow has a lease (updates may
  already have given leases to owners);
- `LoadedOnlyAtBoot`: outside the restore there are no loaded rows.

The proof follows the structure of `Next`: one lemma per group of actions (`SignalsLease`,
`OutsideLease`, `BootLease`, `LoopLease`, `UpdateLease`), under it one step per action,
with lemmas about the operators (`RowsOfType`, `ReserveType`, `PrunedType`,
`FindAvailableProfileType`, ...) cited where they are needed.

**Capacity.** The ledger alone does not determine its future: a restart fills it from the
table, and the table is overwritten by snapshots taken at various times. `CapInv` therefore
says, for every profile, that the rows of the table and of *every snapshot in flight* are
within the capacity (`TablesFit`), and that the ledger *together with* the rows still to be
restored is (`RestoreFits`), so that restoring a row only moves it. The rest makes the
capacity tests meaningful: the manager never overestimates a capacity (`CapacitiesKnown`: a
placeholder of an unknown profile counts as 1); a leased profile is never pruned
(`LeasedIsKnown`, from `LeasedStaysKnown`), so that no capacity is forgotten under a lease; the capacities are known
exactly while rows are restored, since `RestoreRow` tests nothing
(`RestoreKnowsCapacities`); the ledger is empty when the table is read (`EmptyBeforeLoad`);
and no update is served before that (`NoCallAtBoot`, the place where the first condition of
`SteadyEnvironment` is used). `LaterStep` and `ShrinkingStep` reduce most actions to the one
or two parts they touch.

**Handoff.** `HandoffInv` counts leases, rows still to be restored and reservations together
(`SlotsSuffice`), with capacities that are known exactly (`KnownExactly`: only a maintenance
call makes a placeholder). A
release with handoff turns a lease into a reservation (`ReleaseHandoff`); a grant either uses
the reservation of its own group or finds a profile with a slot beyond the reservations of
the others (`FoundIsNotReserved`, `GrantHandoff`), which is what
`_reserved_slot_count_for_other_groups` is for.

**Edited capacities.** `StepHonours` needs no invariant: every step but `RestoreRow` that adds
a lease has looked at the capacity it knows. `NothingToRestore` says that the only execution
found an empty table.

**Holders.** The ledger is in memory, so a holder's lease is followed through everything it
may be lost to and restored from. `HoldersAreKept` says of a holder that its row is in the
table, in the snapshot being saved, in the rows just loaded, or already back in the ledger,
according to where the manager is; `ToldTruly` says the same of a workflow that is about to be
told, *before* it becomes a holder; `LoadedIsStored` and `RemovedIsReleased` say that a
row taken from the table, and a removal that is still scheduled, are not at odds with a live
workflow.

**Refinement.** `StepImplements` rests on three facts only: what a client knows is true
(`WorkflowsKnow`, `OwnersKnow`: a workflow that was told holds, and an owner was told of its
target or of nothing), who is about to be told holds nothing or just that (`TellsTruly`), and the users fit
after the step (`UsersFit`). `DrainSignalled`, `BootSignalled` and the returns of the updates are
then `Acquire` or a stutter, `WorkflowRelease`, `Terminate`, `ReleaseLost` and the releases of
owners are the end of a use, and every other action leaves `Using` alone (`ClientsAlone`). The
two refinement theorems differ in the invariant that gives the three facts.

**Reuse.** Nothing in a `slot_assigned` says which request it answers. `ReuseInv` shows why
that does no harm without repeated requests and restarts: every request in the copy that a
pass works on, and in the queue outside a pass, is one of a workflow that still waits or is dead
(`PassAsks`, `QueueAsks`), there is one per workflow and place, and the workflow about to be told is no longer in
what remains (`TargetAsks`), so that nobody is told twice.

**Owners.** An update returns to its owner some awaits after it took the lease. `OwnerInv`
follows the lease through them: an owner that was told of a profile was served by its call and
has the lease in the ledger as long as its workflow runs (`OwnersHold`); a call that awaits its
save has reserved already (`SavesLeased`); and a profile that a maintenance call waits for is
still known (`WaitsKnown`). The last part is the reason for the condition on catalogues:
`RefreshKeepsTargets` shows that then no refresh prunes a target. Because an owner calls once,
a call that was not served yet knows of nothing (`UnservedKnowsNothing`), so that a failing
save takes back a lease nobody relies on. Workflows and owners do not meet in the invariants
(`OwnersAside`, `UpdateReuse`, `TellOwners`), only in the capacity.

### 8.2 Container jobs

`ContainerJobProofs` proves, for any finite set of jobs, any memory and budget, any set of
troubled and of bridge jobs, and any number of submissions and faults (assumption
`JobAssumption`, the types of the constants):

- **`TypeCorrect`**: `Spec => []TypeOK`, with the capacity lock held by at most one job;
- **`RecordIsTheJobs`**: `Spec => []RecordedOutcomeIsTheJobs`;
- **`CleanupIsLasting`**: `Spec => []CleanedUpJobDoesNotRun`;
- **`OutcomesAreReal`**: `Spec => DeclaredOutcomeIsReal`, an action property;
- **`OnlyLateWritesReopen`**: `Spec => OnlyStaleWritersReopen`, an action property;
- **`BudgetIsKept`**: `Spec => []BudgetHolds`.

**Argument.** A step of one job leaves the others alone (`Untouched`), so the invariant is one of
a job, `JobInv(j)`, with three parts. `Recorded` is inductive as it stands.
`CleanedUpJobDoesNotRun` is not: a container that was removed could come back, since a create
or a start may still be under way. `RemovedStaysAway` says what can be left: no container, or
one that a late create has made and that no activity is left to start; there is only one
activity per job, and only the workflow would issue the start. `DeclaredOutcomeIsReal` is not
implied by the observation alone: a container that was never started reports exit code 0.
`StartedBeforeObserved` says that a workflow observes only after a start that took the
container out of that state, and that no create can put it back. The effects of `_project`,
and of going on or ending, are stated once (`ProjectEffect`, `ProceedEffect`, `EndsEffect`),
and there is one step per action in `ServiceStep`, `LifecycleStep`, `FinalisationStep` and
`ActivitySound`. `OnlyStaleWritersReopen` follows from `Recorded` and from what a service reads: a
workflow whose outcome is on record has nothing left to do but to write it again, and begins no other
projection; a submission or a cancel request that reads a terminal record goes on without a write
(`ServiceReopens`), so that what is under way can only become less; and a step for one job leaves the
writers of the others alone (`WorkflowWriters`, `ServiceWriters`).

**Budget.** `BudgetHolds` is about all jobs at once. A start decides on an inventory
(`EnforceBudget`) and acts on it later (`StartContainer`); `StillFits` says that what was
admitted still fits beside the containers that run then, and `HoldsLock` why: who is
between the two steps is the one holder of the lock, so nobody else starts meanwhile. Every
other step is `Quiet`: it starts and admits nothing. The rest is about the sum itself.
`MemoryOf` is the library's fold over a set, a recursive function on subsets, and the facts needed of
it (`MemoryGrows`, `MemoryAdds`) are about every finite set of containers. `MemoryIsCells` shows that it
counts `Cells`: the pairs of a job and one of its units of memory, whose number
`Cardinality` gives. The induction over the set is written as the choice of a minimal subset
for which the equation fails (`MinimalSubset`, from the well-foundedness of the strict subset
relation on a finite set), because the library's induction theorems take an operator as
their parameter.

### 8.3 Omnigent session

Four modules, each extending the one before, prove for any number of attempts, faults,
snapshots and writes by others (from `OmnigentAssumption`, the types of the constants, and
`NoneAssumption`, that `None` is no activity, terminal state, outcome or kind):

| Theorem | Property | `Behaviours` |
|---|---|---|
| `TypeCorrect` | `TypeOK` | any |
| `FirstOutcomeStands` | `OutcomeIsFinal` | any |
| `OutcomeRecordedIsReal` | `RecordedOutcomeIsReal` | any |
| `CleanupAfterPublication` | `WorkIsPublished` | any |
| `AcceptedTurnWasPosted` | `AcceptedWasPosted` | any |
| `MessagePostedOnce` | `PostedAtMostOnce` | no `overlap` |
| `LeaseHeldWhileBound` | `BoundLeaseIsHeld` | no `overlap` |
| `RowImplementsLifecycle` | `ImplementsLifecycle` | no `overlap`, no `workflow_cancel` |
| `PhaseOnlyGrows` | `PhaseNeverRegresses` | no `overlap`, no `workflow_cancel`, no `continuation` |

The conditions are needed: two attempts of `submit_turn` post twice (5.3); a cancelled workflow
leaves the retry of `stop_host` behind, which marks the host stopped after the leases were
released, so the cleanup on record goes back (`omnigent_faults` with `workflow_cancel`, in 51
states); a continuation takes the turn, and with it the phase, back.

**Effects.** `OmnigentSessionProofs` first states what each group of actions does to the
row, the world, the commands and the attempts (`RowBy`, `WorldBy`, `PlaceBy`, the lemmas named
`...Effect`), once and for all, with the reducer expanded into what its decisions rest on
(`Founded`). The invariants above use these summaries and hardly ever an action.

**Outcomes.** `Sound` is inductive in every behaviour. The recorded outcome is decided on an
observation, kept in a decision, written into a command, and put on record by an attempt that
may be late, so each of these carriers has to be *backed*: the outcome it carries is what the
provider came to, or the failure of a turn that was continued (`Backed`, `Real`), and cleanup
is only decided, commanded or under way when the evidence is on record. That what is backed
stays backed (`StaysBacked`) needs that provider and row only move forward (`Later`).

**Delivery.** Without overlap there are still two attempts at a time, because the cancellation of the
workflow leaves one behind. `OneEarly` says that of the two at most one belongs to the four
activities that set a session up, since the cancellation is pending or on record and the
reducer starts no other. Then the bridge row decides about the post: `Submission` says that
nothing was posted while it is not past `prepared`, and that who is before the post is alone.
`LeaseHeld` includes the lease that is acquired and not yet bound, held or given up by the
attempt that failed afterwards (`AbandonSummary`); in no other way does it become free before the
cleanup. `TypeCorrect` includes the retry bound: `tries` counts the attempts that
have failed while another is under way, so it stays below `Attempts`.

**Lifecycle.** `CleanupOrder` says that there is one attempt and that its activity, and the
decision about to be recorded, fit the state of the cleanup. Each step of the row is then a
step of `SessionLifecycle` or leaves its variables alone. `PhaseOrder` adds what `current_phase`
looks at.

### 8.4 Only model-checked

Every invariant, action property and refinement that a passing run checks is stated by a
theorem, under the conditions above. Liveness under fairness (`TerminalLeaseReclaimed`, `WaiterServed`,
`ShutdownHonoured`, `SessionSettles`, `StartedJobEnds`) is out of the prover's reach
throughout and stays with TLC, as do the three violations, which are executions.

## 9. What is not modelled

In the manager: wall-clock time (expiry, cooldown, reservations and timers are
choices), a save or removal that commits after the attempt that sent it was reported as failed (a
timed-out save commits at the failure, or when the execution ends, or never), lease metadata other than the owner's workflow id, model tiers and pricing, the
read-only update `InspectCredentialLease` and query `get_state`, unpatched replay paths,
authentication, logging.

In the Omnigent session: the documents of intents, evidence and instructions; tool calls and
approvals that keep a turn open (`openTool` is never observed); turn claims of the interactive
API and the other findings of the sweep, which appear as writes by others; the janitor that
takes over what is handed off; continue-as-new, which carries every variable of the model. The activities
that load, heartbeat, read events, take snapshots and report failures have bounded retries too
(`os` 124-136, 226-235, 619-626); in the model they never run out of them (an outage that lasts is
`ObserveUnavailable`). In the code an exhausted load or observation is reported as a failure of
the integration, like an exhausted activity of a command, and an exhausted report fails the workflow: its
session is then left to the sweep. `HostGeneration` is one step for two transactions (a read and a
compare-and-set with the revision that was read); a write between them makes the attempt fail and be
repeated, as a conflict at any later step of the activity does in the model. Rotation or replacement of
credentials (`replace_provider_runtime_authority`) appears as attempts that fail (`AbandonLease`).
`CurrentPhase` leaves out FAILED and QUARANTINED, which the order of the phases leaves out too
(`moonmind/omnigent/reconciler/contracts.py` 129-131).

In container jobs: images, workspaces, logs, evidence and egress rules as data; the recurring
reconciler of leftovers; a worker that dies with its `docker start` already at the daemon and
not yet carried out; two submissions of one job at the same time (the client waits for the
answer of one before it submits again).

The map covers a small share of the repository: most of its lines shape data, validate,
format, and talk to services, or belong to the workflows of the plan. The other components:
section 1 and the plan.

## 10. Plan

1. `HoldersInLedger` with a call and its retry, where no save fails and no owner releases before
   all its calls have returned.
2. Container jobs: the recurring reconciler of leftovers, and with it which created containers
   may outlive their job.
3. `OAuthSession`: the session's phases, API finalisation against cancel and expiry, and its
   maintenance lease, composed with the manager through `CredentialLease`.
4. `HostLease`: host leases, fencing and the janitor that adopts what a session hands off.
5. `AgentRun`, `MergeAutomation`, the managed agent session, checkpoint branch turns and
   recurring schedules.
