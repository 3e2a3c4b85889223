---------------------------- MODULE ContainerJob ----------------------------
(***************************************************************************)
(* Container jobs: the API service that records and submits a job          *)
(* (container_jobs.py), the workflow that runs it (container_job.py), the  *)
(* docker activities it calls (container_job_backend.py) and the writer of *)
(* the durable record (worker_runtime.py).                                 *)
(*                                                                         *)
(* A job's workflow awaits one activity at a time, but the activity does   *)
(* not stop when the workflow stops waiting for it: the deadline of the    *)
(* job, or the timeout of the activity, leaves `docker create` and         *)
(* `docker start` running beside the rest of the workflow.  op[j] is that  *)
(* activity, a process of its own.  Starts of all jobs meet at one         *)
(* capacity lock.                                                          *)
(*                                                                         *)
(* Data left out: images, workspaces, logs, egress evidence, messages.     *)
(* The states of the record between "queued" and the terminal ones are     *)
(* one, "active" (CANCELING included: no reader tells them apart).         *)
(* reconcile_container always finds nothing: the name belongs to the job   *)
(* and the server never runs a second execution of it                      *)
(* (REJECT_DUPLICATE), so no earlier attempt can have created it.          *)
(***************************************************************************)
EXTENDS Naturals, FiniteSets, FiniteSetsExt

CONSTANTS
    Jobs,         \* the jobs
    Mem,          \* the memory each job asks for
    Budget,       \* the active-memory budget of the backend
    Bridge,       \* the jobs whose network mode is "bridge"
    Troubled,     \* the jobs that are canceled, submitted again or meet faults
    MaxSubmits,   \* bound: submissions of one troubled job by its client
    MaxFaults     \* bound: failed, lost or late calls in one behaviour

ASSUME JobAssumption ==
    /\ IsFiniteSet(Jobs)
    /\ Mem \in [Jobs -> Nat]
    /\ Budget \in Nat
    /\ Bridge \subseteq Jobs
    /\ Troubled \subseteq Jobs
    /\ MaxSubmits \in Nat
    /\ MaxFaults \in Nat

VARIABLES
    rec,      \* the state of the job's row in the database
    api,      \* the submissions of a client, and the one in flight
    canceler, \* a cancel request in flight, after its read of the row
    wf,       \* the workflow execution
    op,       \* the docker create or start activity of the job
    box,      \* the container of the job
    lock,     \* the holder of the capacity lock, {} when it is free
    late,     \* a write of the row has timed out and may still commit
    faults    \* the faults so far

vars == <<rec, api, canceler, wf, op, box, lock, late, faults>>

Outcome == {"succeeded", "failed", "canceled", "timed_out"}

\* "start_failed" is FAILED with failure class temporal_start.
RecordState == {"none", "queued", "active", "start_failed"} \cup Outcome

\* The awaits inside the deadline of the job, in order.
Lifecycle == {"resolve", "acquire", "create", "start", "observe"}

Finalisation == {"ended", "stop", "publish", "remove", "cleanup", "project"}

\* The awaits of the lifecycle that begin with a projection of the state.
Projecting == {"resolve", "acquire", "start", "observe"}

\* The types of the state variables; the file lock of the backend has one holder.
TypeOK ==
    /\ rec \in [Jobs -> RecordState]
    /\ api \in [Jobs -> [submits : Nat,
                         call : {"idle", "recording", "starting", "preserving",
                                 "accepted"}]]
    /\ canceler \in [Jobs -> {"idle", "read", "over"}]
    /\ wf \in [Jobs -> [pc : {"none", "scheduled", "repair", "done"}
                               \cup Lifecycle \cup Finalisation,
                        cancel : BOOLEAN,
                        ref : BOOLEAN,
                        terminal : Outcome \cup {"none"},
                        expired : BOOLEAN,
                        repair : BOOLEAN,
                        removed : BOOLEAN,
                        cleaned : BOOLEAN]]
    /\ op \in [Jobs -> {"idle", "create", "lock", "admit", "admitted",
                        "attest", "ok", "error"}]
    /\ box \in [Jobs -> {"none", "created", "running", "exited0", "exited1"}]
    /\ lock \in SUBSET Jobs
    /\ Cardinality(lock) <= 1
    /\ late \in [Jobs -> BOOLEAN]
    /\ faults \in 0..MaxFaults

Init ==
    /\ rec = [j \in Jobs |-> "none"]
    /\ api = [j \in Jobs |-> [submits |-> 0, call |-> "idle"]]
    /\ canceler = [j \in Jobs |-> "idle"]
    /\ wf = [j \in Jobs |-> [pc |-> "none", cancel |-> FALSE, ref |-> FALSE,
                             terminal |-> "none", expired |-> FALSE,
                             repair |-> FALSE, removed |-> FALSE,
                             cleaned |-> FALSE]]
    /\ op = [j \in Jobs |-> "idle"]
    /\ box = [j \in Jobs |-> "none"]
    /\ lock = {}
    /\ late = [j \in Jobs |-> FALSE]
    /\ faults = 0

Fault(j) ==
    /\ j \in Troubled
    /\ faults < MaxFaults
    /\ faults' = faults + 1

-----------------------------------------------------------------------------
(* The API service.                                                        *)

\* Mutant: a replay takes every failed row back to QUEUED, whatever failed.
ReadsAnyFailure(state) ==
    CASE state \in {"none", "start_failed", "failed"} -> "recording"
      [] state \in Outcome -> "preserving"
      [] OTHER -> "starting"

\* What a submission does next, by the row it has read: it creates the row, or takes
\* a recorded start failure back to QUEUED; any other row is left as it is.  A
\* replay that found a terminal row will not record a failure of its start call.
AfterRead(state) ==
    CASE state \in {"none", "start_failed"} -> "recording"
      [] state \in Outcome -> "preserving"
      [] OTHER -> "starting"

\* The first submission of a job, or the replay of one, reads the row without a
\* lock.  A client submits again while it has not heard that the job is accepted.
SubmitReads(j) ==
    /\ api[j].submits < IF j \in Troubled THEN MaxSubmits ELSE 1
    /\ api[j].call = "idle"
    /\ api' = [api EXCEPT ![j].submits = @ + 1, ![j].call = AfterRead(rec[j])]
    /\ UNCHANGED <<rec, canceler, wf, op, box, lock, late, faults>>

\* The session commits QUEUED and no terminal outcome, whatever the row holds by
\* now.
SubmitCommits(j) ==
    /\ api[j].call = "recording"
    /\ rec' = [rec EXCEPT ![j] = "queued"]
    /\ api' = [api EXCEPT ![j].call = "starting"]
    /\ UNCHANGED <<canceler, wf, op, box, lock, late, faults>>

\* What the server does with a start request: one execution per job, ever.
Started(w) == [w EXCEPT !.pc = IF @ = "none" THEN "scheduled" ELSE @]

Starting(j) == api[j].call \in {"starting", "preserving"}

\* The job is accepted, and the client hears of it or the answer is lost.
StartReturns(j) ==
    /\ Starting(j)
    /\ wf' = [wf EXCEPT ![j] = Started(@)]
    /\ \/ /\ api' = [api EXCEPT ![j].call = "accepted"]
          /\ UNCHANGED faults
       \/ /\ Fault(j)
          /\ api' = [api EXCEPT ![j].call = "idle"]
    /\ UNCHANGED <<rec, canceler, op, box, lock, late>>

\* The call raises, whether or not the request reached the server: the row
\* becomes FAILED unless this replay had found it terminal.
StartRaises(j) ==
    /\ Starting(j)
    /\ Fault(j)
    /\ rec' = [rec EXCEPT ![j] = IF api[j].call = "preserving"
                                 THEN @ ELSE "start_failed"]
    /\ \/ wf' = [wf EXCEPT ![j] = Started(@)]
       \/ wf' = wf
    /\ api' = [api EXCEPT ![j].call = "idle"]
    /\ UNCHANGED <<canceler, op, box, lock, late>>

\* The API process dies, or its database fails, before the commit or between it and
\* the start call.
ServiceDies(j) ==
    /\ Starting(j) \/ api[j].call = "recording"
    /\ Fault(j)
    /\ api' = [api EXCEPT ![j].call = "idle"]
    /\ UNCHANGED <<rec, canceler, wf, op, box, lock, late>>

\* A cancel request reads the row; it goes on only if the row is not terminal.
CancelReads(j) ==
    /\ j \in Troubled
    /\ canceler[j] = "idle"
    /\ rec[j] \in {"queued", "active"}
    /\ canceler' = [canceler EXCEPT ![j] = "read"]
    /\ UNCHANGED <<rec, api, wf, op, box, lock, late, faults>>

\* The workflow's own state is terminal from the last projection on.
IsTerminal(w) == w.pc \in {"project", "repair", "done"}

\* It writes CANCELING and signals the workflow; without a running execution
\* the signal raises and the write is rolled back.  The signal handler
\* ignores a workflow whose state is terminal.
CancelCommits(j) ==
    /\ canceler[j] = "read"
    /\ canceler' = [canceler EXCEPT ![j] = "over"]
    /\ IF wf[j].pc \in {"none", "done"}
       THEN UNCHANGED <<rec, wf>>
       ELSE /\ rec' = [rec EXCEPT ![j] = "active"]
            /\ wf' = [wf EXCEPT ![j].cancel = @ \/ ~IsTerminal(wf[j])]
    /\ UNCHANGED <<api, op, box, lock, late, faults>>

-----------------------------------------------------------------------------
(* Steps of the workflow.                                                  *)

\* _project(state) and then w: the row is written; or every attempt fails and
\* the workflow remembers to repair; or a timed-out attempt is still under way
\* when its retry has written the row.
Project(j, s, w) ==
    \/ /\ rec' = [rec EXCEPT ![j] = s]
       /\ wf' = [wf EXCEPT ![j] = w]
       /\ UNCHANGED <<late, faults>>
    \/ /\ Fault(j)
       /\ wf' = [wf EXCEPT ![j] = [w EXCEPT !.repair = TRUE]]
       /\ UNCHANGED <<rec, late>>
    \/ /\ s = "active"
       /\ Fault(j)
       /\ rec' = [rec EXCEPT ![j] = s]
       /\ late' = [late EXCEPT ![j] = TRUE]
       /\ wf' = [wf EXCEPT ![j] = w]

\* The late attempt commits.  The row keeps no projection sequence, so
\* whatever it holds is overwritten.
LateProjection(j) ==
    /\ late[j]
    /\ late' = [late EXCEPT ![j] = FALSE]
    /\ rec' = [rec EXCEPT ![j] = "active"]
    /\ UNCHANGED <<api, canceler, wf, op, box, lock, faults>>

\* The lifecycle is over with terminal state t.
Ends(j, t) ==
    /\ wf' = [wf EXCEPT ![j].terminal = t, ![j].pc = "ended"]
    /\ UNCHANGED <<rec, late, faults>>

\* The next await of the lifecycle, unless a cancellation has been signalled.
Proceed(j, next) ==
    IF wf[j].cancel
    THEN Ends(j, "canceled")
    ELSE Project(j, "active", [wf[j] EXCEPT !.pc = next])

Begin(j) ==
    /\ wf[j].pc = "scheduled"
    /\ Proceed(j, "resolve")
    /\ UNCHANGED <<api, canceler, op, box, lock>>

ResolveWorkspace(j) ==
    /\ wf[j].pc = "resolve"
    /\ Proceed(j, "acquire")
    /\ UNCHANGED <<api, canceler, op, box, lock>>

\* The block that launches the container does not look at the flag again until
\* the container runs.  It reconciles, finds nothing and creates the container;
\* no projection comes before that.
AcquireImage(j) ==
    /\ wf[j].pc = "acquire"
    /\ IF wf[j].cancel
       THEN /\ Ends(j, "canceled")
            /\ op' = op
       ELSE /\ wf' = [wf EXCEPT ![j].pc = "create"]
            /\ op' = [op EXCEPT ![j] = "create"]
            /\ UNCHANGED <<rec, late, faults>>
    /\ UNCHANGED <<api, canceler, box, lock>>

Created(j) ==
    /\ wf[j].pc = "create"
    /\ op[j] = "ok"
    /\ Project(j, "active", [wf[j] EXCEPT !.ref = TRUE, !.pc = "start"])
    /\ op' = [op EXCEPT ![j] = "lock"]
    /\ UNCHANGED <<api, canceler, box, lock>>

\* Mutant: the start is tried like the best-effort calls of the end.
StartedBestEffort(j) ==
    /\ wf[j].pc = "start"
    /\ op[j] \in {"ok", "error"}
    /\ Proceed(j, "observe")
    /\ op' = [op EXCEPT ![j] = "idle"]
    /\ UNCHANGED <<api, canceler, box, lock>>

StartedContainer(j) ==
    /\ wf[j].pc = "start"
    /\ op[j] = "ok"
    /\ Proceed(j, "observe")
    /\ op' = [op EXCEPT ![j] = "idle"]
    /\ UNCHANGED <<api, canceler, box, lock>>

\* The create or start activity raised: nothing of the lifecycle follows.
LaunchFailed(j) ==
    /\ wf[j].pc \in {"create", "start"}
    /\ op[j] = "error"
    /\ Ends(j, "failed")
    /\ op' = [op EXCEPT ![j] = "idle"]
    /\ UNCHANGED <<api, canceler, box, lock>>

\* What `docker inspect` says of the container: one that was never started
\* reports exit code 0 too.  (An inspect of a missing container raises, which
\* fails the job as an exit with an error does.)
Observed(j) ==
    CASE box[j] = "running" -> "running"
      [] box[j] \in {"created", "exited0"} -> "succeeded"
      [] OTHER -> "failed"

\* Mutant: the loop polls a running container whatever the flag says.
ObserveToTheEnd(j) ==
    /\ wf[j].pc = "observe"
    /\ CASE Observed(j) = "running" -> Project(j, "active", wf[j])
         [] OTHER -> Ends(j, Observed(j))
    /\ UNCHANGED <<api, canceler, op, box, lock>>

\* One pass of the loop.  A cancellation signalled by the end of the pass
\* replaces the observed outcome; a container that still runs is observed
\* again after the interval, with a projection of RUNNING before.
ObserveContainer(j) ==
    /\ wf[j].pc = "observe"
    /\ IF wf[j].cancel
       THEN Ends(j, "canceled")
       ELSE \/ Observed(j) = "running" /\ Project(j, "active", wf[j])
            \/ Observed(j) # "running" /\ Ends(j, Observed(j))
    /\ UNCHANGED <<api, canceler, op, box, lock>>

\* An awaited activity fails for good, or a launch activity is no longer
\* awaited although it goes on.
ActivityFails(j) ==
    /\ wf[j].pc \in Lifecycle
    /\ op[j] \notin {"ok", "error"}
    /\ Fault(j)
    /\ wf' = [wf EXCEPT ![j].terminal = "failed", ![j].pc = "ended"]
    /\ UNCHANGED <<rec, api, canceler, op, box, lock, late>>

\* The deadline cancels what the lifecycle awaits.  asyncio.wait_for makes
\* that a timeout if the cancellation comes out of the lifecycle as such, and
\* the generic handler makes it a failure if the awaited activity turns it
\* into an activity error; during a projection the handler of _project takes
\* that error and the lifecycle goes on, with no deadline left.
Deadline(j) ==
    /\ wf[j].pc \in Lifecycle
    /\ ~wf[j].expired
    /\ \/ \E t \in {"timed_out"} \cup IF j \in Troubled THEN {"failed"} ELSE {} :
             wf' = [wf EXCEPT ![j].expired = TRUE, ![j].terminal = t,
                              ![j].pc = "ended"]
       \/ /\ j \in Troubled
          /\ wf[j].pc \in Projecting
          /\ wf' = [wf EXCEPT ![j].expired = TRUE, ![j].repair = TRUE]
    /\ op' = [op EXCEPT ![j] = IF @ \in {"ok", "error"} /\ wf'[j].pc = "ended"
                               THEN "idle" ELSE @]
    /\ UNCHANGED <<rec, api, canceler, box, lock, late, faults>>

\* Mutant: the terminal state is projected as soon as it is known.
ConcludeAtOnce(j) ==
    /\ wf[j].pc = "ended"
    /\ Project(j, wf[j].terminal,
         [wf[j] EXCEPT !.pc =
            IF wf[j].ref /\ wf[j].terminal \in {"canceled", "timed_out"}
            THEN "stop" ELSE "publish"])
    /\ UNCHANGED <<api, canceler, op, box, lock>>

\* A known container is stopped first after a cancellation or a timeout; the
\* evidence is published in any case.
Conclude(j) ==
    /\ wf[j].pc = "ended"
    /\ Project(j, "active",
         [wf[j] EXCEPT !.pc =
            IF wf[j].ref /\ wf[j].terminal \in {"canceled", "timed_out"}
            THEN "stop" ELSE "publish"])
    /\ UNCHANGED <<api, canceler, op, box, lock>>

\* stop_container, best effort.
StopContainer(j) ==
    /\ wf[j].pc = "stop"
    /\ box' = [box EXCEPT ![j] = IF @ = "running" THEN "exited1" ELSE @]
    /\ Project(j, "active", [wf[j] EXCEPT !.pc = "publish"])
    /\ UNCHANGED <<api, canceler, op, lock>>

\* publish_evidence, best effort: the way on is the same if it fails.
PublishEvidence(j) ==
    /\ wf[j].pc = "publish"
    /\ Project(j, "active", [wf[j] EXCEPT !.pc = "remove"])
    /\ UNCHANGED <<api, canceler, op, box, lock>>

\* Mutant: docker rm without --force, its error taken for a missing container.
RemoveStopped(j) ==
    /\ wf[j].pc = "remove"
    /\ box' = [box EXCEPT ![j] = IF @ = "running" THEN @ ELSE "none"]
    /\ wf' = [wf EXCEPT ![j].pc = "cleanup", ![j].removed = TRUE]
    /\ UNCHANGED <<rec, api, canceler, op, lock, late, faults>>

\* remove_container: by name, whether or not the workflow knows a container;
\* a missing one is a success.
RemoveContainer(j) ==
    /\ wf[j].pc = "remove"
    /\ box' = [box EXCEPT ![j] = "none"]
    /\ wf' = [wf EXCEPT ![j].pc = "cleanup", ![j].removed = TRUE]
    /\ UNCHANGED <<rec, api, canceler, op, lock, late, faults>>

\* cleanup: a bridge job checks that no container of its own is left.
Cleanup(j) ==
    /\ wf[j].pc = "cleanup"
    /\ wf' = [wf EXCEPT ![j].pc = "project",
                        ![j].cleaned = j \in Bridge => box[j] = "none"]
    /\ UNCHANGED <<rec, api, canceler, op, box, lock, late, faults>>

\* A best-effort activity fails, a removal before or after its effect: the
\* workflow goes to the next one.
BestEffortFails(j) ==
    /\ Fault(j)
    /\ \/ /\ wf[j].pc = "stop"
          /\ wf' = [wf EXCEPT ![j].pc = "publish"]
          /\ rec' = [rec EXCEPT ![j] = "active"]
          /\ box' = box
       \/ /\ wf[j].pc = "remove"
          /\ wf' = [wf EXCEPT ![j].pc = "cleanup"]
          /\ rec' = rec
          /\ box' \in {box, [box EXCEPT ![j] = "none"]}
       \/ /\ wf[j].pc = "cleanup"
          /\ wf' = [wf EXCEPT ![j].pc = "project"]
          /\ UNCHANGED <<rec, box>>
    /\ UNCHANGED <<api, canceler, op, lock, late>>

\* The last projection, of the terminal state.
ProjectTerminal(j) ==
    /\ wf[j].pc = "project"
    /\ Project(j, wf[j].terminal, [wf[j] EXCEPT !.pc = "repair"])
    /\ UNCHANGED <<api, canceler, op, box, lock>>

\* repair_projection writes the terminal state again if a projection failed.
Repair(j) ==
    /\ wf[j].pc = "repair"
    /\ wf' = [wf EXCEPT ![j].pc = "done"]
    /\ \/ /\ rec' = [rec EXCEPT ![j] = IF wf[j].repair
                                       THEN wf[j].terminal ELSE @]
          /\ UNCHANGED faults
       \/ /\ wf[j].repair
          /\ Fault(j)
          /\ UNCHANGED rec
    /\ UNCHANGED <<api, canceler, op, box, lock, late>>

-----------------------------------------------------------------------------
(* The docker activities and the container.                                *)

\* The workflow hears of a result only while it awaits it.
Result(j, r) == IF wf[j].pc \in {"create", "start"} THEN r ELSE "idle"

\* `docker create`; it fails, and a bridge job whose launch evidence cannot
\* be published removes the container again.
CreateContainer(j) ==
    /\ op[j] = "create"
    /\ \/ /\ box' = [box EXCEPT ![j] = "created"]
          /\ op' = [op EXCEPT ![j] = Result(j, "ok")]
          /\ UNCHANGED faults
       \/ /\ Fault(j)
          /\ op' = [op EXCEPT ![j] = Result(j, "error")]
          /\ UNCHANGED box
    /\ UNCHANGED <<rec, api, canceler, wf, lock, late>>

\* Mutant: the lock is taken without a look at its holder.
AcquireUnchecked(j) ==
    /\ op[j] = "lock"
    /\ lock' = lock \cup {j}
    /\ op' = [op EXCEPT ![j] = "admit"]
    /\ UNCHANGED <<rec, api, canceler, wf, box, late, faults>>

\* Mutant: every worker has a lock of its own.
AcquireOwnLock(j) ==
    /\ op[j] = "lock"
    /\ op' = [op EXCEPT ![j] = "admit"]
    /\ UNCHANGED <<rec, api, canceler, wf, box, lock, late, faults>>

AcquireCapacityLock(j) ==
    /\ op[j] = "lock"
    /\ lock = {}
    /\ lock' = {j}
    /\ op' = [op EXCEPT ![j] = "admit"]
    /\ UNCHANGED <<rec, api, canceler, wf, box, late, faults>>

\* The lock stays busy for as long as the activity waits.
LockBusy(j) ==
    /\ op[j] = "lock"
    /\ lock # {}
    /\ Fault(j)
    /\ op' = [op EXCEPT ![j] = Result(j, "error")]
    /\ UNCHANGED <<rec, api, canceler, wf, box, lock, late>>

Running == {j \in Jobs : box[j] = "running"}

MemoryOf(S) == MapThenSumSet(LAMBDA j : Mem[j], S)

\* _enforce_active_memory_budget: the other running containers and this one.
EnforceBudget(j) ==
    /\ op[j] = "admit"
    /\ IF MemoryOf(Running \ {j}) + Mem[j] <= Budget
       THEN /\ op' = [op EXCEPT ![j] = "admitted"]
            /\ lock' = lock
       ELSE /\ op' = [op EXCEPT ![j] = Result(j, "error")]
            /\ lock' = lock \ {j}
    /\ UNCHANGED <<rec, api, canceler, wf, box, late, faults>>

\* `docker start` of a container that is still there, and the lock is freed.
StartContainer(j) ==
    /\ op[j] = "admitted"
    /\ lock' = lock \ {j}
    /\ IF box[j] = "created"
       THEN /\ box' = [box EXCEPT ![j] = "running"]
            /\ op' = [op EXCEPT ![j] = IF j \in Bridge THEN "attest"
                                       ELSE Result(j, "ok")]
       ELSE /\ box' = box
            /\ op' = [op EXCEPT ![j] = Result(j, "error")]
    /\ UNCHANGED <<rec, api, canceler, wf, late, faults>>

\* A bridge job's egress is attested on the running container, or the
\* container is removed and the start fails.
Attest(j) ==
    /\ op[j] = "attest"
    /\ \/ /\ op' = [op EXCEPT ![j] = Result(j, "ok")]
          /\ UNCHANGED <<box, faults>>
       \/ /\ Fault(j)
          /\ box' = [box EXCEPT ![j] = "none"]
          /\ op' = [op EXCEPT ![j] = Result(j, "error")]
    /\ UNCHANGED <<rec, api, canceler, wf, lock, late>>

\* The worker dies: the activity is lost where it is, the operating system
\* frees the lock, and the workflow sees a failure (one attempt).
WorkerDies(j) ==
    /\ op[j] \notin {"idle", "ok", "error"}
    /\ Fault(j)
    /\ lock' = lock \ {j}
    /\ op' = [op EXCEPT ![j] = Result(j, "error")]
    /\ UNCHANGED <<rec, api, canceler, wf, box, late>>

\* The workload ends by itself.
WorkloadExits(j) ==
    /\ box[j] = "running"
    /\ \E e \in {"exited0", "exited1"} : box' = [box EXCEPT ![j] = e]
    /\ UNCHANGED <<rec, api, canceler, wf, op, lock, late, faults>>

-----------------------------------------------------------------------------

WorkflowStep(j) ==
    \/ Begin(j) \/ ResolveWorkspace(j) \/ AcquireImage(j)
    \/ Created(j) \/ StartedContainer(j)
    \/ LaunchFailed(j) \/ ObserveContainer(j)
    \/ Conclude(j) \/ StopContainer(j) \/ PublishEvidence(j) \/ RemoveContainer(j)
    \/ Cleanup(j) \/ ProjectTerminal(j) \/ Repair(j)

ActivityStep(j) ==
    \/ CreateContainer(j) \/ AcquireCapacityLock(j) \/ EnforceBudget(j)
    \/ StartContainer(j) \/ Attest(j)

Next ==
    \E j \in Jobs :
        \/ SubmitReads(j) \/ SubmitCommits(j)
        \/ StartReturns(j) \/ StartRaises(j) \/ ServiceDies(j)
        \/ CancelReads(j) \/ CancelCommits(j)
        \/ WorkflowStep(j) \/ ActivityFails(j) \/ BestEffortFails(j)
        \/ Deadline(j) \/ LateProjection(j)
        \/ ActivityStep(j) \/ LockBusy(j) \/ WorkerDies(j)
        \/ WorkloadExits(j)

Spec == Init /\ [][Next]_vars

\* Temporal drives every execution on, workers run the activities they have
\* taken, and the timer of the deadline fires.  Nothing is assumed of clients,
\* of faults, of late writes, or of workloads: one may run for ever.
Fairness ==
    \A j \in Jobs :
        /\ WF_vars(WorkflowStep(j))
        /\ WF_vars(ActivityStep(j))
        /\ WF_vars(Deadline(j))

FairSpec == Spec /\ Fairness

-----------------------------------------------------------------------------
(* Properties.                                                             *)

\* The running containers never hold more memory than the budget, although
\* every start decides on an inventory it read before (start_container,
\* _enforce_active_memory_budget), and starts outlive their workflows.
BudgetHolds == MemoryOf(Running) <= Budget

\* A job that reports its cleanup as successful has no running container, and
\* never gets one: not from a start that the workflow stopped waiting for.
CleanedUpJobDoesNotRun ==
    \A j \in Jobs :
        wf[j].pc \in {"project", "repair", "done"}
            /\ wf[j].removed /\ wf[j].cleaned
        => box[j] # "running"

\* A terminal state in the row is the outcome of the workflow, through failed
\* and late projections, repairs, replays and cancel requests; only a failure
\* to start says nothing of the workflow.
RecordedOutcomeIsTheJobs ==
    \A j \in Jobs :
        rec[j] \in Outcome =>
            rec[j] = wf[j].terminal /\ wf[j].pc \in {"repair", "done"}

\* The writes of the row that are under way although nobody will look at the row
\* again: a projection that timed out, a cancel request that has read the row, a
\* submission that has read an open row or a start failure.
PendingWrites(j) ==
    {w \in {"projection", "cancel", "submission"} :
        \/ w = "projection" /\ late[j]
        \/ w = "cancel" /\ canceler[j] = "read"
        \/ w = "submission" /\ api[j].call \in {"recording", "starting"}}

\* A terminal state on record is replaced only by a write that was decided before
\* it was made and is still under way: while the row is terminal no new such write
\* begins (no replay, no cancel request, no projection and no repair that reads the
\* row terminal becomes one), and without one the row stays as it is (submit, cancel
\* and the projection writer commit without a lock or a further test).
OnlyStaleWritersReopen ==
    [][\A j \in Jobs :
          rec[j] \in Outcome =>
             /\ PendingWrites(j)' \subseteq PendingWrites(j)
             /\ rec'[j] # rec[j] => PendingWrites(j) # {}]_vars

\* A job is declared succeeded only on an observation of a workload that ran
\* and exited with 0, and canceled only if somebody asked for it.
DeclaredOutcomeIsReal ==
    [][\A j \in Jobs :
          wf'[j].terminal # wf[j].terminal =>
             /\ wf'[j].terminal = "succeeded" => box[j] = "exited0"
             /\ wf'[j].terminal = "canceled" => wf[j].cancel]_vars

\* The deadline was spent inside a projection, nobody cancels the job and its
\* workload goes on.
OutlivesDeadline(j) ==
    /\ wf[j].pc = "observe"
    /\ wf[j].expired
    /\ ~wf[j].cancel
    /\ box[j] = "running"

\* A job that has started ends: by its workload's exit, its deadline, a failure
\* or a cancellation.  Only a workload that runs for ever keeps it going, if
\* the deadline was swallowed and no cancellation reaches the workflow.
StartedJobEnds ==
    \A j \in Jobs :
        []<>(wf[j].pc \in {"none", "done"} \/ OutlivesDeadline(j))
=============================================================================
