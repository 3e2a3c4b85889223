------------------------ MODULE ContainerJobProofs ------------------------
(***************************************************************************)
(* Proofs about ContainerJob, for any set of jobs, any memory requirements *)
(* and budget, and any bounds on submissions and faults.                   *)
(***************************************************************************)
EXTENDS ContainerJob, FiniteSetTheorems, TLAPS

Workflow ==
    [pc : {"none", "scheduled", "repair", "done"} \cup Lifecycle \cup Finalisation,
     cancel : BOOLEAN,
     ref : BOOLEAN,
     terminal : Outcome \cup {"none"},
     expired : BOOLEAN,
     repair : BOOLEAN,
     removed : BOOLEAN,
     cleaned : BOOLEAN]

Activity == {"idle", "create", "lock", "admit", "admitted", "attest", "ok", "error"}

Box == {"none", "created", "running", "exited0", "exited1"}

\* The three parts of the type invariant, by who changes them.
RecordAndWorkflow ==
    /\ rec \in [Jobs -> RecordState]
    /\ wf \in [Jobs -> Workflow]
    /\ late \in [Jobs -> BOOLEAN]
    /\ faults \in 0..MaxFaults

Launch ==
    /\ op \in [Jobs -> Activity]
    /\ box \in [Jobs -> Box]
    /\ lock \in SUBSET Jobs
    /\ Cardinality(lock) <= 1

Clients ==
    /\ api \in [Jobs -> [submits : Nat,
                         call : {"idle", "recording", "starting", "preserving",
                                 "accepted"}]]
    /\ canceler \in [Jobs -> {"idle", "read", "over"}]

Types == RecordAndWorkflow /\ Launch /\ Clients

\* They are the type invariant, before and after a step.
LEMMA TypeParts == (TypeOK <=> Types) /\ (TypeOK' <=> Types')
BY DEF TypeOK, Types, RecordAndWorkflow, Launch, Clients, Workflow, Activity, Box

\* A fault is counted within its bound.
LEMMA FaultCounts ==
    ASSUME NEW j \in Jobs, faults \in 0..MaxFaults, Fault(j)
    PROVE  faults' \in 0..MaxFaults
BY JobAssumption DEF Fault

\* What _project leaves behind is well typed when it is given a state of the
\* record and a workflow.
LEMMA ProjectType ==
    ASSUME RecordAndWorkflow, NEW j \in Jobs, NEW s \in RecordState,
           NEW w \in Workflow, Project(j, s, w)
    PROVE  RecordAndWorkflow'
<1>1. [w EXCEPT !.repair = TRUE] \in Workflow
  BY DEF Workflow
<1>2. "active" \in RecordState
  BY DEF RecordState
<1>3. CASE /\ rec' = [rec EXCEPT ![j] = s]
           /\ wf' = [wf EXCEPT ![j] = w]
           /\ UNCHANGED <<late, faults>>
  BY <1>3 DEF RecordAndWorkflow
<1>4. CASE /\ Fault(j)
           /\ wf' = [wf EXCEPT ![j] = [w EXCEPT !.repair = TRUE]]
           /\ UNCHANGED <<rec, late>>
  BY <1>1, <1>4, FaultCounts DEF RecordAndWorkflow
<1>5. CASE /\ Fault(j)
           /\ rec' = [rec EXCEPT ![j] = s]
           /\ late' = [late EXCEPT ![j] = TRUE]
           /\ wf' = [wf EXCEPT ![j] = w]
  BY <1>5, FaultCounts DEF RecordAndWorkflow
<1> QED
  BY <1>3, <1>4, <1>5 DEF Project

\* A workflow at another await, or with another outcome, is a workflow.
LEMMA WorkflowFields ==
    ASSUME NEW w \in Workflow, 
           NEW p \in {"none", "scheduled", "repair", "done"}
                       \cup Lifecycle \cup Finalisation,
           NEW t \in Outcome
    PROVE  /\ [w EXCEPT !.pc = p] \in Workflow
           /\ [w EXCEPT !.ref = TRUE, !.pc = p] \in Workflow
           /\ [w EXCEPT !.terminal = t, !.pc = p] \in Workflow
BY DEF Workflow

\* The end of the lifecycle keeps the types.
LEMMA EndsType ==
    ASSUME RecordAndWorkflow, NEW j \in Jobs, NEW t \in Outcome, Ends(j, t)
    PROVE  RecordAndWorkflow'
<1>1. [wf[j] EXCEPT !.terminal = t, !.pc = "ended"] \in Workflow
  BY WorkflowFields DEF RecordAndWorkflow, Finalisation
<1>2. wf' = [wf EXCEPT ![j] = [wf[j] EXCEPT !.terminal = t, !.pc = "ended"]]
  BY DEF Ends, RecordAndWorkflow, Workflow
<1> QED
  BY <1>1, <1>2 DEF Ends, RecordAndWorkflow

\* So does going on to the next await.
LEMMA ProceedType ==
    ASSUME RecordAndWorkflow, NEW j \in Jobs, NEW p \in Lifecycle, Proceed(j, p)
    PROVE  RecordAndWorkflow'
<1>1. CASE Ends(j, "canceled")
  BY <1>1, EndsType DEF Outcome
<1>2. CASE Project(j, "active", [wf[j] EXCEPT !.pc = p])
  <2>1. wf[j] \in Workflow
    BY DEF RecordAndWorkflow
  <2>2. [wf[j] EXCEPT !.pc = p] \in Workflow
    BY <2>1 DEF Workflow
  <2> QED
    BY <1>2, <2>2, ProjectType DEF RecordState
<1> QED
  BY <1>1, <1>2 DEF Proceed

\* The initial state is well typed.
LEMMA TypeInitially == Init => Types
<1> SUFFICES ASSUME Init PROVE Types
  OBVIOUS
<1>1. Cardinality({}) = 0
  BY FS_EmptySet
<1>2. RecordAndWorkflow
  BY JobAssumption
     DEF Init, RecordAndWorkflow, RecordState, Workflow, Outcome
<1>3. Launch
  BY <1>1 DEF Init, Launch, Activity, Box
<1>4. Clients
  BY DEF Init, Clients
<1> QED
  BY <1>2, <1>3, <1>4 DEF Types

\* The API service keeps the types.
LEMMA ServiceType ==
    ASSUME Types, NEW j \in Jobs,
           \/ SubmitReads(j) \/ SubmitCommits(j)
           \/ StartReturns(j) \/ StartRaises(j) \/ ServiceDies(j)
           \/ CancelReads(j) \/ CancelCommits(j) \/ LateProjection(j)
    PROVE  Types'
<1> USE DEF Types
<1>0. /\ RecordAndWorkflow /\ Launch /\ Clients
      /\ wf[j] \in Workflow
  BY DEF RecordAndWorkflow
<1>s. Started(wf[j]) \in Workflow
  BY <1>0 DEF Started, Workflow
<1>l. UNCHANGED <<op, box, lock>> => Launch'
  BY <1>0 DEF Launch
<1>1. CASE SubmitReads(j) \/ SubmitCommits(j)
  <2>1. AfterRead(rec[j]) \in {"recording", "starting", "preserving"}
    BY DEF AfterRead
  <2> QED
    BY <1>0, <1>1, <1>l, <2>1
       DEF SubmitReads, SubmitCommits, RecordAndWorkflow, Clients, RecordState
<1>2. CASE StartReturns(j)
  <2>1. faults' \in 0..MaxFaults
    BY <1>0, <1>2, FaultCounts DEF StartReturns, RecordAndWorkflow
  <2> QED
    BY <1>0, <1>s, <1>2, <1>l, <2>1
       DEF StartReturns, RecordAndWorkflow, Clients
<1>3. CASE StartRaises(j)
  <2>1. faults' \in 0..MaxFaults
    BY <1>0, <1>3, FaultCounts DEF StartRaises, RecordAndWorkflow
  <2> QED
    BY <1>0, <1>s, <1>3, <1>l, <2>1
       DEF StartRaises, RecordAndWorkflow, Clients, RecordState
<1>4. CASE ServiceDies(j)
  <2>1. faults' \in 0..MaxFaults
    BY <1>0, <1>4, FaultCounts DEF ServiceDies, RecordAndWorkflow
  <2> QED
    BY <1>0, <1>4, <1>l, <2>1 DEF ServiceDies, RecordAndWorkflow, Clients
<1>5. CASE CancelReads(j)
  BY <1>0, <1>5, <1>l DEF CancelReads, RecordAndWorkflow, Clients
<1>6. CASE CancelCommits(j)
  <2>1. [wf[j] EXCEPT !.cancel = @ \/ ~IsTerminal(wf[j])] \in Workflow
    BY <1>0 DEF Workflow, IsTerminal
  <2>2. [wf EXCEPT ![j].cancel = @ \/ ~IsTerminal(wf[j])] =
        [wf EXCEPT ![j] = [wf[j] EXCEPT !.cancel = @ \/ ~IsTerminal(wf[j])]]
    BY <1>0 DEF RecordAndWorkflow, Workflow
  <2>3. RecordAndWorkflow'
    BY <1>0, <1>6, <2>1, <2>2 DEF CancelCommits, RecordAndWorkflow, RecordState
  <2> QED
    BY <1>0, <1>6, <1>l, <2>3 DEF CancelCommits, Clients
<1>7. CASE LateProjection(j)
  BY <1>0, <1>7, <1>l DEF LateProjection, RecordAndWorkflow, Clients, RecordState
<1> QED
  BY <1>1, <1>2, <1>3, <1>4, <1>5, <1>6, <1>7

\* The steps of the workflow that only project or end keep the types.
LEMMA LifecycleType ==
    ASSUME Types, NEW j \in Jobs,
           \/ Begin(j) \/ ResolveWorkspace(j) \/ AcquireImage(j)
           \/ Created(j) \/ StartedContainer(j) \/ LaunchFailed(j)
           \/ ObserveContainer(j) \/ ActivityFails(j) \/ Deadline(j)
    PROVE  Types'
<1> USE DEF Types
<1>0. wf[j] \in Workflow
  BY DEF RecordAndWorkflow
<1>p. ASSUME NEW p \in Lifecycle
      PROVE  [wf EXCEPT ![j].pc = p] \in [Jobs -> Workflow]
  BY <1>0 DEF RecordAndWorkflow, Workflow
<1>e. ASSUME NEW t \in Outcome
      PROVE  [wf EXCEPT ![j].terminal = t, ![j].pc = "ended"] \in [Jobs -> Workflow]
  BY <1>0 DEF RecordAndWorkflow, Workflow, Finalisation
<1>1. CASE Begin(j)
  BY <1>1, ProceedType DEF Begin, Lifecycle, Launch, Clients
<1>2. CASE ResolveWorkspace(j)
  BY <1>2, ProceedType DEF ResolveWorkspace, Lifecycle, Launch, Clients
<1>3. CASE AcquireImage(j)
  <2>1. CASE wf[j].cancel
    BY <1>3, <2>1, EndsType DEF AcquireImage, Outcome, Launch, Clients
  <2>2. CASE ~wf[j].cancel
    <3>1. [wf EXCEPT ![j].pc = "create"] \in [Jobs -> Workflow]
      BY <1>p DEF Lifecycle
    <3> QED
      BY <1>3, <2>2, <3>1
         DEF AcquireImage, RecordAndWorkflow, Launch, Clients, Activity
  <2> QED
    BY <2>1, <2>2
<1>4. CASE Created(j)
  <2>1. [wf[j] EXCEPT !.ref = TRUE, !.pc = "start"] \in Workflow
    BY <1>0 DEF Workflow, Lifecycle
  <2>2. RecordAndWorkflow'
    BY <1>4, <2>1, ProjectType DEF Created, RecordState
  <2> QED
    BY <1>4, <2>2 DEF Created, Launch, Clients, Activity
<1>5. CASE StartedContainer(j)
  <2>1. RecordAndWorkflow'
    BY <1>5, ProceedType DEF StartedContainer, Lifecycle
  <2> QED
    BY <1>5, <2>1 DEF StartedContainer, Launch, Clients, Activity
<1>6. CASE LaunchFailed(j)
  <2>1. RecordAndWorkflow'
    BY <1>6, EndsType DEF LaunchFailed, Outcome
  <2> QED
    BY <1>6, <2>1 DEF LaunchFailed, Launch, Clients, Activity
<1>7. CASE ObserveContainer(j)
  <2>1. CASE Project(j, "active", wf[j])
    BY <1>0, <1>7, <2>1, ProjectType
       DEF ObserveContainer, RecordState, Launch, Clients
  <2>2. CASE \E t \in Outcome : Ends(j, t)
    BY <1>7, <2>2, EndsType DEF ObserveContainer, Launch, Clients
  <2>3. Project(j, "active", wf[j]) \/ \E t \in Outcome : Ends(j, t)
    BY <1>7 DEF ObserveContainer, Observed, Outcome
  <2> QED
    BY <2>1, <2>2, <2>3
<1>8. CASE ActivityFails(j)
  <2>1. faults' \in 0..MaxFaults
    BY <1>8, FaultCounts DEF ActivityFails, RecordAndWorkflow
  <2>2. wf' \in [Jobs -> Workflow]
    BY <1>e, <1>8 DEF ActivityFails, Outcome
  <2> QED
    BY <1>8, <2>1, <2>2 DEF ActivityFails, RecordAndWorkflow, Launch, Clients
<1>9. CASE Deadline(j)
  <2>1. ASSUME NEW t \in Outcome
        PROVE  [wf EXCEPT ![j].expired = TRUE, ![j].terminal = t,
                          ![j].pc = "ended"] \in [Jobs -> Workflow]
    BY <1>0 DEF RecordAndWorkflow, Workflow, Finalisation
  <2>2. [wf EXCEPT ![j].expired = TRUE, ![j].repair = TRUE] \in [Jobs -> Workflow]
    BY <1>0 DEF RecordAndWorkflow, Workflow
  <2>3. wf' \in [Jobs -> Workflow]
    BY <1>9, <2>1, <2>2 DEF Deadline, Outcome
  <2> QED
    BY <1>9, <2>3 DEF Deadline, RecordAndWorkflow, Launch, Clients, Activity
<1> QED
  BY <1>1, <1>2, <1>3, <1>4, <1>5, <1>6, <1>7, <1>8, <1>9

\* So do the steps that follow the end of the lifecycle.
LEMMA FinalisationType ==
    ASSUME Types, NEW j \in Jobs,
           \/ Conclude(j) \/ StopContainer(j) \/ PublishEvidence(j)
           \/ RemoveContainer(j) \/ Cleanup(j) \/ BestEffortFails(j)
           \/ ProjectTerminal(j) \/ Repair(j)
    PROVE  Types'
<1> USE DEF Types
<1>0. wf[j] \in Workflow
  BY DEF RecordAndWorkflow
<1>p. ASSUME NEW p \in Finalisation \cup {"repair", "done"}
      PROVE  /\ [wf[j] EXCEPT !.pc = p] \in Workflow
             /\ [wf EXCEPT ![j].pc = p] \in [Jobs -> Workflow]
  BY <1>0 DEF RecordAndWorkflow, Workflow
<1>a. ASSUME NEW p \in Finalisation \cup {"repair", "done"},
             Project(j, "active", [wf[j] EXCEPT !.pc = p])
      PROVE  RecordAndWorkflow'
  BY <1>p, <1>a, ProjectType DEF RecordState
<1>b. ASSUME NEW b \in Box, box' = [box EXCEPT ![j] = b], UNCHANGED <<op, lock>>
      PROVE  Launch'
  BY <1>b DEF Launch
<1>1. CASE Conclude(j)
  <2>1. RecordAndWorkflow'
    BY <1>1, <1>a DEF Conclude, Finalisation
  <2> QED
    BY <1>1, <2>1 DEF Conclude, Launch, Clients
<1>2. CASE StopContainer(j)
  <2>1. RecordAndWorkflow'
    BY <1>2, <1>a DEF StopContainer, Finalisation
  <2> QED
    BY <1>2, <2>1 DEF StopContainer, Launch, Clients, Box
<1>3. CASE PublishEvidence(j)
  <2>1. RecordAndWorkflow'
    BY <1>3, <1>a DEF PublishEvidence, Finalisation
  <2> QED
    BY <1>3, <2>1 DEF PublishEvidence, Launch, Clients
<1>4. CASE RemoveContainer(j)
  <2>1. [wf EXCEPT ![j].pc = "cleanup", ![j].removed = TRUE] \in [Jobs -> Workflow]
    BY <1>0 DEF RecordAndWorkflow, Workflow, Finalisation
  <2>2. RecordAndWorkflow'
    BY <1>4, <2>1 DEF RemoveContainer, RecordAndWorkflow
  <2> QED
    BY <1>4, <2>2 DEF RemoveContainer, Launch, Clients, Box
<1>5. CASE Cleanup(j)
  <2>1. wf' \in [Jobs -> Workflow]
    BY <1>0, <1>5 DEF Cleanup, RecordAndWorkflow, Workflow, Finalisation
  <2> QED
    BY <1>5, <2>1 DEF Cleanup, RecordAndWorkflow, Launch, Clients
<1>6. CASE BestEffortFails(j)
  <2>1. faults' \in 0..MaxFaults
    BY <1>6, FaultCounts DEF BestEffortFails, RecordAndWorkflow
  <2>2. wf' \in [Jobs -> Workflow]
    BY <1>p, <1>6 DEF BestEffortFails, Finalisation
  <2>3. rec' \in [Jobs -> RecordState]
    BY <1>6 DEF BestEffortFails, RecordAndWorkflow, RecordState
  <2>4. box' \in [Jobs -> Box]
    BY <1>6 DEF BestEffortFails, Launch, Box
  <2> QED
    BY <1>6, <2>1, <2>2, <2>3, <2>4
       DEF BestEffortFails, RecordAndWorkflow, Launch, Clients
<1>7. CASE ProjectTerminal(j)
  <2>1. wf[j].terminal \in RecordState
    BY <1>0 DEF Workflow, RecordState
  <2>2. [wf[j] EXCEPT !.pc = "repair"] \in Workflow
    BY <1>p
  <2>3. RecordAndWorkflow'
    BY <1>7, <2>1, <2>2, ProjectType DEF ProjectTerminal
  <2> QED
    BY <1>7, <2>3 DEF ProjectTerminal, Launch, Clients
<1>8. CASE Repair(j)
  <2>1. faults' \in 0..MaxFaults
    BY <1>8, FaultCounts DEF Repair, RecordAndWorkflow
  <2>2. wf' \in [Jobs -> Workflow]
    BY <1>p, <1>8 DEF Repair
  <2>3. wf[j].terminal \in RecordState
    BY <1>0 DEF Workflow, RecordState
  <2>4. rec' \in [Jobs -> RecordState]
    BY <1>8, <2>3 DEF Repair, RecordAndWorkflow
  <2> QED
    BY <1>8, <2>1, <2>2, <2>4 DEF Repair, RecordAndWorkflow, Launch, Clients
<1> QED
  BY <1>1, <1>2, <1>3, <1>4, <1>5, <1>6, <1>7, <1>8

\* A lock that loses a holder, or is taken when it is free, has one holder.
LEMMA LockType ==
    ASSUME lock \in SUBSET Jobs, Cardinality(lock) <= 1, NEW j \in Jobs,
           lock' = lock \/ lock' = lock \ {j} \/ lock' = {j}
    PROVE  lock' \in SUBSET Jobs /\ Cardinality(lock') <= 1
<1>1. IsFiniteSet(lock)
  BY JobAssumption, FS_Subset
<1>2. Cardinality(lock \ {j}) <= Cardinality(lock)
  BY <1>1, FS_Subset
<1>3. Cardinality(lock) \in Nat /\ Cardinality(lock \ {j}) \in Nat
  BY <1>1, FS_CardinalityType, FS_Subset
<1>4. Cardinality({j}) = 1
  BY FS_Singleton
<1> QED
  BY <1>2, <1>3, <1>4

\* The docker activities keep the types.
LEMMA ActivityType ==
    ASSUME Types, NEW j \in Jobs,
           \/ ActivityStep(j) \/ LockBusy(j) \/ WorkerDies(j) \/ WorkloadExits(j)
    PROVE  Types'
<1> USE DEF Types
<1>r. \A r \in Activity : Result(j, r) \in Activity
  BY DEF Result, Activity
<1>1. UNCHANGED <<rec, api, canceler, wf, late>>
  BY DEF ActivityStep, CreateContainer, AcquireCapacityLock, EnforceBudget,
         StartContainer, Attest, LockBusy, WorkerDies, WorkloadExits
<1>2. faults' \in 0..MaxFaults
  BY FaultCounts
     DEF ActivityStep, CreateContainer, AcquireCapacityLock, EnforceBudget,
         StartContainer, Attest, LockBusy, WorkerDies, WorkloadExits,
         RecordAndWorkflow
<1>3. lock' = lock \/ lock' = lock \ {j} \/ lock' = {j}
  BY DEF ActivityStep, CreateContainer, AcquireCapacityLock, EnforceBudget,
         StartContainer, Attest, LockBusy, WorkerDies, WorkloadExits
<1>4. lock' \in SUBSET Jobs /\ Cardinality(lock') <= 1
  BY <1>3, LockType DEF Launch
<1>5. \E b \in Box : box' = box \/ box' = [box EXCEPT ![j] = b]
  BY DEF ActivityStep, CreateContainer, AcquireCapacityLock, EnforceBudget,
         StartContainer, Attest, LockBusy, WorkerDies, WorkloadExits, Box
<1>6. \E a \in Activity : op' = op \/ op' = [op EXCEPT ![j] = a]
  BY <1>r
     DEF ActivityStep, CreateContainer, AcquireCapacityLock, EnforceBudget,
         StartContainer, Attest, LockBusy, WorkerDies, WorkloadExits, Activity
<1> QED
  BY <1>1, <1>2, <1>4, <1>5, <1>6 DEF RecordAndWorkflow, Launch, Clients

\* Every step keeps the types.
LEMMA TypesPreserved == Types /\ [Next]_vars => Types'
<1> SUFFICES ASSUME Types, [Next]_vars PROVE Types'
  OBVIOUS
<1>1. CASE UNCHANGED vars
  BY <1>1 DEF vars, Types, RecordAndWorkflow, Launch, Clients
<1>2. CASE Next
  <2>1. PICK j \in Jobs :
           \/ SubmitReads(j) \/ SubmitCommits(j)
           \/ StartReturns(j) \/ StartRaises(j) \/ ServiceDies(j)
           \/ CancelReads(j) \/ CancelCommits(j)
           \/ WorkflowStep(j) \/ ActivityFails(j) \/ BestEffortFails(j)
           \/ Deadline(j) \/ LateProjection(j)
           \/ ActivityStep(j) \/ LockBusy(j) \/ WorkerDies(j)
           \/ WorkloadExits(j)
    BY <1>2 DEF Next
  <2> QED
    BY <2>1, ServiceType, LifecycleType, FinalisationType, ActivityType
       DEF WorkflowStep
<1> QED
  BY <1>1, <1>2

\* Records, workflows, activities, containers and the lock have their types,
\* and the capacity lock has at most one holder, in every reachable state.
THEOREM TypeCorrect == Spec => []TypeOK
<1>1. Init => Types
  BY TypeInitially
<1>2. Types /\ [Next]_vars => Types'
  BY TypesPreserved
<1>3. Types => TypeOK
  BY TypeParts
<1> QED
  BY <1>1, <1>2, <1>3, PTL DEF Spec

-----------------------------------------------------------------------------
(***************************************************************************)
(* The invariant of one job.  The three properties are not inductive: an   *)
(* outcome is real because a container is observed only after its start,   *)
(* and a removed container stays away because the one activity of the job  *)
(* that can still be under way is either too late to start it or creates a *)
(* container that nobody starts.                                           *)
(***************************************************************************)

\* A terminal record is the workflow's outcome.
Recorded(j) ==
    rec[j] \in Outcome =>
        rec[j] = wf[j].terminal /\ wf[j].pc \in {"repair", "done"}

\* A start is awaited only after its create, an observation only after a start
\* that took the container out of "created".
StartedBeforeObserved(j) ==
    /\ wf[j].pc = "start" => op[j] # "create"
    /\ wf[j].pc = "start" /\ op[j] \in {"attest", "ok"} => box[j] # "created"
    /\ wf[j].pc = "observe" => op[j] = "idle" /\ box[j] # "created"

\* After the removal there is no container, or one that a late create made and
\* no activity is left to start.
RemovedStaysAway(j) ==
    wf[j].removed =>
        /\ wf[j].pc \in {"cleanup", "project", "repair", "done"}
        /\ box[j] = "none" \/ (box[j] = "created" /\ op[j] = "idle")

JobInv(j) == Recorded(j) /\ StartedBeforeObserved(j) /\ RemovedStaysAway(j)

Inv == Types /\ \A j \in Jobs : JobInv(j)

\* What DeclaredOutcomeIsReal says of the steps of one job.
Declared(j) ==
    wf'[j].terminal # wf[j].terminal =>
        /\ wf'[j].terminal = "succeeded" => box[j] = "exited0"
        /\ wf'[j].terminal = "canceled" => wf[j].cancel

\* A step leaves job k alone.
Untouched(k) ==
    rec'[k] = rec[k] /\ wf'[k] = wf[k] /\ op'[k] = op[k] /\ box'[k] = box[k]

\* A job that a step leaves alone keeps its invariant and declares nothing.
LEMMA UntouchedKeeps ==
    ASSUME NEW k, JobInv(k), Untouched(k)
    PROVE  JobInv(k)' /\ Declared(k)
BY DEF JobInv, Recorded, StartedBeforeObserved, RemovedStaysAway, Untouched, Declared

\* A projection changes the record to s or not at all, and the workflow to w
\* but for its repair flag.
LEMMA ProjectEffect ==
    ASSUME RecordAndWorkflow, NEW j \in Jobs, NEW s, NEW w \in Workflow,
           Project(j, s, w)
    PROVE  /\ \A k \in Jobs \ {j} : rec'[k] = rec[k] /\ wf'[k] = wf[k]
           /\ rec'[j] \in {rec[j], s}
           /\ wf'[j].pc = w.pc
           /\ wf'[j].terminal = w.terminal
           /\ wf'[j].removed = w.removed
<1>1. wf' = [wf EXCEPT ![j] = w] \/ wf' = [wf EXCEPT ![j] = [w EXCEPT !.repair = TRUE]]
  BY DEF Project
<1>2. rec' = rec \/ rec' = [rec EXCEPT ![j] = s]
  BY DEF Project
<1>3. /\ [w EXCEPT !.repair = TRUE].pc = w.pc
      /\ [w EXCEPT !.repair = TRUE].terminal = w.terminal
      /\ [w EXCEPT !.repair = TRUE].removed = w.removed
  BY DEF Workflow
<1> QED
  BY <1>1, <1>2, <1>3 DEF RecordAndWorkflow

\* The end of the lifecycle changes the outcome and the await.
LEMMA EndsEffect ==
    ASSUME RecordAndWorkflow, NEW j \in Jobs, NEW t, Ends(j, t)
    PROVE  /\ \A k \in Jobs \ {j} : rec'[k] = rec[k] /\ wf'[k] = wf[k]
           /\ rec'[j] = rec[j]
           /\ wf'[j].pc = "ended"
           /\ wf'[j].terminal = t
           /\ wf'[j].removed = wf[j].removed
BY DEF RecordAndWorkflow, Workflow, Ends

\* The lifecycle goes on to the next await, or ends because it is canceled.
LEMMA ProceedEffect ==
    ASSUME RecordAndWorkflow, NEW j \in Jobs, NEW p \in Lifecycle, Proceed(j, p)
    PROVE  /\ \A k \in Jobs \ {j} : rec'[k] = rec[k] /\ wf'[k] = wf[k]
           /\ rec'[j] \in {rec[j], "active"}
           /\ \/ wf'[j].pc = p /\ wf'[j].terminal = wf[j].terminal
              \/ wf'[j].pc = "ended" /\ wf'[j].terminal = "canceled" /\ wf[j].cancel
           /\ wf'[j].removed = wf[j].removed
<1>0. wf[j] \in Workflow
  BY DEF RecordAndWorkflow
<1>1. CASE wf[j].cancel
  BY <1>1, EndsEffect DEF Proceed
<1>2. CASE ~wf[j].cancel
  <2>1. [wf[j] EXCEPT !.pc = p] \in Workflow
    BY <1>0 DEF Workflow
  <2>2. /\ [wf[j] EXCEPT !.pc = p].pc = p
        /\ [wf[j] EXCEPT !.pc = p].terminal = wf[j].terminal
        /\ [wf[j] EXCEPT !.pc = p].removed = wf[j].removed
    BY <1>0 DEF Workflow
  <2> QED
    BY <1>2, <2>1, <2>2, ProjectEffect DEF Proceed
<1> QED
  BY <1>1, <1>2

\* The conclusion of the step lemmas below: the other jobs are left alone, the
\* job itself keeps its invariant, and an outcome it declares is real.
Sound(j) ==
    /\ \A k \in Jobs \ {j} : Untouched(k)
    /\ JobInv(j)'
    /\ Declared(j)

\* The API service.
LEMMA ServiceStep ==
    ASSUME Types, NEW j \in Jobs, JobInv(j),
           \/ SubmitReads(j) \/ SubmitCommits(j)
           \/ StartReturns(j) \/ StartRaises(j) \/ ServiceDies(j)
           \/ CancelReads(j) \/ CancelCommits(j) \/ LateProjection(j)
    PROVE  Sound(j)
<1> USE DEF Sound, Untouched, JobInv, Recorded, StartedBeforeObserved,
            RemovedStaysAway, Declared
<1>0. /\ rec \in [Jobs -> RecordState]
      /\ wf \in [Jobs -> Workflow]
      /\ wf[j] \in Workflow
  BY DEF Types, RecordAndWorkflow
<1>a. UNCHANGED <<op, box>>
  BY DEF SubmitReads, SubmitCommits, StartReturns, StartRaises, ServiceDies,
         CancelReads, CancelCommits, LateProjection
<1>b. CASE /\ wf' = wf
           /\ \/ rec' = rec
              \/ \E s \in {"queued", "active", "start_failed"} :
                    rec' = [rec EXCEPT ![j] = s]
  BY <1>0, <1>a, <1>b DEF Outcome
<1>s. /\ Started(wf[j]).pc = IF wf[j].pc = "none" THEN "scheduled" ELSE wf[j].pc
      /\ Started(wf[j]).terminal = wf[j].terminal
      /\ Started(wf[j]).removed = wf[j].removed
  BY <1>0 DEF Started, Workflow
<1>c. CASE /\ wf' = [wf EXCEPT ![j] = Started(@)]
           /\ rec' = rec \/ rec' = [rec EXCEPT ![j] = "start_failed"]
  BY <1>0, <1>a, <1>c, <1>s DEF Outcome
<1>1. CASE SubmitReads(j) \/ SubmitCommits(j)
  BY <1>1, <1>b DEF SubmitReads, SubmitCommits
<1>2. CASE StartReturns(j)
  BY <1>2, <1>c DEF StartReturns
<1>3. CASE StartRaises(j)
  <2>1. rec' = rec \/ rec' = [rec EXCEPT ![j] = "start_failed"]
    BY <1>0, <1>3 DEF StartRaises
  <2> QED
    BY <1>3, <1>b, <1>c, <2>1 DEF StartRaises
<1>4. CASE ServiceDies(j) \/ CancelReads(j) \/ LateProjection(j)
  BY <1>4, <1>b DEF ServiceDies, CancelReads, LateProjection
<1>5. CASE CancelCommits(j)
  <2>1. CASE UNCHANGED <<rec, wf>>
    BY <1>b, <2>1
  <2>2. CASE /\ rec' = [rec EXCEPT ![j] = "active"]
             /\ wf' = [wf EXCEPT ![j].cancel = @ \/ ~IsTerminal(wf[j])]
    BY <1>0, <1>a, <2>2 DEF Workflow, Outcome
  <2> QED
    BY <1>5, <2>1, <2>2 DEF CancelCommits
<1> QED
  BY <1>1, <1>2, <1>3, <1>4, <1>5

\* The lifecycle of the workflow.
LEMMA LifecycleStep ==
    ASSUME Types, NEW j \in Jobs, JobInv(j),
           \/ Begin(j) \/ ResolveWorkspace(j) \/ AcquireImage(j)
           \/ Created(j) \/ StartedContainer(j) \/ LaunchFailed(j)
           \/ ObserveContainer(j) \/ ActivityFails(j) \/ Deadline(j)
    PROVE  Sound(j)
<1> USE DEF Sound, Untouched, JobInv, Recorded, StartedBeforeObserved,
            RemovedStaysAway, Declared
<1>0. /\ RecordAndWorkflow
      /\ wf \in [Jobs -> Workflow]
      /\ wf[j] \in Workflow
      /\ op \in [Jobs -> Activity]
      /\ box \in [Jobs -> Box]
  BY DEF Types, RecordAndWorkflow, Launch
<1>1. CASE Begin(j)
  BY <1>0, <1>1, ProceedEffect DEF Begin, Lifecycle, Outcome
<1>2. CASE ResolveWorkspace(j)
  BY <1>0, <1>2, ProceedEffect DEF ResolveWorkspace, Lifecycle, Outcome
<1>3. CASE AcquireImage(j)
  <2>1. CASE wf[j].cancel
    BY <1>0, <1>3, <2>1, EndsEffect DEF AcquireImage, Outcome
  <2>2. CASE ~wf[j].cancel
    BY <1>0, <1>3, <2>2 DEF AcquireImage, Workflow, Outcome
  <2> QED
    BY <2>1, <2>2
<1>4. CASE Created(j)
  <2> DEFINE w == [wf[j] EXCEPT !.ref = TRUE, !.pc = "start"]
  <2>1. /\ w \in Workflow
        /\ w.pc = "start" /\ w.terminal = wf[j].terminal /\ w.removed = wf[j].removed
    BY <1>0 DEF Workflow, Lifecycle
  <2>2. Project(j, "active", w)
    BY <1>4 DEF Created
  <2> HIDE DEF w
  <2>3. /\ \A k \in Jobs \ {j} : rec'[k] = rec[k] /\ wf'[k] = wf[k]
        /\ rec'[j] \in {rec[j], "active"}
        /\ wf'[j].pc = "start"
        /\ wf'[j].terminal = wf[j].terminal
        /\ wf'[j].removed = wf[j].removed
    BY <1>0, <2>1, <2>2, ProjectEffect
  <2> QED
    BY <1>0, <1>4, <2>3 DEF Created, Outcome
<1>5. CASE StartedContainer(j)
  BY <1>0, <1>5, ProceedEffect DEF StartedContainer, Lifecycle, Outcome
<1>6. CASE LaunchFailed(j)
  BY <1>0, <1>6, EndsEffect DEF LaunchFailed, Outcome
<1>7. CASE ObserveContainer(j)
  <2>1. CASE wf[j].cancel
    BY <1>0, <1>7, <2>1, EndsEffect DEF ObserveContainer, Outcome
  <2>2. CASE ~wf[j].cancel /\ Observed(j) = "running"
    BY <1>0, <1>7, <2>2, ProjectEffect DEF ObserveContainer, Outcome
  <2>3. CASE ~wf[j].cancel /\ Observed(j) # "running"
    <3>1. Ends(j, Observed(j))
      BY <1>7, <2>3 DEF ObserveContainer
    <3>2. Observed(j) # "canceled" /\ (Observed(j) = "succeeded" => box[j] = "exited0")
      BY <1>0, <1>7, <2>3 DEF Observed, ObserveContainer
    <3> QED
      BY <1>0, <1>7, <3>1, <3>2, EndsEffect DEF ObserveContainer, Outcome
  <2> QED
    BY <2>1, <2>2, <2>3
<1>8. CASE ActivityFails(j)
  BY <1>0, <1>8 DEF ActivityFails, Workflow, Outcome, Lifecycle
<1>9. CASE Deadline(j)
  <2>1. CASE \E t \in {"timed_out", "failed"} :
               wf' = [wf EXCEPT ![j].expired = TRUE, ![j].terminal = t,
                                ![j].pc = "ended"]
    <3>1. PICK t \in {"timed_out", "failed"} :
                 wf' = [wf EXCEPT ![j].expired = TRUE, ![j].terminal = t,
                                  ![j].pc = "ended"]
      BY <2>1
    <3>2. /\ wf'[j].pc = "ended"
          /\ wf'[j].terminal = t
          /\ wf'[j].removed = wf[j].removed
          /\ \A k \in Jobs \ {j} : wf'[k] = wf[k]
      BY <1>0, <3>1 DEF Workflow
    <3> QED
      BY <1>0, <1>9, <3>2 DEF Deadline, Outcome, Lifecycle
  <2>2. CASE wf' = [wf EXCEPT ![j].expired = TRUE, ![j].repair = TRUE]
    <3>1. /\ wf'[j].pc = wf[j].pc
          /\ wf'[j].terminal = wf[j].terminal
          /\ wf'[j].removed = wf[j].removed
          /\ \A k \in Jobs \ {j} : wf'[k] = wf[k]
      BY <1>0, <2>2 DEF Workflow
    <3>2. wf'[j].pc # "ended"
      BY <1>9, <3>1 DEF Deadline, Lifecycle
    <3> QED
      BY <1>0, <1>9, <3>1, <3>2 DEF Deadline
  <2> QED
    BY <1>9, <2>1, <2>2 DEF Deadline
<1> QED
  BY <1>1, <1>2, <1>3, <1>4, <1>5, <1>6, <1>7, <1>8, <1>9

\* The end of the workflow.
LEMMA FinalisationStep ==
    ASSUME Types, NEW j \in Jobs, JobInv(j),
           \/ Conclude(j) \/ StopContainer(j) \/ PublishEvidence(j)
           \/ RemoveContainer(j) \/ Cleanup(j) \/ BestEffortFails(j)
           \/ ProjectTerminal(j) \/ Repair(j)
    PROVE  Sound(j)
<1> USE DEF Sound, Untouched, JobInv, Recorded, StartedBeforeObserved,
            RemovedStaysAway, Declared
<1>0. /\ RecordAndWorkflow
      /\ rec \in [Jobs -> RecordState]
      /\ wf \in [Jobs -> Workflow]
      /\ wf[j] \in Workflow
      /\ op \in [Jobs -> Activity]
      /\ box \in [Jobs -> Box]
  BY DEF Types, RecordAndWorkflow, Launch
<1>p. ASSUME NEW p \in Finalisation \cup {"repair", "done"}
      PROVE  /\ [wf[j] EXCEPT !.pc = p] \in Workflow
             /\ [wf[j] EXCEPT !.pc = p].pc = p
             /\ [wf[j] EXCEPT !.pc = p].terminal = wf[j].terminal
             /\ [wf[j] EXCEPT !.pc = p].removed = wf[j].removed
  BY <1>0 DEF Workflow
<1>a. ASSUME NEW p \in Finalisation \cup {"repair", "done"}, NEW s,
             Project(j, s, [wf[j] EXCEPT !.pc = p])
      PROVE  /\ \A k \in Jobs \ {j} : rec'[k] = rec[k] /\ wf'[k] = wf[k]
             /\ rec'[j] \in {rec[j], s}
             /\ wf'[j].pc = p
             /\ wf'[j].terminal = wf[j].terminal
             /\ wf'[j].removed = wf[j].removed
  <2> DEFINE w == [wf[j] EXCEPT !.pc = p]
  <2>1. /\ w \in Workflow
        /\ w.pc = p /\ w.terminal = wf[j].terminal /\ w.removed = wf[j].removed
    BY <1>p
  <2>2. Project(j, s, w)
    BY <1>a
  <2> HIDE DEF w
  <2> QED
    BY <1>0, <2>1, <2>2, ProjectEffect
<1>1. CASE Conclude(j)
  <2>1. PICK p \in {"stop", "publish"} : Project(j, "active", [wf[j] EXCEPT !.pc = p])
    BY <1>1 DEF Conclude
  <2> QED
    BY <1>0, <1>1, <1>a, <2>1 DEF Conclude, Finalisation, Outcome
<1>2. CASE StopContainer(j)
  BY <1>0, <1>2, <1>a DEF StopContainer, Finalisation, Outcome
<1>3. CASE PublishEvidence(j)
  BY <1>0, <1>3, <1>a DEF PublishEvidence, Finalisation, Outcome
<1>4. CASE RemoveContainer(j)
  BY <1>0, <1>4 DEF RemoveContainer, Workflow
<1>5. CASE Cleanup(j)
  BY <1>0, <1>5 DEF Cleanup, Workflow
<1>6. CASE BestEffortFails(j)
  <2>1. CASE wf[j].pc = "stop"
    BY <1>0, <1>6, <2>1 DEF BestEffortFails, Workflow, Outcome
  <2>2. CASE wf[j].pc = "remove"
    BY <1>0, <1>6, <2>2 DEF BestEffortFails, Workflow
  <2>3. CASE wf[j].pc = "cleanup"
    BY <1>0, <1>6, <2>3 DEF BestEffortFails, Workflow
  <2> QED
    BY <1>6, <2>1, <2>2, <2>3 DEF BestEffortFails
<1>7. CASE ProjectTerminal(j)
  BY <1>0, <1>7, <1>a DEF ProjectTerminal
<1>8. CASE Repair(j)
  BY <1>0, <1>8 DEF Repair, Workflow
<1> QED
  BY <1>1, <1>2, <1>3, <1>4, <1>5, <1>6, <1>7, <1>8

\* The docker activities, awaited or not.
LEMMA ActivitySound ==
    ASSUME Types, NEW j \in Jobs, JobInv(j),
           \/ ActivityStep(j) \/ LockBusy(j) \/ WorkerDies(j) \/ WorkloadExits(j)
    PROVE  Sound(j)
<1> USE DEF Sound, Untouched, JobInv, Recorded, StartedBeforeObserved,
            RemovedStaysAway, Declared
<1>0. /\ wf[j] \in Workflow
      /\ op \in [Jobs -> Activity]
      /\ box \in [Jobs -> Box]
  BY DEF Types, RecordAndWorkflow, Launch
<1>1. UNCHANGED <<rec, wf>>
  BY DEF ActivityStep, CreateContainer, AcquireCapacityLock, EnforceBudget,
         StartContainer, Attest, LockBusy, WorkerDies, WorkloadExits
<1>2. CASE CreateContainer(j)
  BY <1>0, <1>1, <1>2 DEF CreateContainer, Result
<1>3. CASE AcquireCapacityLock(j)
  BY <1>0, <1>1, <1>3 DEF AcquireCapacityLock
<1>4. CASE LockBusy(j)
  BY <1>0, <1>1, <1>4 DEF LockBusy, Result
<1>5. CASE EnforceBudget(j)
  BY <1>0, <1>1, <1>5 DEF EnforceBudget, Result
<1>6. CASE StartContainer(j)
  BY <1>0, <1>1, <1>6 DEF StartContainer, Result
<1>7. CASE Attest(j)
  BY <1>0, <1>1, <1>7 DEF Attest, Result
<1>8. CASE WorkerDies(j)
  BY <1>0, <1>1, <1>8 DEF WorkerDies, Result
<1>9. CASE WorkloadExits(j)
  BY <1>0, <1>1, <1>9 DEF WorkloadExits
<1> QED
  BY <1>2, <1>3, <1>4, <1>5, <1>6, <1>7, <1>8, <1>9 DEF ActivityStep

\* Every step keeps the invariant of every job and declares only real outcomes.
LEMMA InvStep ==
    ASSUME Inv, [Next]_vars
    PROVE  Inv' /\ \A j \in Jobs : Declared(j)
<1>1. Types'
  BY TypesPreserved DEF Inv
<1>2. CASE UNCHANGED vars
  <2>1. \A k \in Jobs : Untouched(k)
    BY <1>2 DEF vars, Untouched
  <2> QED
    BY <1>1, <2>1, UntouchedKeeps DEF Inv
<1>3. CASE Next
  <2>1. PICK j \in Jobs :
           \/ SubmitReads(j) \/ SubmitCommits(j)
           \/ StartReturns(j) \/ StartRaises(j) \/ ServiceDies(j)
           \/ CancelReads(j) \/ CancelCommits(j)
           \/ WorkflowStep(j) \/ ActivityFails(j) \/ BestEffortFails(j)
           \/ Deadline(j) \/ LateProjection(j)
           \/ ActivityStep(j) \/ LockBusy(j) \/ WorkerDies(j)
           \/ WorkloadExits(j)
    BY <1>3 DEF Next
  <2>2. Types /\ JobInv(j)
    BY DEF Inv
  <2>3. Sound(j)
    BY <2>1, <2>2, ServiceStep, LifecycleStep, FinalisationStep, ActivitySound
       DEF WorkflowStep
  <2>4. \A k \in Jobs : JobInv(k)' /\ Declared(k)
    BY <2>3, UntouchedKeeps DEF Inv, Sound
  <2> QED
    BY <1>1, <2>4 DEF Inv
<1> QED
  BY <1>2, <1>3

\* The invariant of the jobs holds initially.
LEMMA InvInitially == Init => Inv
<1> SUFFICES ASSUME Init PROVE Inv
  OBVIOUS
<1>1. Types
  BY TypeInitially
<1>2. ASSUME NEW j \in Jobs PROVE JobInv(j)
  BY DEF Init, JobInv, Recorded, StartedBeforeObserved, RemovedStaysAway, Outcome
<1> QED
  BY <1>1, <1>2 DEF Inv

\* The invariant of the jobs holds in every reachable state.
LEMMA InvAlways == Spec => []Inv
<1>1. Inv /\ [Next]_vars => Inv'
  BY InvStep
<1> QED
  BY <1>1, InvInitially, PTL DEF Spec

\* A terminal state in the row of a job is the outcome of its workflow, for any
\* number of jobs, submissions, failed projections, late writes and repairs.
THEOREM RecordIsTheJobs == Spec => []RecordedOutcomeIsTheJobs
<1>1. Inv => RecordedOutcomeIsTheJobs
  BY DEF Inv, JobInv, Recorded, RecordedOutcomeIsTheJobs
<1> QED
  BY <1>1, InvAlways, PTL

\* A job that reports a successful cleanup has no running container and never
\* gets one, whatever create or start outlives its workflow's wait.
THEOREM CleanupIsLasting == Spec => []CleanedUpJobDoesNotRun
<1>1. Inv => CleanedUpJobDoesNotRun
  BY DEF Inv, JobInv, RemovedStaysAway, CleanedUpJobDoesNotRun
<1> QED
  BY <1>1, InvAlways, PTL

\* A job is declared succeeded only after its workload exited with 0, and
\* canceled only after a cancel request.
THEOREM OutcomesAreReal == Spec => DeclaredOutcomeIsReal
<1>1. Inv /\ [Next]_vars => [\A j \in Jobs : Declared(j)]_vars
  BY InvStep
<1>2. Spec => [][\A j \in Jobs : Declared(j)]_vars
  BY <1>1, InvAlways, PTL DEF Spec
<1> QED
  BY <1>2, PTL DEF DeclaredOutcomeIsReal, Declared

\* What OnlyStaleWritersReopen says of the steps of one job.
Reopened(j) ==
    rec[j] \in Outcome =>
        /\ PendingWrites(j)' \subseteq PendingWrites(j)
        /\ rec'[j] # rec[j] => PendingWrites(j) # {}

\* The writes under way for job k stay as they are.
SameWriters(k) ==
    late'[k] = late[k] /\ canceler'[k] = canceler[k] /\ api'[k].call = api[k].call

\* They are the pending writes.
LEMMA SameWritersPend ==
    ASSUME NEW k, SameWriters(k)
    PROVE  PendingWrites(k)' = PendingWrites(k)
BY DEF SameWriters, PendingWrites

\* A step of the workflow or of an activity leaves the clients of every job alone,
\* and the late projections of the other jobs.
LEMMA WorkflowWriters ==
    ASSUME Types, NEW j \in Jobs,
           \/ WorkflowStep(j) \/ ActivityFails(j) \/ BestEffortFails(j) \/ Deadline(j)
           \/ ActivityStep(j) \/ LockBusy(j) \/ WorkerDies(j) \/ WorkloadExits(j)
    PROVE  UNCHANGED <<api, canceler>> /\ \A k \in Jobs \ {j} : SameWriters(k)
<1>0. late \in [Jobs -> BOOLEAN]
  BY DEF Types, RecordAndWorkflow
<1>1. UNCHANGED <<api, canceler>>
  BY DEF WorkflowStep, Begin, ResolveWorkspace, AcquireImage, Created, StartedContainer,
         LaunchFailed, ObserveContainer, Conclude, StopContainer, PublishEvidence,
         RemoveContainer, Cleanup, ProjectTerminal, Repair, ActivityFails,
         BestEffortFails, Deadline, ActivityStep, CreateContainer, AcquireCapacityLock,
         EnforceBudget, StartContainer, Attest, LockBusy, WorkerDies, WorkloadExits
<1>2. late' = late \/ late' = [late EXCEPT ![j] = TRUE]
  <2>1. \A t, w : Project(j, t, w) => late' = late \/ late' = [late EXCEPT ![j] = TRUE]
    BY DEF Project
  <2>2. \A next : Proceed(j, next) => late' = late \/ late' = [late EXCEPT ![j] = TRUE]
    BY <2>1 DEF Proceed, Ends
  <2> QED
    BY <2>1, <2>2
       DEF WorkflowStep, Begin, ResolveWorkspace, AcquireImage, Created,
           StartedContainer, LaunchFailed, ObserveContainer, Conclude, StopContainer,
           PublishEvidence, RemoveContainer, Cleanup, ProjectTerminal, Repair, Ends,
           ActivityFails, BestEffortFails, Deadline, ActivityStep, CreateContainer,
           AcquireCapacityLock, EnforceBudget, StartContainer, Attest, LockBusy,
           WorkerDies, WorkloadExits
<1> QED
  BY <1>0, <1>1, <1>2 DEF SameWriters

\* A step of the service for one job leaves the writers of the others alone.
LEMMA ServiceWriters ==
    ASSUME Types, NEW j \in Jobs,
           \/ SubmitReads(j) \/ SubmitCommits(j)
           \/ StartReturns(j) \/ StartRaises(j) \/ ServiceDies(j)
           \/ CancelReads(j) \/ CancelCommits(j) \/ LateProjection(j)
    PROVE  \A k \in Jobs \ {j} : SameWriters(k)
<1>0. late \in [Jobs -> BOOLEAN] /\ Clients
  BY DEF Types, RecordAndWorkflow
<1> QED
  BY <1>0 DEF SubmitReads, SubmitCommits, StartReturns, StartRaises, ServiceDies,
              CancelReads, CancelCommits, LateProjection, SameWriters, Clients

\* What a step of the service does to the writers of its own job, and which of them
\* replaces a terminal record.
LEMMA ServiceReopens ==
    ASSUME Types, NEW j \in Jobs, rec[j] \in Outcome,
           \/ SubmitReads(j) \/ SubmitCommits(j)
           \/ StartReturns(j) \/ StartRaises(j) \/ ServiceDies(j)
           \/ CancelReads(j) \/ CancelCommits(j) \/ LateProjection(j)
    PROVE  Reopened(j)
<1>0. /\ late \in [Jobs -> BOOLEAN] /\ Clients
      /\ rec \in [Jobs -> RecordState]
  BY DEF Types, RecordAndWorkflow
<1>1. AfterRead(rec[j]) = "preserving"
  BY DEF AfterRead, Outcome
<1>2. /\ late'[j] => late[j]
      /\ canceler'[j] = "read" => canceler[j] = "read"
      /\ api'[j].call \in {"recording", "starting"} =>
            api[j].call \in {"recording", "starting"}
  BY <1>0, <1>1
     DEF SubmitReads, SubmitCommits, StartReturns, StartRaises, ServiceDies, CancelReads,
         CancelCommits, LateProjection, Clients, Outcome
<1>3. rec'[j] # rec[j] =>
         late[j] \/ canceler[j] = "read" \/ api[j].call \in {"recording", "starting"}
  BY <1>0
     DEF SubmitReads, SubmitCommits, StartReturns, StartRaises, Starting, ServiceDies,
         CancelReads, CancelCommits, LateProjection
<1> QED
  BY <1>2, <1>3 DEF Reopened, PendingWrites

\* A workflow whose outcome is on record has its repair left at most, which
\* writes the same outcome; the service writes what it decided before.
LEMMA ReopenStep ==
    ASSUME Inv, [Next]_vars
    PROVE  \A k \in Jobs : Reopened(k)
<1> SUFFICES ASSUME NEW k \in Jobs, rec[k] \in Outcome
             PROVE  Reopened(k)
  BY DEF Reopened
<1>0. /\ rec \in [Jobs -> RecordState] /\ Types
      /\ rec[k] = wf[k].terminal
      /\ wf[k].pc \in {"repair", "done"}
  BY DEF Inv, Types, RecordAndWorkflow, JobInv, Recorded
<1>s. CASE rec'[k] = rec[k] /\ SameWriters(k)
  BY <1>s, SameWritersPend DEF Reopened
<1>1. CASE UNCHANGED vars
  BY <1>1, <1>s DEF vars, SameWriters
<1>2. CASE Next
  <2>1. PICK j \in Jobs :
           \/ SubmitReads(j) \/ SubmitCommits(j)
           \/ StartReturns(j) \/ StartRaises(j) \/ ServiceDies(j)
           \/ CancelReads(j) \/ CancelCommits(j)
           \/ WorkflowStep(j) \/ ActivityFails(j) \/ BestEffortFails(j)
           \/ Deadline(j) \/ LateProjection(j)
           \/ ActivityStep(j) \/ LockBusy(j) \/ WorkerDies(j)
           \/ WorkloadExits(j)
    BY <1>2 DEF Next
  <2>2. CASE k # j
    <3>1. Sound(j)
      BY <2>1, ServiceStep, LifecycleStep, FinalisationStep, ActivitySound
         DEF WorkflowStep, Inv
    <3>2. rec'[k] = rec[k]
      BY <2>2, <3>1 DEF Sound, Untouched
    <3>3. SameWriters(k)
      BY <1>0, <2>1, <2>2, WorkflowWriters, ServiceWriters
    <3> QED
      BY <1>s, <3>2, <3>3
  <2>3. CASE /\ k = j
             /\ \/ SubmitReads(j) \/ SubmitCommits(j)
                \/ StartReturns(j) \/ StartRaises(j) \/ ServiceDies(j)
                \/ CancelReads(j) \/ CancelCommits(j) \/ LateProjection(j)
    BY <1>0, <2>3, ServiceReopens
  <2>4. CASE /\ k = j
             /\ ActivityStep(j) \/ LockBusy(j) \/ WorkerDies(j) \/ WorkloadExits(j)
    <3>1. UNCHANGED <<rec, api, canceler, late>>
      BY <2>4
         DEF ActivityStep, CreateContainer, AcquireCapacityLock, EnforceBudget,
             StartContainer, Attest, LockBusy, WorkerDies, WorkloadExits
    <3> QED
      BY <1>s, <3>1 DEF SameWriters
  <2>5. CASE k = j /\ Repair(j)
    <3>1. UNCHANGED <<api, canceler, late>> /\ rec'[k] = rec[k]
      BY <1>0, <2>5 DEF Repair
    <3> QED
      BY <1>s, <3>1 DEF SameWriters
  <2>6. CASE /\ k = j
             /\ WorkflowStep(j) \/ ActivityFails(j) \/ BestEffortFails(j) \/ Deadline(j)
    <3>1. wf[j].pc \notin {"none", "scheduled"} \cup Lifecycle \cup Finalisation
      BY <1>0, <2>6 DEF Lifecycle, Finalisation
    <3> QED
      BY <2>5, <2>6, <3>1
         DEF WorkflowStep, Begin, ResolveWorkspace, AcquireImage, Created,
             StartedContainer, LaunchFailed, ObserveContainer, Conclude, StopContainer,
             PublishEvidence, RemoveContainer, Cleanup, ProjectTerminal, ActivityFails,
             BestEffortFails, Deadline, Lifecycle, Finalisation
  <2> QED
    BY <2>1, <2>2, <2>3, <2>4, <2>6
<1> QED
  BY <1>1, <1>2

\* A terminal record is replaced only by a write that was decided before it was made
\* and is still under way: a projection that timed out, a cancel request, or a
\* submission that had read the row while it was open or recorded a start failure.
\* While the row is terminal no such write begins.
THEOREM OnlyLateWritesReopen == Spec => OnlyStaleWritersReopen
<1>1. Inv /\ [Next]_vars => [\A j \in Jobs : Reopened(j)]_vars
  BY ReopenStep
<1>2. Spec => [][\A j \in Jobs : Reopened(j)]_vars
  BY <1>1, InvAlways, PTL DEF Spec
<1> QED
  BY <1>2, PTL DEF OnlyStaleWritersReopen, Reopened

-----------------------------------------------------------------------------
(***************************************************************************)
(* The memory of a set of jobs.  MemoryOf is the library's sum over a set, *)
(* a recursive function on its subsets.  It is shown to count cells: every *)
(* job has Mem[j] cells of one unit each, and cells are counted by         *)
(* Cardinality.  Induction over the set of jobs is the choice of a minimal *)
(* counterexample among its subsets.                                       *)
(***************************************************************************)

\* The cells of memory the jobs of S ask for.
Cells(S) == {c \in S \X Nat : c[2] \in 1..Mem[c[1]]}

\* A nonempty family of subsets of a finite set has a minimal member.
LEMMA MinimalSubset ==
    ASSUME NEW S, IsFiniteSet(S), NEW F \in SUBSET (SUBSET S), F # {}
    PROVE  \E T \in F : \A U \in F : U \subseteq T => U = T
<1>1. FiniteSubsetsOf(S) = SUBSET S
  BY FS_FiniteSubsetsOfFinite
<1>2. IsWellFoundedOn(StrictSubsetOrdering(S), SUBSET S)
  BY <1>1, FS_StrictSubsetOrderingWellFounded
<1>3. PICK T \in F : \A U \in F : ~(<<U, T>> \in StrictSubsetOrdering(S))
  BY <1>2, WFMin
<1>4. ASSUME NEW U \in F, U \subseteq T PROVE U = T
  BY <1>3, <1>4 DEF StrictSubsetOrdering
<1> QED
  BY <1>3, <1>4

\* A further job adds as many cells as the memory it asks for.
LEMMA CellsOfOne ==
    ASSUME NEW S \in SUBSET Jobs, NEW j \in Jobs \ S, IsFiniteSet(Cells(S))
    PROVE  /\ IsFiniteSet(Cells(S \cup {j}))
           /\ Cardinality(Cells(S \cup {j})) = Cardinality(Cells(S)) + Mem[j]
<1>0. Mem[j] \in Nat /\ \A i \in Jobs : Mem[i] \in Nat
  BY JobAssumption
<1> DEFINE One == {j} \X (1..Mem[j])
<1>1. Cells(S \cup {j}) = Cells(S) \cup One
  BY <1>0 DEF Cells
<1>2. Cells(S) \cap One = {}
  BY DEF Cells
<1>3. IsFiniteSet(1..Mem[j]) /\ Cardinality(1..Mem[j]) = Mem[j]
  BY <1>0, FS_Interval
<1>4. IsFiniteSet({j}) /\ Cardinality({j}) = 1
  BY FS_Singleton
<1>5. IsFiniteSet(One) /\ Cardinality(One) = Cardinality({j}) * Cardinality(1..Mem[j])
  BY <1>3, <1>4, FS_Product
<1>6. Cardinality(One) = Mem[j]
  BY <1>0, <1>3, <1>4, <1>5
<1> HIDE DEF One
<1>7. /\ IsFiniteSet(Cells(S) \cup One)
      /\ Cardinality(Cells(S) \cup One)
            = Cardinality(Cells(S)) + Cardinality(One) - Cardinality(Cells(S) \cap One)
  <2>1. IsFiniteSet(One)
    BY <1>5
  <2> QED
    BY <2>1, FS_Union
<1>8. /\ Cardinality(Cells(S)) \in Nat
      /\ Cardinality(Cells(S) \cap One) = 0
  BY <1>2, FS_CardinalityType, FS_EmptySet
<1> DEFINE both == Cardinality(Cells(S) \cup One)
           before == Cardinality(Cells(S))
           single == Cardinality(One)
           common == Cardinality(Cells(S) \cap One)
<1>9. both = before + single - common /\ before \in Nat /\ common = 0 /\ single = Mem[j]
  BY <1>6, <1>7, <1>8
<1>10. IsFiniteSet(Cells(S) \cup One)
  BY <1>7
<1>11. both = before + Mem[j]
  <2> HIDE DEF both, before, single, common
  <2> QED
    BY <1>0, <1>9
<1> QED
  BY <1>1, <1>10, <1>11

\* The empty set has no cells.
LEMMA NoCells == Cells({}) = {} /\ IsFiniteSet({}) /\ Cardinality({}) = 0
BY FS_EmptySet DEF Cells

\* The cells of any set of jobs are finitely many.
LEMMA CellsFinite ==
    ASSUME NEW S \in SUBSET Jobs
    PROVE  IsFiniteSet(Cells(S)) /\ Cardinality(Cells(S)) \in Nat
<1> DEFINE Bad == {T \in SUBSET Jobs : ~IsFiniteSet(Cells(T))}
<1>1. SUFFICES ASSUME Bad # {} PROVE FALSE
  BY FS_CardinalityType
<1>2. PICK T \in Bad : \A U \in Bad : U \subseteq T => U = T
  <2>1. Bad \in SUBSET (SUBSET Jobs) /\ IsFiniteSet(Jobs)
    BY JobAssumption
  <2> HIDE DEF Bad
  <2> QED
    BY <1>1, <2>1, MinimalSubset
<1>3. T # {}
  BY NoCells
<1>4. PICK j \in T : TRUE
  BY <1>3
<1>5. /\ T \ {j} \in SUBSET Jobs
      /\ j \in Jobs \ (T \ {j})
      /\ (T \ {j}) \cup {j} = T
      /\ T \ {j} # T
      /\ T \ {j} \subseteq T
  BY <1>4
<1>6. IsFiniteSet(Cells(T \ {j}))
  BY <1>2, <1>5
<1> QED
  BY <1>5, <1>6, CellsOfOne

\* One job's cells, taken out of a set that has it.
LEMMA CellsWithout ==
    ASSUME NEW S \in SUBSET Jobs, NEW j \in S
    PROVE  Cardinality(Cells(S)) = Mem[j] + Cardinality(Cells(S \ {j}))
<1> DEFINE R == S \ {j}
<1>1. R \in SUBSET Jobs /\ j \in Jobs \ R /\ R \cup {j} = S
  OBVIOUS
<1> HIDE DEF R
<1>2. Cardinality(Cells(R)) \in Nat /\ IsFiniteSet(Cells(R))
  BY <1>1, CellsFinite
<1>3. Cardinality(Cells(R \cup {j})) = Cardinality(Cells(R)) + Mem[j]
  BY <1>1, <1>2, CellsOfOne
<1>4. Mem[j] \in Nat
  BY JobAssumption
<1>5. Cardinality(Cells(S)) = Cardinality(Cells(R)) + Mem[j]
  BY <1>1, <1>3
<1>6. Cardinality(Cells(S)) = Mem[j] + Cardinality(Cells(R))
  BY <1>2, <1>4, <1>5
<1> QED
  BY <1>6 DEF R

\* The sum over a set of jobs is the number of its cells: the count satisfies
\* the sum's recursion, so the recursion has a solution, and the solutions
\* agree on every subset, a minimal one where they differ being impossible.
LEMMA MemoryIsCells ==
    ASSUME NEW S \in SUBSET Jobs
    PROVE  MemoryOf(S) = Cardinality(Cells(S))
<1> DEFINE Pick(s) == CHOOSE x \in s : TRUE
           f == CHOOSE f :
                  f = [s \in SUBSET S |->
                         IF s = {} THEN 0 ELSE Mem[Pick(s)] + f[s \ {Pick(s)}]]
           W == [s \in SUBSET S |-> Cardinality(Cells(s))]
           Step(s) == IF s = {} THEN 0 ELSE Mem[Pick(s)] + W[s \ {Pick(s)}]
           V == [s \in SUBSET S |-> Step(s)]
<1>1. MemoryOf(S) = f[S]
  BY DEF MemoryOf, MapThenSumSet, MapThenFoldSet
<1>2. ASSUME NEW s \in SUBSET S PROVE Cardinality(Cells(s)) = Step(s)
  <2>1. CASE s = {}
    BY <2>1, NoCells
  <2>2. CASE s # {}
    <3>1. PICK x : x = Pick(s)
      OBVIOUS
    <3>2. x \in s
      BY <2>2, <3>1
    <3>3. s \in SUBSET Jobs
      OBVIOUS
    <3>4. Cardinality(Cells(s)) = Mem[x] + Cardinality(Cells(s \ {x}))
      BY <3>2, <3>3, CellsWithout
    <3>5. s \ {x} \in SUBSET S
      OBVIOUS
    <3>6. W[s \ {x}] = Cardinality(Cells(s \ {x}))
      BY <3>5
    <3>7. Step(s) = Mem[x] + W[s \ {x}]
      BY <2>2, <3>1
    <3> QED
      BY <3>4, <3>6, <3>7
  <2> QED
    BY <2>1, <2>2
<1>3. W = V
  BY <1>2
<1>4. f = [s \in SUBSET S |->
             IF s = {} THEN 0 ELSE Mem[Pick(s)] + f[s \ {Pick(s)}]]
  <2> HIDE DEF W, Pick
  <2> QED
    BY <1>3, Zenon
<1> HIDE DEF f
<1> DEFINE Bad == {T \in SUBSET S : f[T] # Cardinality(Cells(T))}
<1>5. SUFFICES ASSUME Bad # {} PROVE FALSE
  BY <1>1
<1>6. IsFiniteSet(S)
  BY JobAssumption, FS_Subset
<1>7. PICK T \in Bad : \A U \in Bad : U \subseteq T => U = T
  <2>1. Bad \in SUBSET (SUBSET S)
    OBVIOUS
  <2> HIDE DEF Bad
  <2> QED
    BY <1>5, <1>6, <2>1, MinimalSubset
<1>8. T # {}
  BY <1>4, <1>7, NoCells
<1>9. PICK x : x = Pick(T)
  OBVIOUS
<1>10. x \in T
  BY <1>8, <1>9
<1>11. f[T] = Mem[x] + f[T \ {x}]
  BY <1>4, <1>8, <1>9
<1>12. f[T \ {x}] = Cardinality(Cells(T \ {x}))
  BY <1>7, <1>10
<1>13. Cardinality(Cells(T)) = Mem[x] + Cardinality(Cells(T \ {x}))
  <2> T \in SUBSET Jobs
    OBVIOUS
  <2> QED
    BY <1>10, CellsWithout
<1> QED
  BY <1>7, <1>11, <1>12, <1>13

\* More jobs hold more memory.
LEMMA MemoryGrows ==
    ASSUME NEW S \in SUBSET Jobs, NEW T \in SUBSET S
    PROVE  /\ MemoryOf(S) \in Nat
           /\ MemoryOf(T) \in Nat
           /\ MemoryOf(T) <= MemoryOf(S)
<1>1. T \in SUBSET Jobs
  OBVIOUS
<1>2. IsFiniteSet(Cells(S)) /\ Cardinality(Cells(S)) \in Nat /\ Cardinality(Cells(T)) \in Nat
  BY <1>1, CellsFinite
<1>3. Cells(T) \subseteq Cells(S)
  BY DEF Cells
<1>4. Cardinality(Cells(T)) <= Cardinality(Cells(S))
  BY <1>2, <1>3, FS_Subset
<1> QED
  BY <1>1, <1>2, <1>4, MemoryIsCells

\* A job of a set adds what it asks for.
LEMMA MemoryAdds ==
    ASSUME NEW S \in SUBSET Jobs, NEW j \in S
    PROVE  MemoryOf(S) = MemoryOf(S \ {j}) + Mem[j]
<1>1. S \ {j} \in SUBSET Jobs
  OBVIOUS
<1>2. Cardinality(Cells(S)) = Mem[j] + Cardinality(Cells(S \ {j}))
  BY CellsWithout
<1>3. MemoryOf(S) = Cardinality(Cells(S)) /\ MemoryOf(S \ {j}) = Cardinality(Cells(S \ {j}))
  BY <1>1, MemoryIsCells
<1>4. Cardinality(Cells(S \ {j})) \in Nat /\ Mem[j] \in Nat
  BY <1>1, CellsFinite, JobAssumption
<1>5. MemoryOf(S) = Mem[j] + MemoryOf(S \ {j}) /\ MemoryOf(S \ {j}) \in Nat
  BY <1>2, <1>3, <1>4
<1> HIDE DEF Cells
<1> QED
  BY <1>4, <1>5

-----------------------------------------------------------------------------
(***************************************************************************)
(* The budget.  It is not inductive: a start decides on the inventory of   *)
(* one step and runs its container in another.  What keeps the decision    *)
(* good in between is the lock, held from before the inventory until after *)
(* the start, while every other activity only ends containers.             *)
(***************************************************************************)

\* A start that takes the inventory, or has taken it, holds the lock.
HoldsLock(j) == op[j] \in {"admit", "admitted"} => lock = {j}

\* An admitted start still fits beside the containers that run now.
StillFits(j) ==
    op[j] = "admitted" => MemoryOf(Running \ {j}) + Mem[j] <= Budget

BudgetInv ==
    /\ Types
    /\ BudgetHolds
    /\ \A j \in Jobs : HoldsLock(j) /\ StillFits(j)

\* A step of job j that starts nothing, takes no lock and admits nothing.
Quiet(j) ==
    /\ Running' \subseteq Running
    /\ \A k \in Jobs \ {j} : op'[k] = op[k]
    /\ op'[j] \in {"admit", "admitted"} => op'[j] = op[j] /\ lock' = lock
    /\ lock' = lock \/ lock' = lock \ {j}

\* Fewer running containers leave at least as much room.
LEMMA RoomStays ==
    ASSUME Running' \subseteq Running, NEW j \in Jobs
    PROVE  /\ BudgetHolds => BudgetHolds'
           /\ MemoryOf(Running \ {j}) + Mem[j] <= Budget
                => MemoryOf(Running' \ {j}) + Mem[j] <= Budget
<1>1. Running \in SUBSET Jobs
  BY DEF Running
<1>2. PICK R : R = Running
  OBVIOUS
<1>3. PICK Q : Q = Running'
  OBVIOUS
<1>4. /\ R \in SUBSET Jobs /\ Q \in SUBSET R
      /\ R \ {j} \in SUBSET Jobs /\ Q \ {j} \in SUBSET (R \ {j})
  BY <1>1, <1>2, <1>3
<1>5. /\ MemoryOf(R) \in Nat /\ MemoryOf(Q) \in Nat
      /\ MemoryOf(Q) <= MemoryOf(R)
  BY <1>4, MemoryGrows
<1>6. /\ MemoryOf(R \ {j}) \in Nat /\ MemoryOf(Q \ {j}) \in Nat
      /\ MemoryOf(Q \ {j}) <= MemoryOf(R \ {j})
  BY <1>4, MemoryGrows
<1>7. Budget \in Nat /\ Mem[j] \in Nat
  BY JobAssumption
<1>8. MemoryOf(R) <= Budget => MemoryOf(Q) <= Budget
  BY <1>5, <1>7
<1>9. MemoryOf(R \ {j}) + Mem[j] <= Budget => MemoryOf(Q \ {j}) + Mem[j] <= Budget
  BY <1>6, <1>7
<1>10. BudgetHolds' <=> MemoryOf(Q) <= Budget
  BY <1>3 DEF BudgetHolds
<1> QED
  BY <1>2, <1>3, <1>8, <1>9, <1>10 DEF BudgetHolds

\* A quiet step keeps the budget and every admission.
LEMMA QuietKeeps ==
    ASSUME BudgetInv, NEW j \in Jobs, Quiet(j)
    PROVE  BudgetHolds' /\ \A k \in Jobs : HoldsLock(k)' /\ StillFits(k)'
<1>1. BudgetHolds'
  BY RoomStays DEF BudgetInv, Quiet
<1>2. ASSUME NEW k \in Jobs PROVE HoldsLock(k)'
  BY DEF BudgetInv, Quiet, HoldsLock
<1>3. ASSUME NEW k \in Jobs PROVE StillFits(k)'
  <2>1. op'[k] = "admitted" => op[k] = "admitted"
    BY DEF Quiet
  <2>2. op[k] = "admitted" => MemoryOf(Running' \ {k}) + Mem[k] <= Budget
    BY RoomStays DEF BudgetInv, Quiet, StillFits
  <2> QED
    BY <2>1, <2>2 DEF StillFits
<1> QED
  BY <1>1, <1>2, <1>3

\* The service and the workflow neither admit nor start containers.
LEMMA ServiceQuiet ==
    ASSUME Types, NEW j \in Jobs,
           \/ SubmitReads(j) \/ SubmitCommits(j)
           \/ StartReturns(j) \/ StartRaises(j) \/ ServiceDies(j)
           \/ CancelReads(j) \/ CancelCommits(j)
           \/ WorkflowStep(j) \/ ActivityFails(j) \/ BestEffortFails(j)
           \/ Deadline(j) \/ LateProjection(j)
    PROVE  Quiet(j)
<1>0. op \in [Jobs -> Activity] /\ box \in [Jobs -> Box]
  BY DEF Types, Launch
<1>1. lock' = lock
  BY DEF SubmitReads, SubmitCommits, StartReturns, StartRaises, ServiceDies,
         CancelReads, CancelCommits,
         WorkflowStep, ActivityFails, BestEffortFails, Deadline, LateProjection,
         Begin, ResolveWorkspace, AcquireImage, Created, StartedContainer,
         LaunchFailed, ObserveContainer, Conclude, StopContainer, PublishEvidence,
         RemoveContainer, Cleanup, ProjectTerminal, Repair
<1>2. \/ op' = op
      \/ \E a \in {"create", "lock", "idle"} : op' = [op EXCEPT ![j] = a]
      \/ op' = [op EXCEPT ![j] = IF @ \in {"ok", "error"} /\ wf'[j].pc = "ended"
                                 THEN "idle" ELSE @]
  BY DEF SubmitReads, SubmitCommits, StartReturns, StartRaises, ServiceDies,
         CancelReads, CancelCommits,
         WorkflowStep, ActivityFails, BestEffortFails, Deadline, LateProjection,
         Begin, ResolveWorkspace, AcquireImage, Created, StartedContainer,
         LaunchFailed, ObserveContainer, Conclude, StopContainer, PublishEvidence,
         RemoveContainer, Cleanup, ProjectTerminal, Repair
<1>3. \/ box' = box
      \/ box' = [box EXCEPT ![j] = "none"]
      \/ box' = [box EXCEPT ![j] = IF @ = "running" THEN "exited1" ELSE @]
  BY DEF SubmitReads, SubmitCommits, StartReturns, StartRaises, ServiceDies,
         CancelReads, CancelCommits,
         WorkflowStep, ActivityFails, BestEffortFails, Deadline, LateProjection,
         Begin, ResolveWorkspace, AcquireImage, Created, StartedContainer,
         LaunchFailed, ObserveContainer, Conclude, StopContainer, PublishEvidence,
         RemoveContainer, Cleanup, ProjectTerminal, Repair
<1>4. Running' \subseteq Running
  BY <1>0, <1>3 DEF Running
<1>5. /\ \A k \in Jobs \ {j} : op'[k] = op[k]
      /\ op'[j] \in {"admit", "admitted"} => op'[j] = op[j]
  BY <1>0, <1>2
<1> QED
  BY <1>1, <1>4, <1>5 DEF Quiet

\* Nor do the activities but for the three steps of an admission; each of them
\* keeps the budget and the admissions.
LEMMA ActivityKeepsBudget ==
    ASSUME BudgetInv, NEW j \in Jobs,
           \/ ActivityStep(j) \/ LockBusy(j) \/ WorkerDies(j) \/ WorkloadExits(j)
    PROVE  BudgetHolds' /\ \A k \in Jobs : HoldsLock(k)' /\ StillFits(k)'
<1>0. op \in [Jobs -> Activity] /\ box \in [Jobs -> Box] /\ Mem[j] \in Nat
  BY JobAssumption DEF BudgetInv, Types, Launch
<1>r. \A r \in {"ok", "error"} : Result(j, r) \in {"ok", "error", "idle"}
  BY DEF Result
<1>1. CASE CreateContainer(j) \/ LockBusy(j) \/ Attest(j) \/ WorkerDies(j) \/ WorkloadExits(j)
  <2>1. Running' \subseteq Running
    BY <1>0, <1>1 DEF CreateContainer, LockBusy, Attest, WorkerDies, WorkloadExits, Running
  <2>2. \/ \E a \in {"ok", "error", "idle"} : op' = [op EXCEPT ![j] = a]
        \/ op' = op /\ lock' = lock
    BY <1>1, <1>r DEF CreateContainer, LockBusy, Attest, WorkerDies, WorkloadExits
  <2>3. lock' = lock \/ lock' = lock \ {j}
    BY <1>1 DEF CreateContainer, LockBusy, Attest, WorkerDies, WorkloadExits
  <2>4. Quiet(j)
    BY <1>0, <2>1, <2>2, <2>3 DEF Quiet
  <2> QED
    BY <2>4, QuietKeeps
<1>2. CASE AcquireCapacityLock(j)
  <2>1. Running' = Running
    BY <1>2 DEF AcquireCapacityLock, Running
  <2>2. BudgetHolds'
    BY <2>1, RoomStays DEF BudgetInv
  <2>3. ASSUME NEW k \in Jobs PROVE HoldsLock(k)'
    BY <1>0, <1>2 DEF AcquireCapacityLock, BudgetInv, HoldsLock
  <2>4. ASSUME NEW k \in Jobs PROVE StillFits(k)'
    <3>1. op'[k] = "admitted" => op[k] = "admitted"
      BY <1>0, <1>2 DEF AcquireCapacityLock
    <3>2. op[k] = "admitted" => MemoryOf(Running' \ {k}) + Mem[k] <= Budget
      BY <2>1, RoomStays DEF BudgetInv, StillFits
    <3> QED
      BY <3>1, <3>2 DEF StillFits
  <2> QED
    BY <2>2, <2>3, <2>4
<1>3. CASE EnforceBudget(j)
  <2>1. Running' = Running
    BY <1>3 DEF EnforceBudget, Running
  <2>2. CASE MemoryOf(Running \ {j}) + Mem[j] <= Budget
    <3>1. op' = [op EXCEPT ![j] = "admitted"] /\ lock' = lock /\ op[j] = "admit"
      BY <1>3, <2>2 DEF EnforceBudget
    <3>2. BudgetHolds'
      BY <2>1, RoomStays DEF BudgetInv
    <3>3. ASSUME NEW k \in Jobs PROVE HoldsLock(k)'
      BY <1>0, <3>1 DEF BudgetInv, HoldsLock
    <3>4. ASSUME NEW k \in Jobs PROVE StillFits(k)'
      <4>1. op'[k] = "admitted" => op[k] = "admitted" \/ k = j
        BY <1>0, <3>1
      <4>2. op[k] = "admitted" \/ k = j => MemoryOf(Running' \ {k}) + Mem[k] <= Budget
        BY <2>1, <2>2, RoomStays DEF BudgetInv, StillFits
      <4> QED
        BY <4>1, <4>2 DEF StillFits
    <3> QED
      BY <3>2, <3>3, <3>4
  <2>3. CASE ~(MemoryOf(Running \ {j}) + Mem[j] <= Budget)
    <3>1. \E a \in {"error", "idle"} : op' = [op EXCEPT ![j] = a]
      BY <1>3, <1>r, <2>3 DEF EnforceBudget, Result
    <3>2. lock' = lock \ {j}
      BY <1>3, <2>3 DEF EnforceBudget
    <3>3. Quiet(j)
      BY <1>0, <2>1, <3>1, <3>2 DEF Quiet
    <3> QED
      BY <3>3, QuietKeeps
  <2> QED
    BY <2>2, <2>3
<1>4. CASE StartContainer(j) /\ box[j] = "created"
  <2>1. /\ box' = [box EXCEPT ![j] = "running"]
        /\ lock' = lock \ {j}
        /\ op[j] = "admitted"
        /\ \E a \in {"attest", "ok", "error", "idle"} : op' = [op EXCEPT ![j] = a]
    BY <1>4, <1>r DEF StartContainer
  <2>2. Running' = Running \cup {j} /\ Running' \in SUBSET Jobs /\ j \in Running'
    BY <1>0, <2>1 DEF Running
  <2>3. Running' \ {j} = Running \ {j}
    BY <2>2
  <2>4. MemoryOf(Running \ {j}) + Mem[j] <= Budget
    BY <2>1 DEF BudgetInv, StillFits
  <2>5. BudgetHolds'
    <3>1. PICK Q : Q = Running'
      OBVIOUS
    <3>2. Q \in SUBSET Jobs /\ j \in Q /\ Q \ {j} = Running \ {j}
      BY <2>2, <2>3, <3>1
    <3>3. MemoryOf(Q) = MemoryOf(Q \ {j}) + Mem[j]
      BY <3>2, MemoryAdds
    <3>4. MemoryOf(Q) <= Budget
      BY <2>4, <3>2, <3>3
    <3> QED
      BY <3>1, <3>4 DEF BudgetHolds
  <2>6. ASSUME NEW k \in Jobs PROVE op'[k] \notin {"admit", "admitted"}
    <3>1. lock = {j}
      BY <2>1 DEF BudgetInv, HoldsLock
    <3>2. k # j => op[k] \notin {"admit", "admitted"}
      BY <3>1 DEF BudgetInv, HoldsLock
    <3> QED
      BY <1>0, <2>1, <3>2
  <2> QED
    BY <2>5, <2>6 DEF HoldsLock, StillFits
<1>5. CASE StartContainer(j) /\ box[j] # "created"
  <2>1. Running' = Running /\ lock' = lock \ {j}
    BY <1>5 DEF StartContainer, Running
  <2>2. \E a \in {"error", "idle"} : op' = [op EXCEPT ![j] = a]
    BY <1>5 DEF StartContainer, Result
  <2>3. Quiet(j)
    BY <1>0, <2>1, <2>2 DEF Quiet
  <2> QED
    BY <2>3, QuietKeeps
<1> QED
  BY <1>1, <1>2, <1>3, <1>4, <1>5 DEF ActivityStep

\* Every step keeps the invariant of the budget.
LEMMA BudgetStep == BudgetInv /\ [Next]_vars => BudgetInv'
<1> SUFFICES ASSUME BudgetInv, [Next]_vars PROVE BudgetInv'
  OBVIOUS
<1>1. Types'
  BY TypesPreserved DEF BudgetInv
<1>2. CASE UNCHANGED vars
  BY <1>1, <1>2 DEF vars, BudgetInv, BudgetHolds, HoldsLock, StillFits, Running
<1>3. CASE Next
  <2>1. PICK j \in Jobs :
           \/ SubmitReads(j) \/ SubmitCommits(j)
           \/ StartReturns(j) \/ StartRaises(j) \/ ServiceDies(j)
           \/ CancelReads(j) \/ CancelCommits(j)
           \/ WorkflowStep(j) \/ ActivityFails(j) \/ BestEffortFails(j)
           \/ Deadline(j) \/ LateProjection(j)
           \/ ActivityStep(j) \/ LockBusy(j) \/ WorkerDies(j)
           \/ WorkloadExits(j)
    BY <1>3 DEF Next
  <2>2. Types
    BY DEF BudgetInv
  <2>3. BudgetHolds' /\ \A k \in Jobs : HoldsLock(k)' /\ StillFits(k)'
    BY <2>1, <2>2, ServiceQuiet, QuietKeeps, ActivityKeepsBudget
  <2> QED
    BY <1>1, <2>3 DEF BudgetInv
<1> QED
  BY <1>2, <1>3

\* No container runs at first, and none is a sum of nothing.
LEMMA BudgetInitially == Init => BudgetInv
<1> SUFFICES ASSUME Init PROVE BudgetInv
  OBVIOUS
<1>1. Types
  BY TypeInitially
<1>2. Running = {}
  BY DEF Init, Running
<1>3. MemoryOf({}) = 0
  BY MemoryIsCells, NoCells
<1>4. BudgetHolds
  BY <1>2, <1>3, JobAssumption DEF BudgetHolds
<1>5. \A j \in Jobs : op[j] = "idle"
  BY DEF Init
<1> QED
  BY <1>1, <1>4, <1>5 DEF BudgetInv, HoldsLock, StillFits

\* The running containers never hold more memory than the budget, for any
\* number of jobs, any requirements, and whatever starts outlive their
\* workflows, fail, or die with their worker while they hold the lock.
THEOREM BudgetIsKept == Spec => []BudgetHolds
<1>1. BudgetInv => BudgetHolds
  BY DEF BudgetInv
<1> QED
  BY <1>1, BudgetInitially, BudgetStep, PTL DEF Spec
=============================================================================
