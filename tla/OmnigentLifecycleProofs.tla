---------------------- MODULE OmnigentLifecycleProofs ----------------------
(***************************************************************************)
(* The row of an Omnigent session goes through its lifecycle in order when *)
(* there is one attempt at a time: no attempt outlives its timeout and the *)
(* workflow itself is not cancelled. Attempts still die and are retried,   *)
(* messages and snapshots are lost, the session is cancelled, timed out,   *)
(* quarantined and written to by others.                                   *)
(***************************************************************************)
EXTENDS OmnigentDeliveryProofs

-----------------------------------------------------------------------------
(* The order of the cleanup *)

\* Only an attempt that exists takes a step.
LEMMA AttemptExists ==
    ASSUME Types, NEW a \in Who, Attempted(a) \/ Faulted(a)
    PROVE  att[a].act \in Acts
<1>1. att[a].act \in Acts \cup {None}
  BY DEF Types, Control, AttemptStates
<1>2. \/ att[a].act # None
      \/ att[a].act \in Acts
  BY DEF Attempted, Faulted, LosePost, AbandonLease, Claim, Settle, ProfileGeneration, AcquireLease, BindLease,
         HostGeneration, LaunchHost, BindHost, CreateProviderSession, AttachProviderSession,
         PrepareTurn, MarkPosting, PostMessage, MarkPosted, AcceptTurn, RecordTerminal,
         HarvestEvidence, PublishWorkspace, BindPublication, AttachEvidence, StopProvider,
         MarkProviderStopped, StopHost, MarkHostStopped, ReleaseLeases, MarkReleased,
         At, Acts
<1> QED
  BY <1>1, <1>2

\* The steps of the activities of the cleanup.
LEMMA CleanupAttempted ==
    ASSUME NEW a \in Who, Attempted(a) \/ Faulted(a), att[a].act \in CleanupActs
    PROVE  \/ Claim(a) \/ Settle(a)
           \/ StopProvider(a) \/ MarkProviderStopped(a) \/ StopHost(a) \/ MarkHostStopped(a)
           \/ ReleaseLeases(a) \/ MarkReleased(a)
BY DEF Attempted, Faulted, LosePost, AbandonLease, ProfileGeneration, AcquireLease, BindLease,
       HostGeneration, LaunchHost, BindHost, CreateProviderSession, AttachProviderSession,
       PrepareTurn, MarkPosting, PostMessage, MarkPosted, AcceptTurn, RecordTerminal,
       HarvestEvidence, PublishWorkspace, BindPublication, AttachEvidence, At, CleanupActs

\* How the cleanup goes on from one state of the row and of the main attempt to the
\* next.
Ordered(act, at, cleanup, status) ==
    /\ act = "stop_provider" => cleanup = "pending" /\ at \in {"claim", "stop", "mark"}
    /\ act = "stop_host" =>
          \/ cleanup \in {"provider_stopped", "host_stopped"}
          \/ at = "claim" /\ status \notin {"pending", "claimed"}
    /\ act = "release" => cleanup \in {"host_stopped", "leases_released"}

\* There is one attempt. Its activity and the decision about to be recorded fit the
\* state of the cleanup. A stop of the host that finds its command settled does nothing.
CleanupOrder ==
    /\ att.late.act = None
    /\ wf.pc = "decide" =>
          /\ wf.decision.kind = "begin_cleanup" => row.cleanup = "pending"
          /\ wf.decision.kind = "release_leases" => row.cleanup = "host_stopped"
    /\ Ordered(att.main.act, att.main.at, row.cleanup, cmds.cur.status)

\* The end of an activity of the cleanup: the host is stopped after the provider.
LEMMA CleanupReturns ==
    ASSUME Returns("main")
    PROVE  /\ att.main.act = "stop_provider" =>
                 att'.main.act = "stop_host" /\ att'.main.at = "claim"
           /\ att.main.act \in {"stop_host", "release"} => att'.main.act = None
<1>1. /\ NextActivity("stop_provider") = "stop_host"
      /\ NextActivity("stop_host") = None /\ NextActivity("release") = None
  BY NextActivities DEF Acts
<1> QED
  BY <1>1 DEF Returns, Leaves

\* An attempt of the cleanup keeps its order.
LEMMA CleanupKeepsOrder ==
    ASSUME Types, CleanupOrder, Attempted("main") \/ Faulted("main"),
           att.main.act \in CleanupActs, att.main.cmd = "cur"
    PROVE  Ordered(att'.main.act, att'.main.at, row'.cleanup, cmds'.cur.status)
<1>0. /\ Control /\ row \in RowStates /\ "main" \in Who
      /\ {"mark", "settle", "stop", "release"} \subseteq Steps
      /\ {"provider_stopped", "host_stopped", "leases_released"} \subseteq CleanupStates
      /\ None \notin {"stop_provider", "stop_host", "release"}
      /\ Ordered(att.main.act, att.main.at, row.cleanup, cmds.cur.status)
  BY NoneIsNothing DEF Types, Who, Steps, CleanupStates, Acts, CleanupOrder
<1>1. CASE Claim("main")
  <2>1. CASE Conflict("main")
    <3>1. att'.main.act = None
      BY <1>0, <2>1, Moves DEF Drops, Leaves
    <3> QED
      BY <1>0, <3>1 DEF Ordered
  <2>2. CASE /\ Command("main").status \in {"pending", "claimed"}
             /\ Step("main", FirstStep(att.main.act)) /\ row' = row
    <3>1. FirstStep(att.main.act) \in {"stop", "release"}
          /\ (att.main.act = "stop_provider" => FirstStep(att.main.act) = "stop")
      BY DEF FirstStep, CleanupActs
    <3>2. Goes("main", FirstStep(att.main.act))
      BY <1>0, <2>2, <3>1, StepEffect
    <3>3. cmds.cur.status \in {"pending", "claimed"}
      BY <2>2 DEF Command
    <3> QED
      BY <1>0, <2>2, <3>1, <3>2, <3>3 DEF Goes, Ordered
  <2>3. CASE /\ Command("main").status \in {"applied", "failed", "unknown"}
             /\ Return("main") /\ UNCHANGED <<row, cmds>>
    <3>1. Returns("main") /\ cmds'.cur.status \notin {"pending", "claimed"}
      BY <1>0, <2>3, ReturnEffect DEF Command
    <3> QED
      BY <1>0, <3>1, CleanupReturns DEF Ordered, CleanupActs
  <2> QED
    BY <1>1, <2>1, <2>2, <2>3 DEF Claim
<1>2. CASE Settle("main")
  <2>1. Returns("main") /\ att.main.at = "settle"
    BY <1>0, <1>2, ReturnEffect DEF Settle
  <2>2. att.main.act # "stop_provider"
    BY <1>0, <2>1 DEF Ordered
  <2> QED
    BY <1>0, <2>1, <2>2, CleanupReturns DEF Ordered, CleanupActs
<1>3. CASE StopProvider("main") \/ StopHost("main")
  <2>1. /\ Step("main", "mark") /\ UNCHANGED <<row, cmds>>
        /\ att.main.act \in {"stop_provider", "stop_host"} /\ att.main.at = "stop"
    BY <1>3 DEF StopProvider, StopHost, At
  <2>2. Goes("main", "mark")
    BY <1>0, <2>1, StepEffect
  <2> QED
    BY <1>0, <2>1, <2>2 DEF Goes, Ordered
<1>4. CASE MarkProviderStopped("main")
  <2>1. att.main.act = "stop_provider" /\ row.cleanup = "pending"
    BY <1>0, <1>4 DEF MarkProviderStopped, At, Ordered
  <2>2. WriteAndReturn("main", [row EXCEPT !.cleanup = "provider_stopped"])
    BY <1>4, <2>1 DEF MarkProviderStopped
  <2>3. row' = [row EXCEPT !.cleanup = "provider_stopped"] /\ Returns("main")
    BY <1>0, <2>2, WriteAndReturnEffect
  <2>4. row'.cleanup = "provider_stopped"
    BY <1>0, <2>3 DEF RowStates
  <2> QED
    BY <2>1, <2>3, <2>4, CleanupReturns DEF Ordered
<1>5. CASE MarkHostStopped("main") \/ MarkReleased("main")
  <2>1. PICK to \in {"host_stopped", "leases_released"} :
          /\ att.main.act = IF to = "host_stopped" THEN "stop_host" ELSE "release"
          /\ \/ Write("main", [row EXCEPT !.cleanup = to], "settle", FALSE)
             \/ row.cleanup = to /\ Step("main", "settle") /\ row' = row
    BY <1>5 DEF MarkHostStopped, MarkReleased, At
  <2>2. Goes("main", "settle") /\ (row' = [row EXCEPT !.cleanup = to]
                                     \/ (row' = row /\ row.cleanup = to))
    BY <1>0, <2>1, StepEffect, WriteEffect
  <2>3. row'.cleanup = to
    BY <1>0, <2>2 DEF RowStates
  <2> QED
    BY <2>1, <2>2, <2>3 DEF Goes, Ordered
<1>6. CASE ReleaseLeases("main")
  <2>1. /\ att.main.act = "release" /\ UNCHANGED <<row, cmds>>
        /\ Step("main", "mark") \/ Error("main")
    BY <1>6 DEF ReleaseLeases, At
  <2>2. Goes("main", "mark") \/ Retries("main")
    BY <1>0, <2>1, StepEffect, ErrorEffect
  <2>3. att'.main.act \in {"release", None}
    BY <2>1, <2>2 DEF Goes, Retries, Leaves
  <2> QED
    BY <1>0, <2>1, <2>3 DEF Ordered
<1> QED
  BY <1>0, <1>1, <1>2, <1>3, <1>4, <1>5, <1>6, CleanupAttempted

\* Any other attempt is not of the cleanup, and does not become one.
LEMMA OthersKeepOrder ==
    ASSUME Types, att.main.act \notin CleanupActs, Summary("main")
    PROVE  Ordered(att'.main.act, att'.main.at, row'.cleanup, cmds'.cur.status)
<1>0. /\ SomeMove("main") /\ "main" \in Who /\ att.main.act \in Acts \cup {None}
      /\ None \notin CleanupActs
  BY NoneIsNothing DEF Summary, Moved, Who, Types, Control, AttemptStates, CleanupActs, Acts
<1>1. NextActivity(att.main.act) \notin CleanupActs
  BY <1>0, NextActivities DEF CleanupActs
<1>2. att'.main.act \notin CleanupActs
  BY <1>0, <1>1 DEF SomeMove, Goes, Returns, Retries, Drops, Leaves
<1> QED
  BY <1>2 DEF Ordered, CleanupActs

\* A step of an attempt keeps the order of the cleanup.
LEMMA AttemptKeepsOrder ==
    ASSUME Sound, CleanupOrder, NEW a \in Who, Attempted(a) \/ Faulted(a), Summary(a)
    PROVE  CleanupOrder'
<1>0. /\ Types /\ att.main.cmd = "cur" /\ (att.main.act # None => wf.pc = "activity")
      /\ Who = {"main", "late"}
  BY DEF Sound, AttemptsSound, WorkflowSound, Who
<1>1. a = "main"
  BY <1>0, AttemptExists, NoneIsNothing DEF CleanupOrder
<1>2. wf.pc = "activity"
  BY <1>0, <1>1, AttemptExists, NoneIsNothing
<1>3. att'.late.act = None
  BY <1>0, <1>1 DEF Summary, Moved, Framed, Others, CleanupOrder
<1>4. wf'.pc # "decide"
  BY <1>1, <1>2 DEF Summary, Moved, SomeMove, Goes, Returns, Retries, Drops, Leaves
<1>5. Ordered(att'.main.act, att'.main.at, row'.cleanup, cmds'.cur.status)
  BY <1>0, <1>1, CleanupKeepsOrder, OthersKeepOrder
<1> QED
  BY <1>3, <1>4, <1>5 DEF CleanupOrder

\* So does every other step.
LEMMA ElsewhereKeepsOrder ==
    ASSUME "overlap" \notin Behaviours, "workflow_cancel" \notin Behaviours,
           Sound, CleanupOrder, Kept, Elsewhere
    PROVE  CleanupOrder'
<1>0. /\ Types /\ Existing /\ Control /\ "cur" \in Slots /\ "main" \in Who /\ "late" \in Who
      /\ att.main.act # None => wf.pc = "activity"
      /\ None \notin {"stop_provider", "stop_host", "release"}
      /\ Ordered(att.main.act, att.main.at, row.cleanup, cmds.cur.status)
      /\ row \in RowStates
  BY NoneIsNothing DEF Sound, Types, WorkflowSound, Slots, Who, Acts, CleanupOrder
<1>1. CASE Quiet
  <2>1. /\ row' = [row EXCEPT !.quarantined = row'.quarantined] /\ SameAttempts
        /\ wf'.decision = wf.decision /\ cmds'.cur.status = cmds.cur.status
        /\ wf'.pc = "decide" => wf.pc = "decide"
    BY <1>0, <1>1 DEF Quiet
  <2>2. row'.cleanup = row.cleanup
    BY <1>0, <2>1 DEF RowStates
  <2>3. /\ att'.main.act = att.main.act /\ att'.main.at = att.main.at
        /\ att'.late.act = att.late.act
    BY <1>0, <2>1 DEF SameAttempts
  <2> QED
    BY <1>0, <2>1, <2>2, <2>3 DEF CleanupOrder
<1>2. CASE Load
  <2>1. /\ wf.pc = "load" /\ Founded(wf'.decision) /\ UNCHANGED <<row, obs, cmds, att, world>>
    BY <1>0, <1>2, LoadEffect
  <2> QED
    BY <1>0, <2>1 DEF CleanupOrder, Founded
<1>3. CASE PersistDecision
  <2>1. /\ wf.pc = "decide" /\ UNCHANGED <<row, obs, world>>
        /\ \/ /\ UNCHANGED <<cmds, att>>
              /\ wf'.pc \in {"load", "failure", "quarantine", "closed", "observe"}
           \/ /\ wf'.pc = "activity" /\ wf.decision.kind \in CommandKinds
              /\ Recorded(wf.decision)
              /\ att'.main = Attempt(FirstActivity(wf.decision.kind))
              /\ FirstActivity(wf.decision.kind) \in Acts
    BY <1>0, <1>3, PersistDecisionEffect
  <2>2. CASE UNCHANGED <<cmds, att>>
    BY <1>0, <2>1, <2>2 DEF CleanupOrder
  <2>3. CASE /\ wf'.pc = "activity" /\ wf.decision.kind \in CommandKinds
             /\ Recorded(wf.decision)
             /\ att'.main = Attempt(FirstActivity(wf.decision.kind))
             /\ FirstActivity(wf.decision.kind) \in Acts
    <3>1. att'.main.act = FirstActivity(wf.decision.kind) /\ att'.main.at = "claim"
      BY <2>3, FreshAttempts
    <3>2. att'.late.act = None
      BY <2>3 DEF Recorded, CleanupOrder
    <3>3. Ordered(att'.main.act, att'.main.at, row'.cleanup, cmds'.cur.status)
      BY <2>1, <2>3, <3>1, FirstActivities DEF Ordered, CleanupOrder
    <3> QED
      BY <2>3, <3>2, <3>3 DEF CleanupOrder
  <2> QED
    BY <2>1, <2>2, <2>3
<1>4. CASE SignalsPersisted \/ Observe \/ ObserveUnavailable \/ PersistFailure
  <2>1. SameAttempts /\ wf'.pc # "decide" /\ wf.pc # "activity"
    <3>1. CASE SignalsPersisted
      BY <1>0, <3>1, PersistSignalsEffect DEF SignalsPersisted
    <3>2. CASE Observe \/ ObserveUnavailable
      BY <1>0, <3>2, ObserveEffect
    <3>3. CASE PersistFailure
      BY <1>0, <3>3, PersistFailureEffect
    <3> QED
      BY <1>4, <3>1, <3>2, <3>3
  <2>2. att'.main.act = None /\ att'.late.act = None
    BY <1>0, <2>1 DEF SameAttempts, CleanupOrder
  <2>3. Ordered(att'.main.act, att'.main.at, row'.cleanup, cmds'.cur.status)
    BY <1>0, <2>2 DEF Ordered
  <2> QED
    BY <2>1, <2>2, <2>3 DEF CleanupOrder
<1>5. CASE Die \/ Overlap
  <2>1. /\ row' = row /\ cmds' = cmds /\ SameSupervision
        /\ \/ att.main.act # None /\ Retries("main") /\ att'.late = att.late
           \/ att'.main = att.main /\ wf' = wf /\ att'.late = NoAttempt
    BY <1>0, <1>5, DieEffect
  <2>2. att'.late.act = None
    BY <2>1, FreshAttempts DEF CleanupOrder
  <2>3. CASE att.main.act # None /\ Retries("main")
    <3>1. /\ att'.main.act \in {att.main.act, None} /\ att'.main.at = "claim"
          /\ wf'.pc # "decide"
      BY <1>0, <2>3 DEF Retries, Leaves
    <3>2. Ordered(att'.main.act, att'.main.at, row'.cleanup, cmds'.cur.status)
      BY <1>0, <2>1, <3>1 DEF Ordered
    <3> QED
      BY <2>2, <3>1, <3>2 DEF CleanupOrder
  <2>4. CASE att'.main = att.main /\ wf' = wf
    BY <2>1, <2>2, <2>4 DEF CleanupOrder
  <2> QED
    BY <2>1, <2>3, <2>4
<1>6. CASE CancelWorkflow
  BY <1>0, <1>6, CancelWorkflowEffect
<1>7. CASE ProviderEnds
  BY <1>0, <1>7, ProviderEffect DEF CleanupOrder
<1> QED
  BY <1>1, <1>2, <1>3, <1>4, <1>5, <1>6, <1>7 DEF Elsewhere

\* Every step of one attempt at a time keeps the order of the cleanup.
LEMMA StepKeepsOrder ==
    ASSUME "overlap" \notin Behaviours, "workflow_cancel" \notin Behaviours,
           Sound, CleanupOrder, [Next]_vars
    PROVE  CleanupOrder'
<1>1. Kept /\ Types /\ Existing
  BY StepSound DEF Sound
<1> QED
  BY <1>1, StepKinds, AttemptKeepsOrder, ElsewhereKeepsOrder DEF Elsewhere

\* It holds at first.
LEMMA InitOrder ==
    ASSUME Init
    PROVE  CleanupOrder
<1>1. \A a \in Who : att[a].act = None
  BY FreshAttempts DEF Init
<1>2. None \notin {"stop_provider", "stop_host", "release"}
  BY NoneIsNothing DEF Acts
<1> QED
  BY <1>1, <1>2 DEF Init, CleanupOrder, Ordered, Who

-----------------------------------------------------------------------------
(* The row implements its lifecycle *)

lifecycle == <<row.terminal, row.evidence, row.cleanup>>

\* What a step of an attempt does to the three fields is a step of the lifecycle.
LEMMA AttemptImplements ==
    ASSUME Sound, CleanupOrder, Kept, NEW a \in Who, Attempted(a) \/ Faulted(a), Summary(a)
    PROVE  [Lifecycle!Next]_lifecycle
<1>0. /\ Types /\ att[a] \in AttemptStates /\ att[a].cmd \in Slots /\ row \in RowStates
      /\ Carries(att[a].act, cmds[att[a].cmd].kind)
      /\ Backed(cmds[att[a].cmd].kind, cmds[att[a].cmd].outcome, provider, row)
      /\ RowBy(a) /\ Later(row, row') /\ row' \in RowStates
      /\ Who = {"main", "late"}
  BY DEF Sound, Types, Control, AttemptStates, AttemptsSound, CommandsSound, Summary, Moved,
         Kept, Lasting, Who
<1>1. a = "main"
  BY <1>0, AttemptExists, NoneIsNothing DEF CleanupOrder
<1>2. CASE row'.terminal # row.terminal
  <2>1. /\ At(a, "record_terminal", "mark") /\ row.terminal = None
        /\ row'.terminal \in TerminalStates
    BY <1>0, <1>2, TerminalType DEF RowBy
  <2>2. row'.cleanup = row.cleanup /\ row'.evidence \in BOOLEAN
    BY <1>0, <2>1 DEF RowBy, At, RowStates
  <2> QED
    BY <2>1, <2>2 DEF Lifecycle!Next, Lifecycle!End
<1>3. CASE row'.terminal = row.terminal /\ row'.evidence # row.evidence
  <2>1. At(a, "publish", "attach")
    BY <1>0, <1>3 DEF RowBy
  <2>2. row.terminal # None /\ row'.cleanup = row.cleanup
    BY <1>0, <2>1 DEF RowBy, At, Carries, Backed
  <2>3. ~row.evidence /\ row'.evidence = TRUE
    BY <1>0, <1>3 DEF RowStates, Later
  <2> QED
    BY <1>3, <2>2, <2>3 DEF Lifecycle!Next, Lifecycle!AttachEvidence
<1>4. CASE /\ row'.terminal = row.terminal /\ row'.evidence = row.evidence
           /\ row'.cleanup # row.cleanup
  <2>1. \/ /\ At(a, "stop_provider", "mark")
           /\ row.cleanup = "pending" /\ row'.cleanup = "provider_stopped"
        \/ At(a, "stop_host", "mark") /\ row'.cleanup = "host_stopped"
        \/ At(a, "release", "mark") /\ row'.cleanup = "leases_released"
    BY <1>0, <1>4 DEF RowBy
  <2>2. row.terminal # None /\ row.evidence
    BY <1>0, <2>1 DEF At, Carries, Backed
  <2>3. /\ At(a, "stop_host", "mark") => row.cleanup \in {"provider_stopped", "host_stopped"}
        /\ At(a, "release", "mark") => row.cleanup \in {"host_stopped", "leases_released"}
    BY <1>1 DEF CleanupOrder, Ordered, At
  <2>4. \/ Lifecycle!Clean("pending", "provider_stopped")
        \/ Lifecycle!Clean("provider_stopped", "host_stopped")
        \/ Lifecycle!Clean("host_stopped", "leases_released")
    BY <1>4, <2>1, <2>2, <2>3 DEF Lifecycle!Clean, At
  <2> QED
    BY <2>4 DEF Lifecycle!Next
<1>5. CASE /\ row'.terminal = row.terminal /\ row'.evidence = row.evidence
           /\ row'.cleanup = row.cleanup
  BY <1>5 DEF lifecycle
<1> QED
  BY <1>2, <1>3, <1>4, <1>5

\* The record of a failure ends the session, brings its evidence or hands it over.
LEMMA FailureImplements ==
    ASSUME Sound, PersistFailure
    PROVE  [Lifecycle!Next]_lifecycle
<1>0. /\ FailureRecorded /\ row \in RowStates /\ Types
  BY PersistFailureEffect DEF Sound, Types
<1> DEFINE status == IF FailedCommand = "unknown" THEN "delivery_unknown" ELSE FailureStatus
<1>1. status \in Failures \cup {"cleanup_incomplete"}
  BY <1>0, FailureStatuses DEF Failures
<1>2. row' = row \/ row' = WithFailure(status)
  BY <1>0 DEF FailureRecorded
<1> HIDE DEF status
<1>3. CASE row' = row
  BY <1>3 DEF lifecycle
<1>4. CASE row' = WithFailure(status)
  <2>1. \/ row' = [row EXCEPT !.cleanup = "cleanup_incomplete", !.handoff = TRUE]
        \/ /\ status # "cleanup_incomplete"
           /\ row'.terminal \in {row.terminal, status} \ {None}
           /\ row'.evidence /\ row'.cleanup = row.cleanup
    BY <1>0, <1>1, <1>4, FailureRows
  <2>2. row' \in RowStates /\ Later(row, row')
    BY <1>0, <1>1, <1>4, FailureRows
  <2>3. CASE row' = [row EXCEPT !.cleanup = "cleanup_incomplete", !.handoff = TRUE]
    <3>1. /\ row'.terminal = row.terminal /\ row'.evidence = row.evidence
          /\ row'.cleanup = "cleanup_incomplete"
      BY <1>0, <2>3 DEF RowStates
    <3> QED
      BY <3>1 DEF lifecycle, Lifecycle!Next, Lifecycle!HandOff
  <2>4. CASE /\ status # "cleanup_incomplete"
             /\ row'.terminal \in {row.terminal, status} \ {None}
             /\ row'.evidence /\ row'.cleanup = row.cleanup
    <3>1. row'.evidence = TRUE /\ row.evidence \in BOOLEAN
      BY <1>0, <2>2, <2>4 DEF RowStates
    <3>2. CASE row.terminal = None
      <4>1. row'.terminal \in TerminalStates
        BY <1>1, <2>4, <3>2 DEF TerminalStates
      <4> QED
        BY <2>4, <3>1, <3>2, <4>1 DEF Lifecycle!Next, Lifecycle!End
    <3>3. CASE row.terminal # None
      <4>1. row'.terminal = row.terminal
        BY <2>2, <3>3 DEF Later
      <4> QED
        BY <2>4, <3>1, <3>3, <4>1 DEF lifecycle, Lifecycle!Next, Lifecycle!AttachEvidence
    <3> QED
      BY <3>2, <3>3
  <2> QED
    BY <2>1, <2>3, <2>4
<1> QED
  BY <1>2, <1>3, <1>4

\* Every other step leaves the three fields alone.
LEMMA OthersImplement ==
    ASSUME Sound, Elsewhere, ~PersistFailure
    PROVE  UNCHANGED lifecycle
<1>0. Types /\ Existing /\ row \in RowStates
  BY DEF Sound, Types
<1>1. CASE row' = row
  BY <1>1 DEF lifecycle
<1>2. CASE Quiet
  <2>1. row' = [row EXCEPT !.quarantined = row'.quarantined]
    BY <1>2 DEF Quiet
  <2> QED
    BY <1>0, <2>1 DEF RowStates, lifecycle
<1>3. CASE SignalsPersisted
  <2>1. PICK signals \in Seq(Signals) : PersistSignals(signals)
    BY <1>3 DEF SignalsPersisted
  <2>2. row' = row \/ row' = Wanted(signals)
    BY <1>0, <2>1, PersistSignalsEffect
  <2>3. CASE row' = Wanted(signals)
    <3>1. row' = [row EXCEPT !.desired = row'.desired, !.continued = row'.continued]
      BY <1>0, <2>3, WantedEffect
    <3> QED
      BY <1>0, <3>1 DEF RowStates, lifecycle
  <2> QED
    BY <1>1, <2>2, <2>3
<1>4. CASE Load
  BY <1>0, <1>1, <1>4, LoadEffect
<1>5. CASE PersistDecision
  BY <1>0, <1>1, <1>5, PersistDecisionEffect
<1>6. CASE Observe \/ ObserveUnavailable
  BY <1>0, <1>1, <1>6, ObserveEffect
<1>7. CASE Die \/ Overlap
  BY <1>0, <1>1, <1>7, DieEffect
<1>8. CASE CancelWorkflow
  BY <1>0, <1>1, <1>8, CancelWorkflowEffect
<1>9. CASE ProviderEnds
  BY <1>0, <1>1, <1>9, ProviderEffect
<1> QED
  BY <1>2, <1>3, <1>4, <1>5, <1>6, <1>7, <1>8, <1>9 DEF Elsewhere

\* The canonical row implements the lifecycle its readers rely on: one outcome, its
\* evidence, then the cleanup in its order (the writers of OmnigentSession rows), when
\* no attempt outlives its timeout and the workflow is not cancelled.
THEOREM RowImplementsLifecycle ==
    ASSUME "overlap" \notin Behaviours, "workflow_cancel" \notin Behaviours
    PROVE  Spec => ImplementsLifecycle
<1>1. Init => Sound /\ CleanupOrder
  BY InitSound, InitOrder
<1>2. Sound /\ CleanupOrder /\ [Next]_vars => Sound' /\ CleanupOrder'
  BY StepSound, StepKeepsOrder
<1>3. Init => Lifecycle!Init
  BY DEF Init, Lifecycle!Init
<1>4. Sound /\ CleanupOrder /\ [Next]_vars => [Lifecycle!Next]_lifecycle
  <2> SUFFICES ASSUME Sound, CleanupOrder, [Next]_vars
               PROVE  [Lifecycle!Next]_lifecycle
    OBVIOUS
  <2>1. Kept /\ Types /\ Existing
    BY StepSound DEF Sound
  <2>2. CASE \E a \in Who : (Attempted(a) \/ Faulted(a)) /\ Summary(a)
    BY <2>1, <2>2, AttemptImplements
  <2>3. CASE PersistFailure
    BY <2>3, FailureImplements
  <2>4. CASE Elsewhere /\ ~PersistFailure
    BY <2>4, OthersImplement
  <2> QED
    BY <2>1, <2>2, <2>3, <2>4, StepKinds DEF Elsewhere
<1>5. Spec => Lifecycle!Init /\ [][Lifecycle!Next]_lifecycle
  BY <1>1, <1>2, <1>3, <1>4, PTL DEF Spec
<1> QED
  BY <1>5 DEF ImplementsLifecycle, Lifecycle!Spec, lifecycle

-----------------------------------------------------------------------------
(* The phase of the session *)

\* The phase that a row shows to its readers.
Phase(r) ==
    IF r.terminal = None
    THEN IF ~r.continued /\ ~r.ambiguous /\ r.turn = "accepted" THEN 4
         ELSE IF r.attached THEN 3
         ELSE IF r.host /\ r.cleanup # "leases_released" THEN 2
         ELSE IF r.profile /\ r.cleanup # "leases_released" THEN 1
         ELSE 0
    ELSE IF \/ r.cleanup = "leases_released"
            \/ r.cleanup = "host_stopped" /\ ~r.profile /\ ~r.host
    THEN 9
    ELSE IF r.cleanup # "pending" THEN 7
    ELSE IF r.evidence THEN 6
    ELSE 5

\* What the durable state d shows of the row r.
Shows(d, r) ==
    /\ d.outcome = None <=> r.terminal = None
    /\ d.submission = "accepted" <=> ~r.continued /\ ~r.ambiguous /\ r.turn = "accepted"
    /\ d.attached = r.attached /\ d.evidence = r.evidence
    /\ d.profile = (r.profile /\ r.cleanup # "leases_released")
    /\ d.host = (r.host /\ r.cleanup # "leases_released")
    /\ d.started = (r.cleanup # "pending")
    /\ d.complete = (r.cleanup \in {"host_stopped", "leases_released"})

\* The phase is the phase of the durable state.
LEMMA ShownPhase ==
    ASSUME NEW d, NEW r, Shows(d, r)
    PROVE  CurrentPhase(d) = Phase(r)
BY DEF CurrentPhase, LeasesHeld, Phase, Shows

\* The phase before and after a step.
LEMMA PhaseOfRow ==
    /\ row \in RowStates => CurrentPhase(Durable) = Phase(row)
    /\ row' \in RowStates => CurrentPhase(Durable)' = Phase(row')
<1>1. row \in RowStates => Shows(Durable, row)
  <2> SUFFICES ASSUME row \in RowStates PROVE Shows(Durable, row)
    OBVIOUS
  <2>1. Durable.outcome = None <=> row.terminal = None
    BY DurableOutcomes DEF Durable, RowStates
  <2> QED
    BY <2>1 DEF Durable, Shows, RowStates
<1>2. row' \in RowStates => Shows(Durable', row')
  <2> SUFFICES ASSUME row' \in RowStates PROVE Shows(Durable', row')
    OBVIOUS
  <2>1. Durable'.outcome = None <=> row'.terminal = None
    BY DurableOutcomes DEF Durable, RowStates
  <2> QED
    BY <2>1 DEF Durable, Shows, RowStates
<1>3. CurrentPhase(Durable)' = CurrentPhase(Durable')
  BY DEF CurrentPhase, LeasesHeld
<1> QED
  BY <1>1, <1>2, <1>3, ShownPhase

\* What a row keeps on the way to the next one, before and after its terminal.
Onward(r, s) ==
    /\ s.terminal = None =>
          /\ r.cleanup = "pending" /\ s.cleanup = "pending"
          /\ r.profile => s.profile
          /\ r.host => s.host
          /\ r.turn = "accepted" /\ ~r.ambiguous => s.turn = "accepted" /\ ~s.ambiguous
          /\ s.continued = r.continued
    /\ r.terminal # None =>
          /\ s.profile = r.profile /\ s.host = r.host
          /\ \/ s.cleanup = r.cleanup
             \/ r.cleanup = "pending" /\ s.cleanup = "provider_stopped"
             \/ r.cleanup = "provider_stopped" /\ s.cleanup = "host_stopped"
             \/ r.cleanup = "host_stopped" /\ s.cleanup = "leases_released"

\* Then its phase does not go back.
LEMMA OnwardPhases ==
    ASSUME NEW r \in RowStates, NEW s \in RowStates, Later(r, s), Onward(r, s)
    PROVE  Phase(s) >= Phase(r)
<1>1. CASE s.terminal = None
  BY <1>1 DEF Phase, Later, Onward, RowStates
<1>2. CASE s.terminal # None /\ r.terminal = None
  BY <1>2 DEF Phase
<1>3. CASE r.terminal # None
  BY <1>3 DEF Phase, Later, Onward, RowStates
<1> QED
  BY <1>1, <1>2, <1>3

\* The invariant behind the phases, where no continuation is asked for. The activities
\* that set the session up run before its terminal, the turn on record as accepted is
\* marked as posted, and there is no evidence before the terminal.
PhaseOrder ==
    /\ att.main.act \in Early => row.terminal = None
    /\ wf.pc = "decide" /\ wf.decision.kind \in EarlyKinds => row.terminal = None
    /\ row.turn = "accepted" => bridge = "posted"
    /\ At("main", "submit_turn", "accept") => bridge = "posted"
    /\ row.evidence => row.terminal # None
    /\ \A i \in DOMAIN wf.pending : wf.pending[i] # "continuation"

\* A step of the attempt keeps the invariant and brings the row onward.
LEMMA AttemptPhases ==
    ASSUME Single, CleanupOrder, PhaseOrder, Kept, CleanupOrder',
           NEW a \in Who, Attempted(a) \/ Faulted(a), Summary(a)
    PROVE  PhaseOrder' /\ Onward(row, row')
<1>0. /\ Types /\ row \in RowStates /\ row' \in RowStates /\ Later(row, row')
      /\ RowBy(a) /\ WorldBy(a) /\ PlaceBy(a) /\ SomeMove(a) /\ SameSupervision
      /\ Submission /\ RowSound
      /\ att.main.act \in Acts \cup {None} /\ Who = {"main", "late"}
      /\ Carries(att[a].act, cmds[att[a].cmd].kind)
      /\ Backed(cmds[att[a].cmd].kind, cmds[att[a].cmd].outcome, provider, row)
      /\ att.main.act # None => wf.pc = "activity"
  BY DEF Single, Sound, Types, Control, AttemptStates, AttemptsSound, CommandsSound,
         WorkflowSound, Summary, Moved, Framed, Kept, Lasting, Who
<1>1. a = "main"
  BY <1>0, AttemptExists, NoneIsNothing DEF CleanupOrder
<1>2. wf.pc = "activity"
  BY <1>0, <1>1, AttemptExists, NoneIsNothing
<1>3. att'.main.act \in Early => att.main.act \in Early
  BY <1>0, <1>1, EarlyIsFirst DEF SomeMove, Goes, Returns, Retries, Drops, Leaves
<1>4. row'.terminal # row.terminal => att.main.act = "record_terminal"
  BY <1>0, <1>1 DEF RowBy, At
<1>5. att'.main.act \in Early => row'.terminal = None
  <2>1. att.main.act = "record_terminal" => att'.main.act \notin Early
    BY <1>3 DEF Early
  <2> QED
    BY <1>3, <1>4, <2>1 DEF PhaseOrder
<1>6. wf'.pc # "decide"
  BY <1>1, <1>2, <1>0 DEF SomeMove, Goes, Returns, Retries, Drops, Leaves
<1>7. bridge = "posted" => bridge' = "posted"
  BY <1>0, <1>1 DEF WorldBy, Submission, At
<1>8. row'.turn = "accepted" => bridge' = "posted"
  BY <1>0, <1>1, <1>7 DEF RowBy, PhaseOrder
<1>9. At("main", "submit_turn", "accept")' => bridge' = "posted"
  BY <1>0, <1>1 DEF PlaceBy
<1>10. row'.evidence => row'.terminal # None
  BY <1>0 DEF RowBy, At, Carries, Backed, Later, PhaseOrder
<1>11. \A i \in DOMAIN wf'.pending : wf'.pending[i] # "continuation"
  BY <1>0 DEF SameSupervision, PhaseOrder
<1>12. PhaseOrder'
  BY <1>5, <1>6, <1>8, <1>9, <1>10, <1>11 DEF PhaseOrder
<1>13. ASSUME row'.terminal = None
       PROVE  /\ row.cleanup = "pending" /\ row'.cleanup = "pending"
              /\ row.profile => row'.profile
              /\ row.host => row'.host
              /\ row.turn = "accepted" /\ ~row.ambiguous =>
                    row'.turn = "accepted" /\ ~row'.ambiguous
              /\ row'.continued = row.continued
  <2>1. row.terminal = None
    BY <1>0, <1>13 DEF Later
  <2>2. ~row.evidence /\ row.cleanup = "pending"
    BY <1>0, <2>1 DEF PhaseOrder, RowSound
  <2>3. row'.cleanup = "pending"
    BY <1>0, <2>1, <2>2 DEF RowBy, At, Carries, Backed
  <2>4. (row.profile => row'.profile) /\ (row.host => row'.host)
    BY <1>0 DEF RowBy
  <2>5. row.turn = "accepted" => row'.turn = "accepted"
    BY <1>0 DEF RowBy
  <2>6. row.turn = "accepted" /\ row'.ambiguous => row.ambiguous
    BY <1>0, <1>1 DEF RowBy, PhaseOrder, Submission, At
  <2>7. row'.continued = row.continued
    BY <1>0 DEF RowBy
  <2> QED
    BY <2>2, <2>3, <2>4, <2>5, <2>6, <2>7
<1>14. ASSUME row.terminal # None
       PROVE  /\ row'.profile = row.profile /\ row'.host = row.host
              /\ \/ row'.cleanup = row.cleanup
                 \/ row.cleanup = "pending" /\ row'.cleanup = "provider_stopped"
                 \/ row.cleanup = "provider_stopped" /\ row'.cleanup = "host_stopped"
                 \/ row.cleanup = "host_stopped" /\ row'.cleanup = "leases_released"
  <2>1. att.main.act \notin Early
    BY <1>14 DEF PhaseOrder
  <2>2. row'.profile = row.profile /\ row'.host = row.host
    BY <1>0, <1>1, <2>1 DEF RowBy, At, Early
  <2>3. /\ At(a, "stop_host", "mark") => row.cleanup \in {"provider_stopped", "host_stopped"}
        /\ At(a, "release", "mark") => row.cleanup \in {"host_stopped", "leases_released"}
    BY <1>1 DEF CleanupOrder, Ordered, At
  <2> QED
    BY <1>0, <2>2, <2>3 DEF RowBy
<1> QED
  BY <1>12, <1>13, <1>14 DEF Onward

\* The fields of the row after a step that is not an attempt's.
LEMMA ElsewhereRow ==
    ASSUME Sound, Elsewhere
    PROVE  /\ row'.terminal # row.terminal \/ row'.evidence # row.evidence => PersistFailure
           /\ row'.evidence => row.evidence \/ row'.terminal # None
<1>0. Types /\ row \in RowStates
  BY DEF Sound, Types
<1>1. CASE PersistFailure
  <2>1. FailureRecorded
    BY <1>0, <1>1, PersistFailureEffect
  <2> DEFINE status == IF FailedCommand = "unknown" THEN "delivery_unknown"
                       ELSE FailureStatus
  <2>2. status \in Failures \cup {"cleanup_incomplete"}
    BY <1>0, FailureStatuses DEF Failures
  <2>3. row' = row \/ row' = WithFailure(status)
    BY <2>1 DEF FailureRecorded
  <2> HIDE DEF status
  <2>4. \/ row' = row
        \/ row' = [row EXCEPT !.cleanup = "cleanup_incomplete", !.handoff = TRUE]
        \/ row'.terminal # None
    BY <1>0, <2>2, <2>3, FailureRows
  <2>5. row'.evidence => row.evidence \/ row'.terminal # None
    BY <1>0, <2>4 DEF RowStates
  <2> QED
    BY <1>1, <2>5
<1>2. CASE ~PersistFailure
  BY <1>2, OthersImplement DEF lifecycle
<1> QED
  BY <1>1, <1>2

\* No continuation becomes pending.
LEMMA ElsewhereSignals ==
    ASSUME "workflow_cancel" \notin Behaviours, "continuation" \notin Behaviours,
           Sound, PhaseOrder, Elsewhere
    PROVE  \A i \in DOMAIN wf'.pending : wf'.pending[i] # "continuation"
<1>0. Types /\ Existing /\ (\A i \in DOMAIN wf.pending : wf.pending[i] # "continuation")
  BY DEF Sound, PhaseOrder
<1>1. CASE wf'.pending = wf.pending
  BY <1>0, <1>1
<1>2. CASE Quiet
  BY <1>0, <1>2 DEF Quiet
<1>3. CASE SignalsPersisted
  <2>1. PICK signals \in Seq(Signals) :
          /\ PersistSignals(signals)
          /\ \A i \in DOMAIN signals : \/ signals[i] = "timeout"
                                       \/ \E k \in DOMAIN wf.pending : wf.pending[k] = signals[i]
    BY <1>3 DEF SignalsPersisted
  <2>2. wf'.pending = <<>> \/ wf'.pending = signals
    BY <1>0, <2>1, PersistSignalsEffect
  <2>3. \A i \in DOMAIN signals : signals[i] # "continuation"
    BY <1>0, <2>1
  <2> QED
    BY <2>2, <2>3
<1>4. CASE Load
  BY <1>0, <1>1, <1>4, LoadEffect
<1>5. CASE PersistDecision
  BY <1>0, <1>1, <1>5, PersistDecisionEffect
<1>6. CASE Observe \/ ObserveUnavailable
  BY <1>0, <1>1, <1>6, ObserveEffect
<1>7. CASE PersistFailure
  BY <1>0, <1>1, <1>7, PersistFailureEffect
<1>8. CASE Die \/ Overlap
  BY <1>0, <1>1, <1>8, DieEffect DEF SameSupervision
<1>9. CASE CancelWorkflow
  BY <1>0, <1>9, CancelWorkflowEffect
<1>10. CASE ProviderEnds
  BY <1>0, <1>1, <1>10, ProviderEffect
<1> QED
  BY <1>2, <1>3, <1>4, <1>5, <1>6, <1>7, <1>8, <1>9, <1>10 DEF Elsewhere

\* The activities that set the session up still run before its terminal.
LEMMA ElsewhereEarly ==
    ASSUME "overlap" \notin Behaviours, "workflow_cancel" \notin Behaviours,
           Sound, CleanupOrder, PhaseOrder, Kept, Elsewhere
    PROVE  /\ att'.main.act \in Early => row'.terminal = None
           /\ wf'.pc = "decide" /\ wf'.decision.kind \in EarlyKinds => row'.terminal = None
<1>0. /\ Types /\ Existing /\ "main" \in Who
      /\ att.main.act # None => wf.pc = "activity"
      /\ row'.terminal # row.terminal => PersistFailure
      /\ None \notin Early
      /\ att.main.act \in Early => row.terminal = None
      /\ wf.pc = "decide" /\ wf.decision.kind \in EarlyKinds => row.terminal = None
  BY ElsewhereRow, EarlyIsFirst DEF Sound, WorkflowSound, PhaseOrder, Who
<1>1. CASE PersistFailure
  <2>1. /\ SameAttempts /\ wf'.pc # "decide" /\ wf.pc \in {"persist_failure", "quarantine"}
    BY <1>0, <1>1, PersistFailureEffect
  <2>2. att'.main.act = None
    BY <1>0, <2>1 DEF SameAttempts
  <2> QED
    BY <1>0, <2>1, <2>2
<1>2. CASE Load
  <2>1. Founded(wf'.decision) /\ UNCHANGED <<row, obs, cmds, att, world>>
    BY <1>0, <1>2, LoadEffect
  <2> QED
    BY <1>0, <2>1 DEF Founded
<1>3. CASE PersistDecision
  <2>1. /\ wf.pc = "decide" /\ row' = row
        /\ \/ att' = att /\ wf'.pc # "decide"
           \/ /\ wf'.pc = "activity" /\ wf.decision.kind \in CommandKinds
              /\ att'.main = Attempt(FirstActivity(wf.decision.kind))
              /\ FirstActivity(wf.decision.kind) \in Acts
    BY <1>0, <1>3, PersistDecisionEffect
  <2>2. CASE att' = att /\ wf'.pc # "decide"
    BY <1>0, <2>1, <2>2
  <2>3. CASE /\ wf'.pc = "activity" /\ wf.decision.kind \in CommandKinds
             /\ att'.main = Attempt(FirstActivity(wf.decision.kind))
             /\ FirstActivity(wf.decision.kind) \in Acts
    <3>1. att'.main.act = FirstActivity(wf.decision.kind)
      BY <2>3, FreshAttempts
    <3> QED
      BY <1>0, <2>1, <2>3, <3>1, EarlyIsFirst
  <2> QED
    BY <2>1, <2>2, <2>3
<1>4. CASE ~PersistFailure /\ (Die \/ Overlap)
  <2>1. /\ wf'.decision = wf.decision
        /\ \/ att.main.act # None /\ Retries("main")
           \/ att'.main = att.main /\ wf' = wf
    BY <1>0, <1>4, DieEffect DEF SameSupervision
  <2>2. /\ att'.main.act \in {att.main.act, None}
        /\ wf'.pc = "decide" => wf.pc = "decide"
    BY <1>0, <2>1 DEF Retries, Leaves
  <2> QED
    BY <1>0, <1>4, <2>1, <2>2
<1>5. CASE /\ ~PersistFailure
           /\ Quiet \/ SignalsPersisted \/ Observe \/ ObserveUnavailable
  <2>1. /\ SameAttempts /\ wf'.decision = wf.decision
        /\ wf'.pc = "decide" => wf.pc = "decide"
    <3>1. CASE Quiet
      BY <3>1 DEF Quiet
    <3>2. CASE SignalsPersisted
      BY <1>0, <3>2, PersistSignalsEffect DEF SignalsPersisted
    <3>3. CASE Observe \/ ObserveUnavailable
      BY <1>0, <3>3, ObserveEffect
    <3> QED
      BY <1>5, <3>1, <3>2, <3>3
  <2>2. att'.main.act = att.main.act
    BY <1>0, <2>1 DEF SameAttempts
  <2> QED
    BY <1>0, <1>5, <2>1, <2>2
<1>6. CASE CancelWorkflow
  BY <1>0, <1>6, CancelWorkflowEffect
<1>7. CASE ~PersistFailure /\ ProviderEnds
  BY <1>0, <1>7, ProviderEffect
<1> QED
  BY <1>1, <1>2, <1>3, <1>4, <1>5, <1>6, <1>7 DEF Elsewhere

\* A step that is not an attempt's brings the row onward, or hands its cleanup over.
LEMMA ElsewherePhases ==
    ASSUME "overlap" \notin Behaviours, "workflow_cancel" \notin Behaviours,
           "continuation" \notin Behaviours,
           Sound, CleanupOrder, PhaseOrder, Kept, Elsewhere
    PROVE  /\ PhaseOrder'
           /\ Onward(row, row') \/ row'.cleanup = "cleanup_incomplete"
<1>0. /\ Types /\ Supervised /\ Later(row, row') /\ RowSound /\ att.late.act = None
      /\ None # "submit_turn" /\ Who = {"main", "late"}
  BY ElsewhereSupervised, NoneIsNothing
     DEF Sound, Kept, Lasting, CleanupOrder, Acts, Who
<1>1. At("main", "submit_turn", "accept")' => bridge' = "posted"
  <2>1. \/ att'.main.at = "claim"
        \/ \E c \in Who : att'.main.act = att[c].act /\ att'.main.at = att[c].at
    BY <1>0 DEF Supervised, Placed
  <2>2. At("main", "submit_turn", "accept")' => At("main", "submit_turn", "accept")
    BY <1>0, <2>1 DEF At
  <2> QED
    BY <1>0, <2>2 DEF Supervised, PhaseOrder
<1>2. row'.turn = "accepted" => bridge' = "posted"
  BY <1>0 DEF Supervised, PhaseOrder
<1>3. row'.evidence => row'.terminal # None
  BY <1>0, ElsewhereRow DEF PhaseOrder, Later
<1>4. PhaseOrder'
  BY <1>1, <1>2, <1>3, ElsewhereEarly, ElsewhereSignals DEF PhaseOrder
<1>5. row'.continued = row.continued
  BY <1>0 DEF Supervised, PhaseOrder
<1>6. row'.terminal = None => row.cleanup = "pending"
  BY <1>0 DEF Later, PhaseOrder, RowSound
<1>7. Onward(row, row') \/ row'.cleanup = "cleanup_incomplete"
  BY <1>0, <1>5, <1>6 DEF Supervised, Onward
<1> QED
  BY <1>4, <1>7

\* Every step keeps the invariant; the phase does not go back but for the handover.
LEMMA StepPhases ==
    ASSUME "overlap" \notin Behaviours, "workflow_cancel" \notin Behaviours,
           "continuation" \notin Behaviours,
           Single, CleanupOrder, PhaseOrder, [Next]_vars
    PROVE  /\ PhaseOrder'
           /\ \/ CurrentPhase(Durable)' >= CurrentPhase(Durable)
              \/ row'.cleanup = "cleanup_incomplete"
<1>0. /\ Sound /\ Kept /\ Types /\ Existing /\ CleanupOrder'
      /\ row \in RowStates /\ row' \in RowStates /\ Later(row, row')
  BY StepSound, StepKeepsOrder DEF Single, Sound, Kept, Types, Lasting
<1>1. PhaseOrder' /\ (Onward(row, row') \/ row'.cleanup = "cleanup_incomplete")
  <2>1. CASE \E a \in Who : (Attempted(a) \/ Faulted(a)) /\ Summary(a)
    BY <1>0, <2>1, AttemptPhases
  <2>2. CASE Elsewhere
    BY <1>0, <2>2, ElsewherePhases
  <2> QED
    BY <1>0, <2>1, <2>2, StepKinds DEF Elsewhere
<1>2. CurrentPhase(Durable) = Phase(row)
  BY <1>0, PhaseOfRow
<1>3. CurrentPhase(Durable)' = Phase(row')
  BY <1>0, PhaseOfRow
<1>4. Onward(row, row') => Phase(row') >= Phase(row)
  BY <1>0, OnwardPhases
<1> QED
  BY <1>1, <1>2, <1>3, <1>4

\* The phase that is derived from the row never goes back, except when the cleanup is
\* handed to the janitor (current_phase of the reconciler's contracts), when no attempt
\* outlives its timeout, the workflow is not cancelled and no continuation is asked for.
THEOREM PhaseOnlyGrows ==
    ASSUME "overlap" \notin Behaviours, "workflow_cancel" \notin Behaviours,
           "continuation" \notin Behaviours
    PROVE  Spec => PhaseNeverRegresses
<1> DEFINE Grown == \/ CurrentPhase(Durable)' >= CurrentPhase(Durable)
                    \/ row'.cleanup = "cleanup_incomplete"
<1>1. Init => PhaseOrder
  <2>1. Init => att.main.act = None
    BY FreshAttempts DEF Init, Who
  <2>2. None \notin Early /\ None # "submit_turn"
    BY EarlyIsFirst, NoneIsNothing DEF Acts
  <2> QED
    BY <2>1, <2>2 DEF Init, PhaseOrder, At
<1>2. Init => Single /\ CleanupOrder
  BY InitSingle, InitOrder
<1>3. Single /\ CleanupOrder /\ PhaseOrder /\ [Next]_vars =>
         Single' /\ CleanupOrder' /\ PhaseOrder' /\ [Grown]_vars
  <2> SUFFICES ASSUME Single, CleanupOrder, PhaseOrder, [Next]_vars
               PROVE  Single' /\ CleanupOrder' /\ PhaseOrder' /\ Grown
    OBVIOUS
  <2>1. Single' /\ CleanupOrder'
    BY StepSingle, StepKeepsOrder DEF Single
  <2> QED
    BY <2>1, StepPhases
<1> HIDE DEF Grown
<1>4. Spec => [][Grown]_vars
  BY <1>1, <1>2, <1>3, PTL DEF Spec
<1> QED
  BY <1>4 DEF Grown, PhaseNeverRegresses
=============================================================================
