--------------------------- MODULE OmnigentSession ---------------------------
(* One Omnigent session: the Temporal workflow that supervises it, the      *)
(* bounded activities that carry out its decisions, the canonical session   *)
(* row they share, and the outside world they act on: the credential lease  *)
(* of the Provider Profile manager, the host, the provider's session.       *)
(*                                                                          *)
(* Every write of the row advances its revision, and a revision is only     *)
(* ever compared for equality with the current one. So no number is kept:   *)
(* whoever holds a revision (the workflow from its last load, an activity   *)
(* attempt from its last read, a command from its decision) holds a flag    *)
(* that says whether it is still the current one, and a write clears the    *)
(* flag of everybody else.                                                  *)
EXTENDS Reconciler, Sequences

CONSTANTS
    Attempts,         \* how often an activity is attempted before it fails
    SnapshotAttempts, \* how often a timed-out session asks for a snapshot
    MaxTurnAttempts,  \* the retry policy's max_attempts
    MaxFaults,        \* bound: attempts that die, overlap or fail to reach a service
    MaxBumps,         \* bound: row writes by others (API, sweeps, projections)
    StoppedAs,        \* what the provider reports of a session stopped while running
    Behaviours        \* which of the optional events below may happen

ASSUME OmnigentAssumption ==
    /\ Attempts \in Nat \ {0} /\ SnapshotAttempts \in Nat \ {0}
    /\ MaxTurnAttempts \in Nat \ {0} /\ MaxFaults \in Nat /\ MaxBumps \in Nat
    /\ StoppedAs \in {"canceled", "quiesced"}
    /\ Behaviours \subseteq {"die", "overlap", "outage", "lost_post", "cancel_signal",
                             "continuation", "workflow_cancel", "deadline", "quarantine",
                             "lease_failure"}

VARIABLES
    row,      \* the canonical session row
    obs,      \* the latest observation of every kind
    cmds,     \* the command of the last decision, and the one a late attempt executes
    att,      \* the attempt the workflow waits for, and one it no longer waits for
    wf,       \* the workflow's own state
    bridge,   \* first_message_state of the bridge row
    lease,    \* what the Provider Profile manager has of this session's lease
    hostUp,   \* the session's host is running
    provider, \* the provider's session
    posts,    \* how many times the message reached the provider
    budget    \* what may still go wrong, and whether the deadline has passed

vars == <<row, obs, cmds, att, wf, bridge, lease, hostUp, provider, posts, budget>>

outside == <<bridge, lease, hostUp, provider, posts>>

rest == <<obs, budget>>

-----------------------------------------------------------------------------
(* State *)

Who == {"main", "late"}

Slots == {"cur", "old"}

Failures == {"integration_unavailable", "execution_failed", "delivery_unknown",
             "reconciliation_quarantined"}

TerminalStates == {"completed", "failed", "canceled", "timed_out"} \cup Failures

CleanupStates == {"pending", "provider_stopped", "host_stopped", "leases_released",
                  "cleanup_incomplete"}

\* The manager holds the lease; it does not; or an attempt that failed released it.
LeaseStates == {"free", "held", "given_up"}

Acts == {"ensure_profile", "ensure_host", "ensure_session", "submit_turn",
         "record_terminal", "harvest", "publish", "stop_provider", "stop_host", "release"}

Steps == {"claim", "generation", "acquire", "launch", "bind", "create", "attach",
          "prepare", "posting", "post", "posted", "accept", "mark", "publish",
          "stop", "release", "settle"}

ASSUME NoneAssumption == None \notin Acts \cup TerminalStates \cup Outcomes \cup Kinds

NoAttempt == [act |-> None, at |-> "claim", cmd |-> "cur", rev |-> FALSE]

Attempt(act) == [NoAttempt EXCEPT !.act = act]

NoCommand == [kind |-> None, outcome |-> None, status |-> "failed", current |-> FALSE]

\* Mutant: the host is stopped first, and the provider's session not at all
HostStoppedFirst(kind) ==
    CASE kind = "ensure_profile_lease" -> "ensure_profile"
      [] kind = "ensure_host" -> "ensure_host"
      [] kind = "ensure_provider_session" -> "ensure_session"
      [] kind = "submit_turn" -> "submit_turn"
      [] kind \in TerminalKinds -> "record_terminal"
      [] kind = "harvest_evidence" -> "harvest"
      [] kind = "begin_cleanup" -> "stop_host"
      [] kind = "release_leases" -> "release"

\* The activities of a command decision, in the order the workflow runs them.
FirstActivity(kind) ==
    CASE kind = "ensure_profile_lease" -> "ensure_profile"
      [] kind = "ensure_host" -> "ensure_host"
      [] kind = "ensure_provider_session" -> "ensure_session"
      [] kind = "submit_turn" -> "submit_turn"
      [] kind \in TerminalKinds -> "record_terminal"
      [] kind = "harvest_evidence" -> "harvest"
      [] kind = "begin_cleanup" -> "stop_provider"
      [] kind = "release_leases" -> "release"

NextActivity(act) ==
    CASE act = "harvest" -> "publish" [] act = "stop_provider" -> "stop_host"
      [] OTHER -> None

\* What follows the claim of an activity's command.
FirstStep(act) ==
    CASE act \in {"ensure_profile", "ensure_host"} -> "generation"
      [] act = "ensure_session" -> "create"
      [] act = "submit_turn" -> "prepare"
      [] act = "record_terminal" -> "mark"
      [] act = "harvest" -> "bind"
      [] act = "publish" -> "publish"
      [] act \in {"stop_provider", "stop_host"} -> "stop"
      [] act = "release" -> "release"

Init ==
    /\ row = [desired |-> "run", quarantined |-> FALSE, profileGen |-> FALSE,
              profile |-> FALSE, hostGen |-> FALSE, host |-> FALSE, attached |-> FALSE,
              turn |-> "prepared", ambiguous |-> FALSE, continued |-> FALSE,
              terminal |-> None, evidence |-> FALSE, harvested |-> FALSE,
              published |-> FALSE, failure |-> FALSE, handoff |-> FALSE,
              cleanup |-> "pending"]
    /\ obs = [compat |-> "unseen", status |-> None, openTool |-> FALSE, turn |-> None,
              event |-> FALSE, consumer |-> "unseen", evidence |-> "unseen",
              candidate |-> FALSE]
    /\ cmds = [s \in Slots |-> NoCommand]
    /\ att = [a \in Who |-> NoAttempt]
    /\ wf = [pc |-> "load", fresh |-> FALSE, decision |-> Await, expired |-> FALSE,
             pending |-> <<>>, failed |-> None, primary |-> FALSE, snapshots |-> 0,
             tries |-> 0, unnumbered |-> "no"]
    /\ bridge = "not_prepared"
    /\ lease = "free"
    /\ hostUp = FALSE
    /\ provider = "absent"
    /\ posts = 0
    /\ budget = [faults |-> 0, bumps |-> 0, deadline |-> FALSE, signals |-> {}]

-----------------------------------------------------------------------------
(* The row and its revision *)

\* Everybody's revision is out of date after a write.
Outdated(w) ==
    [w EXCEPT !.fresh = FALSE, !.unnumbered = IF @ = "same" THEN "stale" ELSE @]

Stale == [a \in Who |-> [att[a] EXCEPT !.rev = FALSE]]

StaleCommands == [s \in Slots |-> [cmds[s] EXCEPT !.current = FALSE]]

\* The durable state that load_reconciliation_inputs derives from the row.
DurableOutcome(terminal) ==
    CASE terminal = None -> None
      [] terminal = "completed" -> "success"
      [] terminal = "canceled" -> "cancelled"
      [] OTHER -> "failure"

Durable ==
    [failed |-> FALSE,
     quarantined |-> row.quarantined,
     desired |-> IF row.desired = "run" THEN "run" ELSE "cancel",
     outcome |-> DurableOutcome(row.terminal),
     profile |-> row.profile /\ row.cleanup # "leases_released",
     host |-> row.host /\ row.cleanup # "leases_released",
     attached |-> row.attached,
     submission |-> IF row.continued THEN "not_submitted"
                    ELSE IF row.ambiguous THEN "in_flight"
                    ELSE IF row.turn = "prepared" THEN "not_submitted" ELSE "accepted",
     attempts |-> IF row.continued THEN 1 ELSE 0,
     evidence |-> row.evidence,
     started |-> row.cleanup # "pending",
     complete |-> row.cleanup \in {"host_stopped", "leases_released"}]

-----------------------------------------------------------------------------
(* How an attempt of an activity goes on and ends *)

At(a, act, at) == att[a].act = act /\ att[a].at = at

Command(a) == cmds[att[a].cmd]

SetStatus(a, status) == cmds' = [cmds EXCEPT ![att[a].cmd].status = status]

\* The attempt goes to its next step.
Step(a, at) ==
    /\ att' = [att EXCEPT ![a].at = at]
    /\ UNCHANGED wf

\* The attempt reads the row and its revision, and goes to its next step.
Read(a, at) ==
    /\ att' = [att EXCEPT ![a].at = at, ![a].rev = TRUE]
    /\ UNCHANGED <<row, cmds, wf>>

\* The attempt writes the row, keeping the new revision or not, and goes on.
Write(a, newRow, at, keeps) ==
    /\ row' = newRow
    /\ att' = [Stale EXCEPT ![a].at = at, ![a].rev = keeps]
    /\ cmds' = StaleCommands
    /\ wf' = Outdated(wf)

\* The attempt returns. The workflow goes on with the next activity of the
\* decision, or loads again; nobody waits for a late attempt.
Ended(a, attempts, w) ==
    IF a = "late" THEN /\ att' = [attempts EXCEPT !.late = NoAttempt]
                       /\ wf' = w
    ELSE LET next == NextActivity(att.main.act) IN
         /\ att' = [attempts EXCEPT !.main = IF next = None THEN NoAttempt
                                                            ELSE Attempt(next)]
         /\ wf' = [w EXCEPT !.pc = IF next = None THEN "load" ELSE "activity",
                            !.tries = 0]

Return(a) == Ended(a, att, wf)

\* The last step of an attempt writes the row.
WriteAndReturn(a, newRow) ==
    /\ row' = newRow
    /\ cmds' = StaleCommands
    /\ Ended(a, Stale, Outdated(wf))

\* A RevisionConflictError is not retried: the workflow loads again.
Conflict(a) ==
    /\ att' = [att EXCEPT ![a] = NoAttempt]
    /\ wf' = IF a = "late" THEN wf ELSE [wf EXCEPT !.pc = "load", !.tries = 0]
    /\ UNCHANGED <<row, cmds>>

\* Mutant: the attempts are counted one too far
RetryOnceMore(attempts) ==
    IF wf.tries < Attempts
    THEN /\ att' = [attempts EXCEPT !.main = Attempt(att.main.act)]
         /\ wf' = [wf EXCEPT !.tries = @ + 1]
    ELSE /\ att' = [attempts EXCEPT !.main = NoAttempt]
         /\ wf' = [wf EXCEPT !.pc = "failure", !.failed = att.main.act, !.tries = 0]

\* Any other error, the death of the worker and the timeout of the attempt: Temporal
\* attempts the activity again until the attempts are used up.
Retry(attempts) ==
    IF wf.tries + 1 < Attempts
    THEN /\ att' = [attempts EXCEPT !.main = Attempt(att.main.act)]
         /\ wf' = [wf EXCEPT !.tries = @ + 1]
    ELSE /\ att' = [attempts EXCEPT !.main = NoAttempt]
         /\ wf' = [wf EXCEPT !.pc = "failure", !.failed = att.main.act, !.tries = 0]

Error(a) ==
    IF a = "late" THEN att' = [att EXCEPT !.late = NoAttempt] /\ UNCHANGED wf
                  ELSE Retry(att)

-----------------------------------------------------------------------------
(* The claim and the receipt of a command *)

\* A pending command is claimed only while its revision is the current one. The
\* token is the session's and the command's, so every attempt owns the claim.
Claim(a) ==
    /\ att[a].act # None /\ att[a].at = "claim"
    /\ \/ /\ Command(a).status = "pending" /\ ~Command(a).current
          /\ Conflict(a)
       \/ /\ \/ Command(a).status = "pending" /\ Command(a).current
             \/ Command(a).status = "claimed"
          /\ SetStatus(a, "claimed")
          /\ Step(a, FirstStep(att[a].act))
          /\ UNCHANGED row
       \/ /\ Command(a).status \in {"applied", "failed", "unknown"}
          /\ Return(a)
          /\ UNCHANGED <<row, cmds>>
    /\ UNCHANGED <<outside, rest>>

\* A settled command keeps its status; one parked as delivery-unknown is settled.
Settle(a) ==
    /\ att[a].act # None /\ att[a].at = "settle"
    /\ IF Command(a).status \in {"claimed", "unknown"}
       THEN /\ SetStatus(a, "applied")
            /\ row' = [row EXCEPT !.ambiguous = @ /\ att[a].act # "submit_turn"]
       ELSE UNCHANGED <<row, cmds>>
    /\ Return(a)
    /\ UNCHANGED <<outside, rest>>

\* The message may or may not have been delivered.
ParkAsUnknown(a) ==
    IF Command(a).status \in {"claimed", "unknown"}
    THEN SetStatus(a, "unknown") /\ row' = [row EXCEPT !.ambiguous = TRUE]
    ELSE UNCHANGED <<row, cmds>>

-----------------------------------------------------------------------------
(* ensure_provider_profile_lease, ensure_host, ensure_provider_session *)

ProfileGeneration(a) ==
    /\ At(a, "ensure_profile", "generation")
    /\ IF row.profileGen THEN Read(a, "acquire")
       ELSE Write(a, [row EXCEPT !.profileGen = TRUE], "acquire", TRUE)
    /\ UNCHANGED <<outside, rest>>

AcquireLease(a) ==
    /\ At(a, "ensure_profile", "acquire")
    /\ lease' = "held"
    /\ Step(a, "bind")
    /\ UNCHANGED <<row, cmds, bridge, hostUp, provider, posts, rest>>

\* Mutant: the revision is compared before the row is asked for a binding
BindLeaseByRevision(a) ==
    /\ At(a, "ensure_profile", "bind")
    /\ \/ /\ att[a].rev
          /\ Write(a, [row EXCEPT !.profile = TRUE], "settle", FALSE)
          /\ UNCHANGED lease
       \/ ~att[a].rev /\ lease' = "free" /\ Conflict(a)
    /\ UNCHANGED <<bridge, hostUp, provider, posts, rest>>

\* The owner of the lease is computed from the session, so two attempts hold the
\* same lease, and the one that cannot bind it releases it.
BindLease(a) ==
    /\ At(a, "ensure_profile", "bind")
    /\ \/ row.profile /\ Step(a, "settle") /\ UNCHANGED <<row, cmds, lease>>
       \/ /\ ~row.profile /\ att[a].rev
          /\ Write(a, [row EXCEPT !.profile = TRUE], "settle", FALSE)
          /\ UNCHANGED lease
       \/ /\ ~row.profile /\ ~att[a].rev
          /\ lease' = "free"
          /\ Conflict(a)
    /\ UNCHANGED <<bridge, hostUp, provider, posts, rest>>

\* Whatever else fails once the lease is acquired releases it, whether or not the row
\* binds it: the profile is no longer ready or runs elsewhere, the runtime binding
\* cannot be written, the credentials were rotated, the database fails, or the
\* response of the commit is lost (then the attempt has bound the lease).
AbandonLease(a) ==
    /\ "lease_failure" \in Behaviours /\ budget.faults < MaxFaults
    /\ At(a, "ensure_profile", "bind") \/ At(a, "ensure_profile", "settle")
    /\ lease' = "given_up"
    /\ \/ Error(a)
       \/ att[a].at = "bind" /\ ~att[a].rev /\ Conflict(a)
    /\ budget' = [budget EXCEPT !.faults = @ + 1]
    /\ UNCHANGED <<row, cmds, obs, bridge, hostUp, provider, posts>>

HostGeneration(a) ==
    /\ At(a, "ensure_host", "generation")
    /\ IF row.hostGen THEN Read(a, "launch")
       ELSE Write(a, [row EXCEPT !.hostGen = TRUE], "launch", TRUE)
    /\ UNCHANGED <<outside, rest>>

LaunchHost(a) ==
    /\ At(a, "ensure_host", "launch")
    /\ hostUp' = TRUE
    /\ Step(a, "bind")
    /\ UNCHANGED <<row, cmds, bridge, lease, provider, posts, rest>>

\* Mutant: a host that cannot be bound takes the binding of the lease with it
BindHostOrUnbind(a) ==
    /\ At(a, "ensure_host", "bind")
    /\ \/ row.host /\ Step(a, "settle") /\ UNCHANGED <<row, cmds>>
       \/ /\ ~row.host /\ att[a].rev
          /\ Write(a, [row EXCEPT !.host = TRUE], "settle", FALSE)
       \/ /\ ~row.host /\ ~att[a].rev
          /\ WriteAndReturn(a, [row EXCEPT !.profile = FALSE])
    /\ UNCHANGED <<outside, rest>>

BindHost(a) ==
    /\ At(a, "ensure_host", "bind")
    /\ \/ row.host /\ Step(a, "settle") /\ UNCHANGED <<row, cmds>>
       \/ /\ ~row.host /\ att[a].rev
          /\ Write(a, [row EXCEPT !.host = TRUE], "settle", FALSE)
       \/ ~row.host /\ ~att[a].rev /\ Conflict(a)
    /\ UNCHANGED <<outside, rest>>

\* The session id is the provider's idempotency key: there is one provider session.
CreateProviderSession(a) ==
    /\ At(a, "ensure_session", "create")
    /\ IF row.attached THEN Step(a, "settle") /\ UNCHANGED provider
       ELSE /\ provider' = IF provider = "absent" THEN "ready" ELSE provider
            /\ Step(a, "attach")
    /\ UNCHANGED <<row, cmds, bridge, lease, hostUp, posts, rest>>

AttachProviderSession(a) ==
    /\ At(a, "ensure_session", "attach")
    /\ \/ row.attached /\ Step(a, "settle") /\ UNCHANGED <<row, cmds>>
       \/ /\ ~row.attached /\ Command(a).current
          /\ Write(a, [row EXCEPT !.attached = TRUE], "settle", FALSE)
       \/ ~row.attached /\ ~Command(a).current /\ Conflict(a)
    /\ UNCHANGED <<outside, rest>>

-----------------------------------------------------------------------------
(* submit_turn *)

\* Mutant: a message that was being posted is posted again
PrepareTurnAgain(a) ==
    /\ At(a, "submit_turn", "prepare")
    /\ IF row.continued THEN Error(a) /\ UNCHANGED bridge
       ELSE IF bridge = "posted" THEN Step(a, "accept") /\ UNCHANGED bridge
       ELSE bridge' = "prepared" /\ Step(a, "posting")
    /\ UNCHANGED <<row, cmds, lease, hostUp, provider, posts, rest>>

\* Mutant: a message that was being posted counts as posted
PrepareTurnAsPosted(a) ==
    /\ At(a, "submit_turn", "prepare")
    /\ IF row.continued THEN Error(a) /\ UNCHANGED bridge
       ELSE IF bridge \in {"posting", "posted"} THEN Step(a, "accept") /\ UNCHANGED bridge
       ELSE bridge' = "prepared" /\ Step(a, "posting")
    /\ UNCHANGED <<row, cmds, lease, hostUp, provider, posts, rest>>

\* A continuation has a bridge row of its own, which the session's immutable
\* bridgeSessionRef refuses.
PrepareTurn(a) ==
    /\ At(a, "submit_turn", "prepare")
    /\ \/ row.continued /\ Error(a) /\ UNCHANGED <<row, cmds, bridge>>
       \/ /\ ~row.continued /\ bridge = "posted"
          /\ Step(a, "accept")
          /\ UNCHANGED <<row, cmds, bridge>>
       \/ /\ ~row.continued /\ bridge \in {"not_prepared", "prepared"}
          /\ bridge' = "prepared"
          /\ Step(a, "posting")
          /\ UNCHANGED <<row, cmds>>
       \/ /\ ~row.continued /\ bridge = "posting" /\ posts > 0
          /\ Step(a, "posted")
          /\ UNCHANGED <<row, cmds, bridge>>
       \/ /\ ~row.continued /\ bridge = "posting" /\ posts = 0
          /\ ParkAsUnknown(a)
          /\ Return(a)
          /\ UNCHANGED bridge
    /\ UNCHANGED <<lease, hostUp, provider, posts, rest>>

\* mark_posting does not look at the state it replaces.
MarkPosting(a) ==
    /\ At(a, "submit_turn", "posting")
    /\ bridge' = "posting"
    /\ Step(a, "post")
    /\ UNCHANGED <<row, cmds, lease, hostUp, provider, posts, rest>>

Deliver ==
    /\ posts' = posts + 1
    /\ provider' = IF provider = "ready" THEN "running" ELSE provider

PostMessage(a) ==
    /\ At(a, "submit_turn", "post")
    /\ Deliver
    /\ Step(a, "posted")
    /\ UNCHANGED <<row, cmds, bridge, lease, hostUp, rest>>

\* The provider cannot be reached: before the message is posted, or the request or
\* its response is lost.
LosePost(a) ==
    /\ "lost_post" \in Behaviours /\ budget.faults < MaxFaults
    /\ \/ At(a, "submit_turn", "post") /\ Deliver
       \/ att[a].act = "submit_turn" /\ att[a].at \in {"posting", "post"}
          /\ UNCHANGED <<posts, provider>>
    /\ ParkAsUnknown(a)
    /\ Error(a)
    /\ budget' = [budget EXCEPT !.faults = @ + 1]
    /\ UNCHANGED <<bridge, lease, hostUp, obs>>

MarkPosted(a) ==
    /\ At(a, "submit_turn", "posted")
    /\ bridge' = "posted"
    /\ Step(a, "accept")
    /\ UNCHANGED <<row, cmds, lease, hostUp, provider, posts, rest>>

\* The turn is a row of its own: the session's revision does not move.
AcceptTurn(a) ==
    /\ At(a, "submit_turn", "accept")
    /\ row' = [row EXCEPT !.turn = "accepted"]
    /\ Step(a, "settle")
    /\ UNCHANGED <<cmds, outside, rest>>

-----------------------------------------------------------------------------
(* record_terminal, harvest_evidence, publish_workspace *)

\* Mutant: whatever is no success is a failure
TerminalOrFailed(outcome) ==
    IF row.desired = "timeout" THEN "timed_out"
    ELSE IF outcome = "success" THEN "completed" ELSE "failed"

\* A timeout that ends the session overrides the outcome of the decision.
TerminalOf(outcome) ==
    IF row.desired = "timeout"
    THEN IF row.ambiguous /\ ~row.continued THEN "delivery_unknown" ELSE "timed_out"
    ELSE CASE outcome = "success" -> "completed"
           [] outcome = "cancelled" -> "canceled"
           [] OTHER -> "failed"

\* Mutant: the latest outcome replaces the recorded one
ReplaceTerminal(a) ==
    /\ At(a, "record_terminal", "mark")
    /\ LET terminal == TerminalOf(Command(a).outcome) IN
       IF row.terminal # terminal
       THEN Write(a, [row EXCEPT !.terminal = terminal], "settle", FALSE)
       ELSE Step(a, "settle") /\ UNCHANGED <<row, cmds>>
    /\ UNCHANGED <<outside, rest>>

RecordTerminal(a) ==
    /\ At(a, "record_terminal", "mark")
    /\ LET terminal == TerminalOf(Command(a).outcome) IN
       \/ /\ row.terminal = terminal
          /\ Step(a, "settle")
          /\ UNCHANGED <<row, cmds>>
       \/ /\ row.terminal \notin {None, terminal}
          /\ Error(a)
          /\ UNCHANGED <<row, cmds>>
       \/ /\ row.terminal = None /\ Command(a).current
          /\ Write(a, [row EXCEPT !.terminal = terminal], "settle", FALSE)
       \/ row.terminal = None /\ ~Command(a).current /\ Conflict(a)
    /\ UNCHANGED <<outside, rest>>

\* The command stays claimed for publish_workspace.
HarvestEvidence(a) ==
    /\ At(a, "harvest", "bind")
    /\ \/ row.harvested /\ Return(a) /\ UNCHANGED <<row, cmds>>
       \/ /\ ~row.harvested /\ Command(a).current
          /\ WriteAndReturn(a, [row EXCEPT !.harvested = TRUE])
       \/ ~row.harvested /\ ~Command(a).current /\ Conflict(a)
    /\ UNCHANGED <<outside, rest>>

\* Harvesting is the activity before it: the refusal to publish what was not harvested
\* never applies.
PublishWorkspace(a) ==
    /\ At(a, "publish", "publish")
    /\ \/ row.evidence /\ Step(a, "settle") /\ UNCHANGED <<row, cmds>>
       \/ ~row.evidence /\ Read(a, IF row.published THEN "attach" ELSE "bind")
    /\ UNCHANGED <<outside, rest>>

BindPublication(a) ==
    /\ At(a, "publish", "bind")
    /\ \/ att[a].rev /\ Write(a, [row EXCEPT !.published = TRUE], "attach", TRUE)
       \/ ~att[a].rev /\ row.published /\ Error(a) /\ UNCHANGED <<row, cmds>>
       \/ ~att[a].rev /\ ~row.published /\ Conflict(a)
    /\ UNCHANGED <<outside, rest>>

AttachEvidence(a) ==
    /\ At(a, "publish", "attach")
    /\ \/ row.evidence /\ Error(a) /\ UNCHANGED <<row, cmds>>
       \/ /\ ~row.evidence /\ att[a].rev
          /\ Write(a, [row EXCEPT !.evidence = TRUE], "settle", FALSE)
       \/ ~row.evidence /\ ~att[a].rev /\ Conflict(a)
    /\ UNCHANGED <<outside, rest>>

-----------------------------------------------------------------------------
(* stop_provider_session, stop_host, release_leases *)

StopProvider(a) ==
    /\ At(a, "stop_provider", "stop")
    /\ provider' = IF row.attached /\ provider = "running" THEN StoppedAs ELSE provider
    /\ Step(a, "mark")
    /\ UNCHANGED <<row, cmds, bridge, lease, hostUp, posts, rest>>

\* The command stays claimed for stop_host.
MarkProviderStopped(a) ==
    /\ At(a, "stop_provider", "mark")
    /\ IF row.cleanup = "pending"
       THEN WriteAndReturn(a, [row EXCEPT !.cleanup = "provider_stopped"])
       ELSE Return(a) /\ UNCHANGED <<row, cmds>>
    /\ UNCHANGED <<outside, rest>>

\* Only a host that is bound to the row is found.
StopHost(a) ==
    /\ At(a, "stop_host", "stop")
    /\ hostUp' = (hostUp /\ ~row.host)
    /\ Step(a, "mark")
    /\ UNCHANGED <<row, cmds, bridge, lease, provider, posts, rest>>

MarkHostStopped(a) ==
    /\ At(a, "stop_host", "mark")
    /\ IF row.cleanup # "host_stopped"
       THEN Write(a, [row EXCEPT !.cleanup = "host_stopped"], "settle", FALSE)
       ELSE Step(a, "settle") /\ UNCHANGED <<row, cmds>>
    /\ UNCHANGED <<outside, rest>>

ReleaseLeases(a) ==
    /\ At(a, "release", "release")
    /\ IF row.cleanup \in {"host_stopped", "leases_released"}
       THEN /\ lease' = IF row.profile /\ row.cleanup = "host_stopped" THEN "free"
                       ELSE lease
            /\ Step(a, "mark")
       ELSE Error(a) /\ UNCHANGED lease
    /\ UNCHANGED <<row, cmds, bridge, hostUp, provider, posts, rest>>

MarkReleased(a) ==
    /\ At(a, "release", "mark")
    /\ IF row.cleanup # "leases_released"
       THEN Write(a, [row EXCEPT !.cleanup = "leases_released"], "settle", FALSE)
       ELSE Step(a, "settle") /\ UNCHANGED <<row, cmds>>
    /\ UNCHANGED <<outside, rest>>

-----------------------------------------------------------------------------
(* The workflow: load, persist signals, decide *)

world == <<bridge, lease, hostUp, provider, posts, budget>>

Load ==
    /\ wf.pc = "load"
    /\ wf' = [wf EXCEPT !.pc = "decide", !.fresh = TRUE, !.failed = None,
                        !.decision = Reconcile(Durable, obs, MaxTurnAttempts),
                        !.expired = budget.deadline /\ row.terminal = None]
    /\ UNCHANGED <<row, obs, cmds, att, world>>

\* The last signal that ends the session is the timeout.
TimeoutIsLast(signals) ==
    \E i \in DOMAIN signals :
        /\ signals[i] = "timeout"
        /\ \A k \in DOMAIN signals : k > i => signals[k] = "continuation"

\* The desired state and the turn that the signals, in their order, ask for.
Wanted(signals) ==
    [row EXCEPT !.desired = IF \A i \in DOMAIN signals : signals[i] = "continuation" THEN @
                            ELSE IF TimeoutIsLast(signals) THEN "timeout" ELSE "cancel",
                !.continued = @ \/ \E i \in DOMAIN signals : signals[i] = "continuation"]

AlreadyApplied(signal) ==
    IF signal = "continuation" THEN row.continued
    ELSE row.terminal # None \/ row.desired = signal

\* A session that has ended refuses a continuation, and everything sent with it.
PersistSignals(signals) ==
    LET applied == \A i \in DOMAIN signals : AlreadyApplied(signals[i]) IN
    /\ \/ /\ applied
          /\ wf' = [wf EXCEPT !.pc = "load", !.pending = <<>>]
          /\ UNCHANGED <<row, cmds, att>>
       \/ /\ ~applied /\ ~wf.fresh
          /\ wf' = [wf EXCEPT !.pc = "load", !.pending = signals]
          /\ UNCHANGED <<row, cmds, att>>
       \/ /\ ~applied /\ wf.fresh /\ row.terminal # None
          /\ wf' = [wf EXCEPT !.pc = "failure", !.failed = "persist_signal_intents",
                              !.pending = signals]
          /\ UNCHANGED <<row, cmds, att>>
       \/ /\ ~applied /\ wf.fresh /\ row.terminal = None
          /\ row' = Wanted(signals)
          /\ cmds' = StaleCommands
          /\ att' = Stale
          /\ wf' = [Outdated(wf) EXCEPT !.pc = "load", !.pending = <<>>]
    /\ UNCHANGED <<obs, world>>

PersistPendingSignals ==
    /\ wf.pc = "decide" /\ wf.pending # <<>>
    /\ PersistSignals(wf.pending)

\* Mutant: a provider that works is not timed out
TimeoutUnlessActive ==
    /\ wf.expired /\ row.desired = "run" /\ obs.status # Active
    /\ wf.decision.kind \notin TerminalKinds \cup FailureKinds

\* The deadline is intent, not proof that the provider failed: before it is
\* recorded the workflow asks for a fresh snapshot.
TimeoutElapsed ==
    /\ wf.expired /\ row.desired = "run"
    /\ wf.decision.kind \notin TerminalKinds \cup FailureKinds

LookBeforeTimeout ==
    /\ wf.pc = "decide" /\ wf.pending = <<>> /\ TimeoutElapsed
    /\ wf.snapshots < SnapshotAttempts
    /\ wf' = [wf EXCEPT !.pc = "snapshot"]
    /\ UNCHANGED <<row, obs, cmds, att, world>>

QueueTimeout ==
    /\ \/ wf.pc = "decide" /\ wf.pending = <<>> /\ TimeoutElapsed
       \/ wf.pc = "timeout"
    /\ wf.snapshots = SnapshotAttempts
    /\ PersistSignals(Append(wf.pending, "timeout"))

\* A command's identity is its kind and the revision of its decision.
SameCommand(kind) == cmds.cur.kind = kind /\ cmds.cur.current

\* The command of the decision is recorded and its first activity is started; a late
\* attempt keeps the command it was given.
Issued(d) ==
    IF SameCommand(d.kind) THEN cmds
    ELSE [cur |-> [kind |-> d.kind, outcome |-> d.outcome, status |-> "pending",
                   current |-> TRUE],
          old |-> IF att.late.act # None /\ att.late.cmd = "cur" THEN cmds.cur
                                                                 ELSE cmds.old]

Late(d) ==
    IF SameCommand(d.kind) \/ att.late.act = None THEN att.late
    ELSE [att.late EXCEPT !.cmd = "old"]

AfterDecision(kind) ==
    CASE kind \in CommandKinds -> "activity"
      [] kind \in FailureKinds -> "quarantine"
      [] kind = "no_op" -> "closed"
      [] OTHER -> "observe"

\* A decision is numbered by the workflow's count of decisions. One with the number
\* of a decision that was already recorded must be the same decision.
PersistDecision ==
    /\ wf.pc = "decide" /\ wf.pending = <<>> /\ ~TimeoutElapsed
    /\ \/ /\ wf.unnumbered = "stale"
          /\ wf' = [wf EXCEPT !.pc = "failure", !.failed = "persist_decision"]
          /\ UNCHANGED <<cmds, att>>
       \/ /\ wf.unnumbered = "no" /\ ~wf.fresh
          /\ wf' = [wf EXCEPT !.pc = "load"]
          /\ UNCHANGED <<cmds, att>>
       \/ /\ wf.unnumbered = "same" \/ (wf.unnumbered = "no" /\ wf.fresh)
          /\ wf' = [wf EXCEPT !.pc = AfterDecision(wf.decision.kind), !.unnumbered = "no"]
          /\ IF wf.decision.kind \in CommandKinds
             THEN /\ cmds' = Issued(wf.decision)
                  /\ att' = [main |-> Attempt(FirstActivity(wf.decision.kind)),
                             late |-> Late(wf.decision)]
             ELSE UNCHANGED <<cmds, att>>
    /\ UNCHANGED <<row, obs, world>>

-----------------------------------------------------------------------------
(* The workflow: observe *)

\* What the row alone says of the resources and of the evidence.
SeenResources(o) ==
    [o EXCEPT !.consumer = IF (row.profile \/ row.host)
                                 /\ row.cleanup \notin {"host_stopped", "leases_released"}
                           THEN Active ELSE "absent",
              !.evidence = IF row.terminal = None THEN "missing" ELSE "available"]

\* The outcome the snapshot proves for the current turn. A completed or quiet turn
\* counts only when the snapshot before it was already like it, a failed or canceled
\* one only when the snapshot correlates it with the progress of the turn.
TurnOutcome(correlated) ==
    CASE provider \in {"completed", "quiesced"} /\ obs.candidate -> "success"
      [] provider = "failed" /\ correlated -> "failure"
      [] provider = "canceled" /\ correlated -> "cancelled"
      [] OTHER -> None

\* The status the snapshot exposes to the reducer: until the turn is seen to end, a
\* completed session is exposed as idle, a failed or canceled one as running.
RawStatus(correlated) ==
    CASE provider \in {"ready", "quiesced"} -> "idle"
      [] provider = "completed" /\ ~obs.candidate -> "idle"
      [] provider \in {"failed", "canceled"} /\ ~correlated -> "running"
      [] OTHER -> provider

\* The batch of events may have missed the one that ends the turn.
SeenSnapshot(event, correlated) ==
    LET outcome == TurnOutcome(correlated)
    IN  [SeenResources(obs) EXCEPT
            !.compat = "ready",
            !.status = ClassifyProviderStatus(RawStatus(correlated)),
            !.turn = IF outcome = None THEN @ ELSE outcome,
            !.event = event,
            !.candidate = provider \in {"completed", "quiesced"}]

\* The heartbeat of the host lease, the event batch and the snapshot. A snapshot of
\* the provider writes the row, an observation of the resources alone does not.
Observe ==
    /\ wf.pc \in {"observe", "snapshot"}
    /\ \/ /\ row.attached
          /\ \E event, correlated \in BOOLEAN :
                /\ event => provider \in {"completed", "failed", "canceled"}
                /\ obs' = SeenSnapshot(event, correlated)
          /\ cmds' = StaleCommands
          /\ att' = Stale
          /\ wf' = [Outdated(wf) EXCEPT
                        !.pc = "load",
                        !.snapshots = IF wf.pc = "snapshot" THEN SnapshotAttempts ELSE @]
          /\ UNCHANGED budget
       \/ /\ ~row.attached
          /\ obs' = SeenResources(obs)
          /\ wf' = [wf EXCEPT
                        !.pc = "load",
                        !.snapshots = IF wf.pc = "snapshot" THEN SnapshotAttempts ELSE @]
          /\ UNCHANGED <<cmds, att, budget>>
    /\ UNCHANGED <<row, outside>>

\* The provider cannot be reached. After as many snapshots as the workflow asks
\* for, the timeout is recorded without one.
ObserveUnavailable ==
    /\ "outage" \in Behaviours /\ budget.faults < MaxFaults
    /\ wf.pc \in {"observe", "snapshot"} /\ row.attached
    /\ obs' = SeenResources(obs)
    /\ budget' = [budget EXCEPT !.faults = @ + 1]
    /\ wf' = IF wf.pc = "observe" THEN [wf EXCEPT !.pc = "load"]
             ELSE [wf EXCEPT !.snapshots = @ + 1,
                             !.pc = IF wf.snapshots + 1 = SnapshotAttempts
                                    THEN "timeout" ELSE "load"]
    /\ UNCHANGED <<row, cmds, att, outside>>

-----------------------------------------------------------------------------
(* The workflow: failures *)

CleanupActs == {"stop_provider", "stop_host", "release"}

IntegrationActs == Acts \ (CleanupActs \cup {"submit_turn"})

\* What the exhausted activity means for the session. With a failure on record the
\* next one hands the remaining resources to the janitor.
FailureStatus ==
    IF wf.pc = "quarantine" THEN "reconciliation_quarantined"
    ELSE IF wf.primary \/ wf.failed \in CleanupActs THEN "cleanup_incomplete"
    ELSE IF wf.failed = "submit_turn" THEN "delivery_unknown"
    ELSE IF wf.failed \in IntegrationActs THEN "integration_unavailable"
    ELSE "execution_failed"

LoadFailureAuthority ==
    /\ wf.pc = "failure"
    /\ wf' = [wf EXCEPT !.pc = "persist_failure", !.fresh = TRUE]
    /\ UNCHANGED <<row, obs, cmds, att, world>>

\* The failed command: a decision or a signal that could not be persisted has none.
FailedCommand == IF wf.failed \in Acts THEN cmds.cur.status ELSE None

\* The workflow hands the session over and returns, or loads again.
Reported(w, status) ==
    IF status = "cleanup_incomplete" THEN [w EXCEPT !.pc = "handed_off"]
    ELSE [w EXCEPT !.pc = "load", !.primary = TRUE]

\* The row with the evidence of the failure. A terminal is never replaced.
WithFailure(status) ==
    IF status = "cleanup_incomplete"
    THEN [row EXCEPT !.cleanup = "cleanup_incomplete", !.handoff = TRUE]
    ELSE [row EXCEPT !.terminal = IF @ = None THEN status ELSE @,
                     !.evidence = TRUE, !.failure = TRUE]

\* A command whose receipt says it was applied is no failure; evidence that exists
\* is reported again.
PersistFailure ==
    /\ wf.pc \in {"persist_failure", "quarantine"}
    /\ LET status == IF FailedCommand = "unknown" THEN "delivery_unknown" ELSE FailureStatus
           known == IF FailureStatus = "cleanup_incomplete" THEN row.handoff ELSE row.failure
       IN \/ /\ FailedCommand = "applied"
             /\ wf' = [wf EXCEPT !.pc = "load"]
             /\ UNCHANGED <<row, cmds, att>>
          \/ /\ FailedCommand # "applied" /\ known
             /\ wf' = Reported(wf, FailureStatus)
             /\ UNCHANGED <<row, cmds, att>>
          \/ /\ FailedCommand # "applied" /\ ~known /\ ~wf.fresh
             /\ wf' = [wf EXCEPT !.pc = "load"]
             /\ UNCHANGED <<row, cmds, att>>
          \/ /\ FailedCommand # "applied" /\ ~known /\ wf.fresh
             /\ row' = WithFailure(status)
             /\ cmds' = [StaleCommands EXCEPT
                            !.cur.status = IF FailedCommand \in {"pending", "claimed"}
                                           THEN "failed" ELSE @]
             /\ att' = Stale
             /\ wf' = Reported(Outdated(wf), status)
    /\ UNCHANGED <<obs, world>>

-----------------------------------------------------------------------------
(* The environment *)

Fault == budget' = [budget EXCEPT !.faults = @ + 1]

\* The worker of the attempt dies, or a service it calls fails.
Die ==
    /\ "die" \in Behaviours /\ budget.faults < MaxFaults
    /\ \/ att.main.act # None /\ Retry(att)
       \/ att.late.act # None /\ att' = [att EXCEPT !.late = NoAttempt] /\ UNCHANGED wf
    /\ Fault
    /\ UNCHANGED <<row, obs, cmds, outside>>

\* The attempt times out but goes on.
Overlap ==
    /\ "overlap" \in Behaviours /\ budget.faults < MaxFaults
    /\ att.main.act # None /\ att.late.act = None
    /\ Retry([att EXCEPT !.late = att.main])
    /\ Fault
    /\ UNCHANGED <<row, obs, cmds, outside>>

Running == wf.pc \notin {"closed", "handed_off", "dead"}

\* Every signal is sent once: a request id is queued only once.
Signal(kind, behaviour) ==
    /\ behaviour \in Behaviours /\ behaviour \notin budget.signals /\ Running
    /\ budget' = [budget EXCEPT !.signals = @ \cup {behaviour}]
    /\ wf' = [wf EXCEPT !.pending = Append(@, kind)]
    /\ UNCHANGED <<row, obs, cmds, att, outside>>

CancelSignal == Signal("cancel", "cancel_signal")

ContinuationSignal == Signal("continuation", "continuation")

\* The cancellation of the workflow interrupts what it waits for. An activity goes
\* on or is never started, and a decision may have been recorded.
CancelWorkflow ==
    /\ "workflow_cancel" \in Behaviours /\ "workflow_cancel" \notin budget.signals
    /\ Running
    /\ budget' = [budget EXCEPT !.signals = @ \cup {"workflow_cancel"}]
    /\ LET resumed == [wf EXCEPT
               !.pc = IF wf.pc \in {"failure", "persist_failure"} THEN "dead" ELSE "load",
               !.pending = IF \E i \in DOMAIN @ : @[i] = "cancel" THEN @
                           ELSE Append(@, "cancel"),
               !.tries = 0]
       IN \/ /\ wf' = resumed
             /\ att' \in {[att EXCEPT !.main = NoAttempt]} \cup
                         (IF att.late.act = None
                          THEN {[main |-> NoAttempt, late |-> att.main]} ELSE {})
             /\ UNCHANGED cmds
          \/ /\ wf.pc = "decide" /\ wf.pending = <<>> /\ ~TimeoutElapsed
             /\ wf.unnumbered = "no" /\ wf.fresh
             /\ wf' = [resumed EXCEPT !.unnumbered = "same"]
             /\ IF wf.decision.kind \in CommandKinds
                THEN /\ cmds' = Issued(wf.decision)
                     /\ att' = [att EXCEPT !.late = Late(wf.decision)]
                ELSE UNCHANGED <<cmds, att>>
    /\ UNCHANGED <<row, obs, outside>>

DeadlinePasses ==
    /\ "deadline" \in Behaviours /\ ~budget.deadline
    /\ budget' = [budget EXCEPT !.deadline = TRUE]
    /\ UNCHANGED <<row, obs, cmds, att, wf, outside>>

\* Another writer of the row.
OtherWrite(newRow) ==
    /\ row' = newRow
    /\ cmds' = StaleCommands
    /\ att' = Stale
    /\ wf' = Outdated(wf)
    /\ UNCHANGED <<obs, outside>>

Bump ==
    /\ budget.bumps < MaxBumps /\ Running
    /\ budget' = [budget EXCEPT !.bumps = @ + 1]
    /\ OtherWrite(row)

\* The sweep of stuck sessions gives one up that has not ended.
SweepQuarantines ==
    /\ "quarantine" \in Behaviours /\ Running
    /\ row.terminal = None /\ ~row.quarantined
    /\ OtherWrite([row EXCEPT !.quarantined = TRUE])
    /\ UNCHANGED budget

\* The provider ends its turn: with a terminal status, or by falling silent.
ProviderEnds ==
    /\ provider = "running"
    /\ provider' \in {"completed", "quiesced", "failed"}
    /\ UNCHANGED <<row, obs, cmds, att, wf, bridge, lease, hostUp, posts, budget>>

-----------------------------------------------------------------------------
(* The specification *)

\* One step of an attempt.
Attempted(a) ==
    \/ Claim(a) \/ Settle(a)
    \/ ProfileGeneration(a) \/ AcquireLease(a) \/ BindLease(a)
    \/ HostGeneration(a) \/ LaunchHost(a) \/ BindHost(a)
    \/ CreateProviderSession(a) \/ AttachProviderSession(a)
    \/ PrepareTurn(a) \/ MarkPosting(a) \/ PostMessage(a) \/ MarkPosted(a) \/ AcceptTurn(a)
    \/ RecordTerminal(a) \/ HarvestEvidence(a)
    \/ PublishWorkspace(a) \/ BindPublication(a) \/ AttachEvidence(a)
    \/ StopProvider(a) \/ MarkProviderStopped(a) \/ StopHost(a) \/ MarkHostStopped(a)
    \/ ReleaseLeases(a) \/ MarkReleased(a)

Supervise ==
    \/ Load \/ PersistPendingSignals \/ LookBeforeTimeout \/ QueueTimeout
    \/ PersistDecision \/ Observe \/ LoadFailureAuthority \/ PersistFailure

\* An attempt fails at a call whose effect is not undone.
Faulted(a) == LosePost(a) \/ AbandonLease(a)

Environment ==
    \/ Die \/ Overlap \/ ObserveUnavailable \/ \E a \in Who : Faulted(a)
    \/ CancelSignal \/ ContinuationSignal \/ CancelWorkflow
    \/ DeadlinePasses \/ Bump \/ SweepQuarantines \/ ProviderEnds

Ending == ~Running /\ att.main.act = None /\ UNCHANGED vars

Next == Supervise \/ (\E a \in Who : Attempted(a)) \/ Environment \/ Ending

Spec == Init /\ [][Next]_vars

\* Temporal runs the workflow and the activity it waits for, and time passes. The
\* provider owes nothing.
FairSpec ==
    /\ Spec
    /\ WF_vars(Supervise)
    /\ WF_vars(Attempted("main"))
    /\ WF_vars(DeadlinePasses)

-----------------------------------------------------------------------------
(* Properties *)

\* The types of the state variables: among them, no activity is attempted more often
\* than its retry policy allows (_retry_policy).
TypeOK ==
    /\ row \in [desired : {"run", "cancel", "timeout"}, quarantined : BOOLEAN,
                profileGen : BOOLEAN, profile : BOOLEAN, hostGen : BOOLEAN,
                host : BOOLEAN, attached : BOOLEAN, turn : {"prepared", "accepted"},
                ambiguous : BOOLEAN, continued : BOOLEAN,
                terminal : TerminalStates \cup {None}, evidence : BOOLEAN,
                harvested : BOOLEAN, published : BOOLEAN, failure : BOOLEAN,
                handoff : BOOLEAN, cleanup : CleanupStates]
    /\ obs \in [compat : {"unseen", "ready"}, openTool : {FALSE},
                status : {None, Active, Idle} \cup Outcomes,
                turn : Outcomes \cup {None}, event : BOOLEAN,
                consumer : {"unseen", "absent", Active},
                evidence : {"unseen", "missing", "available"}, candidate : BOOLEAN]
    /\ cmds \in [Slots -> [kind : CommandKinds \cup {None}, outcome : Outcomes \cup {None},
                           status : {"pending", "claimed", "applied", "failed", "unknown"},
                           current : BOOLEAN]]
    /\ att \in [Who -> [act : Acts \cup {None}, at : Steps, cmd : Slots, rev : BOOLEAN]]
    /\ wf \in [pc : {"load", "decide", "activity", "observe", "snapshot", "timeout",
                     "failure", "persist_failure", "quarantine", "closed", "handed_off",
                     "dead"},
               fresh : BOOLEAN, decision : [kind : Kinds, outcome : Outcomes \cup {None}],
               expired : BOOLEAN, pending : Seq({"cancel", "timeout", "continuation"}),
               failed : Acts \cup {None, "persist_signal_intents", "persist_decision"},
               primary : BOOLEAN, snapshots : 0..SnapshotAttempts, tries : 0..(Attempts - 1),
               unnumbered : {"no", "same", "stale"}]
    /\ bridge \in {"not_prepared", "prepared", "posting", "posted"}
    /\ lease \in LeaseStates /\ hostUp \in BOOLEAN
    /\ provider \in {"absent", "ready", "running", "completed", "quiesced", "failed",
                     "canceled"}
    /\ posts \in Nat
    /\ budget \in [faults : 0..MaxFaults, bumps : 0..MaxBumps, deadline : BOOLEAN,
                   signals : SUBSET Behaviours]

\* The first message reaches the provider at most once, whatever dies, is lost or is
\* attempted again (submit_turn's bridge row and its marker).
PostedAtMostOnce == posts <= 1

\* The recorded outcome is what happened: a completed session's message was delivered
\* once and its turn did end, a failed one's provider failed, or the session had no
\* attempt left for a continuation (record_terminal, _detect_terminal).
RecordedOutcomeIsReal ==
    /\ row.terminal = "completed" => posts > 0 /\ provider \in {"completed", "quiesced"}
    /\ row.terminal = "failed" => provider = "failed" \/ row.continued

\* Nothing is cleaned up before the work is published or the session has evidence of
\* its failure (harvest_evidence and publish_workspace before stop_provider_session).
WorkIsPublished == row.cleanup # "pending" => row.published \/ row.failure

\* A turn is accepted only after its message reached the provider, although several
\* attempts may work on it (submit_turn, and the recovery from a lost response).
AcceptedWasPosted == row.turn = "accepted" => posts > 0

\* Until its host is stopped, the lease that the row binds is held. It is lost in one
\* way only: an attempt of ensure_provider_profile_lease that fails after it has
\* acquired the lease gives it up, and no attempt has acquired it again. No conflict
\* of revisions, other writer or dead attempt loses it (bind_runtime_authority,
\* release_leases).
BoundLeaseIsHeld ==
    row.profile /\ row.cleanup \in {"pending", "provider_stopped"} =>
        lease \in {"held", "given_up"}

\* The profile lease is released only after the host is stopped (OmnigentAdapter.md,
\* stop_host before release_leases).
LeaseOutlivesHost == hostUp => lease = "held"

\* The first outcome on record is final: no late attempt, no cancellation, timeout or
\* failure that comes after it replaces it (mark_terminal, persist_failure_evidence).
OutcomeIsFinal == [][row.terminal # None => row'.terminal = row.terminal]_vars

\* The lifecycle phase derived from the row never goes back, except when the cleanup
\* is handed to the janitor (LifecyclePhase of the reconciler's contracts,
\* current_phase).
PhaseNeverRegresses ==
    [][\/ CurrentPhase(Durable)' >= CurrentPhase(Durable)
       \/ row'.cleanup = "cleanup_incomplete"]_vars

\* The row implements the lifecycle its readers rely on: one outcome, evidence, then
\* the cleanup in its order (the writers of OmnigentSession rows).
Lifecycle == INSTANCE SessionLifecycle
    WITH terminal <- row.terminal, evidence <- row.evidence, cleanup <- row.cleanup

ImplementsLifecycle == Lifecycle!Spec

\* The provider's last observed status contradicts the recorded outcome.
Contradicted ==
    /\ row.terminal # None
    /\ obs.status \in Outcomes /\ obs.status # DurableOutcome(row.terminal)

\* The stop of the host was given up and its report lost: the reducer waits for an
\* observation that no one will make, since it does not begin a cleanup twice.
Stranded == row.cleanup = "provider_stopped" /\ wf.decision = Await

\* Every session comes to its end: the workflow closes it or hands its cleanup to the
\* janitor. There are two ways to miss it: the provider contradicts the outcome on
\* record, or the cleanup is stranded (_run_until_terminal).
SessionSettles == <>(~Running \/ Contradicted \/ Stranded)

\* A session that is quarantined goes on into the same cleanup as any other (comment in
\* _run_until_terminal).
QuarantinedIsCleanedUp == row.failure ~> ~Running
=============================================================================
