----------------------------- MODULE Reconciler -----------------------------
(* The pure reducer of an Omnigent session: the decision it takes from the  *)
(* durable session state d and the latest observations o, and the lifecycle *)
(* phase it derives from d (moonmind/omnigent/reconciler).                  *)
(*                                                                          *)
(* d: quarantined, failed, desired ("run" or "cancel"), outcome (None or an *)
(*    Outcomes), profile and host (the lease is held), attached, submission,*)
(*    attempts, evidence (the terminal evidence reference exists), started  *)
(*    and complete (of the cleanup).                                        *)
(* o: compat ("unseen", "ready", "not_ready", "unknown"), status (None, or  *)
(*    the class of the provider's status), openTool, turn (None, or the     *)
(*    outcome of a finished turn), event (a terminal event was seen),       *)
(*    consumer ("unseen", "active", "absent") and evidence ("unseen",       *)
(*    "missing", "available").                                              *)
EXTENDS Naturals

CONSTANT None

Outcomes == {"success", "failure", "cancelled"}

Active == "active"
Idle == "idle"

\* The class of a provider's status, its vocabulary abstracted to one word per class.
ClassifyProviderStatus(raw) ==
    CASE raw = "running" -> Active
      [] raw = "idle" -> Idle
      [] raw = "awaiting_approval" -> "intervention"
      [] raw = "completed" -> "success"
      [] raw \in {"failed", "timed_out"} -> "failure"
      [] raw = "canceled" -> "cancelled"
      [] OTHER -> "unknown"

Decide(kind) == [kind |-> kind, outcome |-> None]

Record(kind, outcome) == [kind |-> kind, outcome |-> outcome]

Quarantine == Decide("quarantine_ambiguous_state")

Await == Decide("await_observation")

\* The kinds whose decision carries a command, and the ones that end the session
\* with a failure.
CommandKinds ==
    {"ensure_profile_lease", "ensure_host", "ensure_provider_session", "submit_turn",
     "record_provider_terminal", "synthesize_terminal_from_snapshot",
     "harvest_evidence", "begin_cleanup", "release_leases"}

TerminalKinds == {"record_provider_terminal", "synthesize_terminal_from_snapshot"}

FailureKinds == {"quarantine_ambiguous_state", "fail_nonretryable"}

Kinds == CommandKinds \cup FailureKinds
             \cup {"await_observation", "retry_transient_observation", "no_op"}

\* Mutant: an idle provider has finished its turn
DetectTerminalWhenIdle(o) ==
    IF o.status = Idle THEN Record("synthesize_terminal_from_snapshot", "success")
    ELSE IF o.status \in Outcomes THEN Record("synthesize_terminal_from_snapshot", o.status)
    ELSE Await

\* What an accepted turn's observations say: a terminal is recorded only from the
\* provider's own terminal status or, when it is idle, from a finished turn.
DetectTerminal(o) ==
    IF o.status = None THEN Await
    ELSE IF o.status = "absent" THEN Quarantine
    ELSE IF o.status \in Outcomes
        THEN Record(IF o.event THEN "record_provider_terminal"
                               ELSE "synthesize_terminal_from_snapshot", o.status)
    ELSE IF o.status = Idle /\ ~o.openTool /\ o.turn # None
        THEN Record("synthesize_terminal_from_snapshot", o.turn)
    ELSE Await

LeasesHeld(d) == d.profile \/ d.host

\* The observations of the two leases and of the host are taken together, from the
\* cleanup state: o.consumer is their disjunction.
ConsumersActive(o) == o.consumer = Active

ConsumersConfirmedAbsent(o) == o.consumer = "absent"

\* Mutant: the cleanup does not wait for the evidence
CleanUpAtOnce(d, o) ==
    IF ~d.started THEN Decide("begin_cleanup")
    ELSE IF LeasesHeld(d)
    THEN IF d.complete /\ ConsumersConfirmedAbsent(o) THEN Decide("release_leases") ELSE Await
    ELSE Decide("no_op")

\* The chain after a recorded terminal: harvest, clean up, release, close.
PostTerminalChain(d, o) ==
    IF ~d.evidence
    THEN CASE o.evidence = "unseen" -> Await
           [] o.evidence = "missing" -> Decide("retry_transient_observation")
           [] o.evidence = "available" -> Decide("harvest_evidence")
    ELSE IF ~d.started THEN Decide("begin_cleanup")
    ELSE IF LeasesHeld(d)
    THEN IF ~ConsumersActive(o) /\ d.complete /\ ConsumersConfirmedAbsent(o)
         THEN Decide("release_leases") ELSE Await
    ELSE IF ~d.complete THEN Await
    ELSE Decide("no_op")

\* A running provider is stale news after a terminal; another outcome contradicts it.
PostTerminal(d, o) ==
    IF o.status \in Outcomes /\ o.status # d.outcome THEN Quarantine
    ELSE PostTerminalChain(d, o)

\* The one next decision. A turn always has an attempt id, and intent and durable
\* state always name the same session: the guards for their absence never fire.
Reconcile(d, o, maxTurnAttempts) ==
    IF d.failed THEN Decide("fail_nonretryable")
    ELSE IF d.quarantined THEN Quarantine
    ELSE IF o.compat = "unknown" THEN Quarantine
    ELSE IF o.compat = "not_ready" THEN Await
    ELSE IF d.outcome # None THEN PostTerminal(d, o)
    ELSE IF d.desired = "cancel" THEN Record("record_provider_terminal", "cancelled")
    ELSE IF ~d.profile THEN Decide("ensure_profile_lease")
    ELSE IF ~d.host THEN Decide("ensure_host")
    ELSE IF ~d.attached THEN Decide("ensure_provider_session")
    ELSE IF d.submission = "not_submitted"
    THEN IF d.attempts >= maxTurnAttempts
         THEN Record("record_provider_terminal", "failure")
         ELSE Decide("submit_turn")
    ELSE IF d.submission = "in_flight" /\ o.status \in {None, "absent", "unknown"}
    THEN Await
    ELSE DetectTerminal(o)

\* How far the session is, from 0 (initializing) to 9 (closed). A lease is held or
\* not, so the phase between them for a partial release (8) does not occur.
CurrentPhase(d) ==
    IF d.outcome = None
    THEN IF d.submission = "accepted" THEN 4
         ELSE IF d.attached THEN 3
         ELSE IF d.host THEN 2
         ELSE IF d.profile THEN 1
         ELSE 0
    ELSE IF ~LeasesHeld(d) /\ d.complete THEN 9
    ELSE IF d.started THEN 7
    ELSE IF d.evidence THEN 6
    ELSE 5
=============================================================================
