----------------------- MODULE OmnigentDeliveryProofs ----------------------
(***************************************************************************)
(* One message and one lease, when no attempt goes on beyond its timeout:  *)
(* whatever dies, is lost or is cancelled, the first message of an         *)
(* Omnigent session is posted once at most, and its lease is held while    *)
(* its credentials may be in use.                                          *)
(***************************************************************************)
EXTENDS OmnigentOutcomeProofs

-----------------------------------------------------------------------------
(* What no step but an attempt's does *)

\* The attempts are where they were, where another one was, or at their start.
Placed ==
    \A b \in Who : \/ att'[b].at = "claim"
                   \/ \E c \in Who : att'[b].act = att[c].act /\ att'[b].at = att[c].at

\* The resources of the session and its message are left alone.
Supervised ==
    /\ UNCHANGED <<bridge, lease, hostUp, posts>>
    /\ row'.profile = row.profile /\ row'.host = row.host
    /\ row'.attached = row.attached /\ row'.turn = row.turn
    /\ row'.ambiguous = row.ambiguous
    /\ row'.cleanup \in {row.cleanup, "cleanup_incomplete"}
    /\ row.desired # "run" => row'.desired # "run"
    /\ row'.continued = row.continued
          \/ \E i \in DOMAIN wf.pending : wf.pending[i] = "continuation"
    /\ Placed

\* The kinds of steps that are not an attempt's.
Elsewhere ==
    \/ Quiet \/ Load \/ SignalsPersisted \/ PersistDecision
    \/ Observe \/ ObserveUnavailable \/ PersistFailure
    \/ Die \/ Overlap \/ CancelWorkflow \/ ProviderEnds

\* Attempts that keep their places are placed.
LEMMA SameIsPlaced ==
    ASSUME SameAttempts
    PROVE  Placed
BY DEF SameAttempts, Placed

\* None of them touches the resources.
LEMMA ElsewhereSupervised ==
    ASSUME Types, Existing, Elsewhere
    PROVE  Supervised
<1>0. row \in RowStates /\ Control
      /\ Who = {"main", "late"} /\ "main" \in Who /\ "late" \in Who
  BY DEF Types, Who
<1> DEFINE Row(r) == /\ r.profile = row.profile /\ r.host = row.host
                     /\ r.attached = row.attached /\ r.turn = row.turn
                     /\ r.ambiguous = row.ambiguous
                     /\ r.cleanup \in {row.cleanup, "cleanup_incomplete"}
                     /\ row.desired # "run" => r.desired # "run"
<1>1. Row(row)
  OBVIOUS
<1>2. CASE Quiet
  <2>1. /\ row' = [row EXCEPT !.quarantined = row'.quarantined] /\ SameAttempts /\ SameWorld
    BY <1>2 DEF Quiet
  <2>2. Row(row') /\ row'.continued = row.continued
    BY <1>0, <2>1 DEF RowStates
  <2> QED
    BY <2>1, <2>2, SameIsPlaced DEF Supervised, SameWorld
<1>3. CASE Load
  BY <1>0, <1>1, <1>3, LoadEffect, SameEffect, SameIsPlaced DEF Supervised, world
<1>4. CASE SignalsPersisted
  <2>1. PICK signals \in Seq(Signals) :
          /\ PersistSignals(signals)
          /\ \A i \in DOMAIN signals : \/ signals[i] = "timeout"
                                       \/ \E k \in DOMAIN wf.pending : wf.pending[k] = signals[i]
    BY <1>4 DEF SignalsPersisted
  <2>2. /\ SameAttempts /\ UNCHANGED <<obs, world>>
        /\ row' = row \/ row' = Wanted(signals)
    BY <2>1, PersistSignalsEffect
  <2>3. CASE row' = row
    BY <1>1, <2>2, <2>3, SameIsPlaced DEF Supervised, world
  <2>4. CASE row' = Wanted(signals)
    <3>1. /\ row' = [row EXCEPT !.desired = row'.desired, !.continued = row'.continued]
          /\ row.desired # "run" => row'.desired # "run"
          /\ (\A i \in DOMAIN signals : signals[i] # "continuation") =>
                 row'.continued = row.continued
      BY <1>0, <2>4, WantedEffect
    <3>2. Row(row')
      BY <1>0, <3>1 DEF RowStates
    <3>3. \/ row'.continued = row.continued
          \/ \E i \in DOMAIN wf.pending : wf.pending[i] = "continuation"
      BY <2>1, <3>1
    <3> QED
      BY <2>2, <3>2, <3>3, SameIsPlaced DEF Supervised, world
  <2> QED
    BY <2>2, <2>3, <2>4
<1>5. CASE PersistDecision
  <2>1. /\ UNCHANGED <<row, obs, world>>
        /\ \/ UNCHANGED <<cmds, att>>
           \/ /\ Recorded(wf.decision)
              /\ att'.main = Attempt(FirstActivity(wf.decision.kind))
              /\ FirstActivity(wf.decision.kind) \in Acts
    BY <1>5, PersistDecisionEffect
  <2>2. Placed
    <3>1. CASE UNCHANGED <<cmds, att>>
      BY <1>0, <3>1, SameEffect, SameIsPlaced
    <3>2. CASE /\ Recorded(wf.decision)
               /\ att'.main = Attempt(FirstActivity(wf.decision.kind))
               /\ FirstActivity(wf.decision.kind) \in Acts
      <4>1. att'["main"].at = "claim"
        BY <3>2, FreshAttempts
      <4>2. att'["late"].act = att["late"].act /\ att'["late"].at = att["late"].at
        BY <3>2 DEF Recorded
      <4> QED
        BY <1>0, <4>1, <4>2 DEF Placed
    <3> QED
      BY <2>1, <3>1, <3>2
  <2> QED
    BY <1>1, <2>1, <2>2 DEF Supervised, world
<1>6. CASE Observe \/ ObserveUnavailable
  BY <1>1, <1>6, ObserveEffect, SameIsPlaced DEF Supervised, SameWorld
<1>7. CASE PersistFailure
  <2>1. FailureRecorded /\ SameAttempts /\ SameWorld
    BY <1>7, PersistFailureEffect
  <2> DEFINE status == IF FailedCommand = "unknown" THEN "delivery_unknown"
                       ELSE FailureStatus
  <2>2. status \in Failures \cup {"cleanup_incomplete"}
    BY FailureStatuses DEF Failures
  <2>3. row' = row \/ row' = WithFailure(status)
    BY <2>1 DEF FailureRecorded
  <2> HIDE DEF status
  <2>4. \/ row' = row
        \/ row' = [row EXCEPT !.cleanup = "cleanup_incomplete", !.handoff = TRUE]
        \/ row' = [row EXCEPT !.terminal = row'.terminal, !.evidence = TRUE, !.failure = TRUE]
    BY <1>0, <2>2, <2>3, FailureRows
  <2>5. Row(row') /\ row'.continued = row.continued
    BY <1>0, <2>4 DEF RowStates
  <2> QED
    BY <2>1, <2>5, SameIsPlaced DEF Supervised, SameWorld
<1>8. CASE Die \/ Overlap
  <2>1. /\ row' = row /\ SameWorld
        /\ \/ Retries("main") /\ att'.late \in {att.late, att.main}
           \/ att'.main = att.main /\ att'.late = NoAttempt
    BY <1>8, DieEffect
  <2>2. Placed
    BY <1>0, <2>1, FreshAttempts DEF Retries, Leaves, Placed
  <2> QED
    BY <1>1, <2>1, <2>2 DEF Supervised, SameWorld
<1>9. CASE CancelWorkflow
  <2>1. /\ row' = row /\ SameWorld
        /\ \/ att'.main = NoAttempt /\ att'.late \in {att.late, att.main}
           \/ SameAttempts
           \/ Recorded(wf.decision) /\ att'.main = att.main
    BY <1>9, CancelWorkflowEffect
  <2>2. Placed
    BY <1>0, <2>1, FreshAttempts DEF SameAttempts, Recorded, Placed
  <2> QED
    BY <1>1, <2>1, <2>2 DEF Supervised, SameWorld
<1>10. CASE ProviderEnds
  BY <1>0, <1>1, <1>10, ProviderEffect DEF Supervised, Placed
<1> QED
  BY <1>2, <1>3, <1>4, <1>5, <1>6, <1>7, <1>8, <1>9, <1>10 DEF Elsewhere

-----------------------------------------------------------------------------
(* The activities that set a session up do not run twice *)

\* The activities before the outcome.
Early == {"ensure_profile", "ensure_host", "ensure_session", "submit_turn"}

CancelPending == \E i \in DOMAIN wf.pending : wf.pending[i] = "cancel"

\* A late attempt of one of them was left behind by the cancellation of the workflow.
\* Until the cancellation is on record it is pending, and a decision taken before it is
\* discarded: the workflow does not start another one.
OneEarly ==
    /\ ~(att.main.act \in Early /\ att.late.act \in Early)
    /\ att.late.act \in Early =>
          CancelPending \/ row.desired # "run" \/ row.terminal # None
    /\ wf.pc = "decide" /\ wf.decision.kind \in EarlyKinds /\ att.late.act \in Early =>
          CancelPending

\* None of them follows another activity.
LEMMA EarlyIsFirst ==
    /\ None \notin Early
    /\ \A act \in Acts \cup {None} : NextActivity(act) \notin Early
    /\ \A kind \in CommandKinds : FirstActivity(kind) \in Early => kind \in EarlyKinds
<1>1. None \notin Early
  BY NoneIsNothing DEF Early, Acts
<1>2. \A act \in Acts \cup {None} : NextActivity(act) \notin Early
  BY <1>1, NextActivities DEF Early
<1>3. \A kind \in CommandKinds : FirstActivity(kind) \in Early => kind \in EarlyKinds
  BY FirstActivities DEF Early, EarlyKinds
<1> QED
  BY <1>1, <1>2, <1>3

\* A step of an attempt.
LEMMA AttemptOneEarly ==
    ASSUME Types, OneEarly, Lasting, NEW a \in Who, Summary(a)
    PROVE  OneEarly'
<1>0. /\ Who = {"main", "late"} /\ "main" \in Who /\ "late" \in Who
      /\ att.main.act \in Acts \cup {None}
      /\ Others(a) /\ SameSupervision /\ SomeMove(a) /\ row'.desired = row.desired
      /\ row.terminal # None => row'.terminal # None
  BY DEF Who, Types, Control, AttemptStates, Summary, Moved, Framed, RowBy, Lasting, Later
<1>1. /\ att'["late"].act \in {att["late"].act, None}
      /\ att'["main"].act \in Early => att["main"].act \in Early
      /\ wf'.pc = "decide" => wf.pc = "decide"
  <2>1. CASE a = "late"
    BY <1>0, <2>1 DEF Others, SomeMove, Goes, Returns, Retries, Drops, Leaves
  <2>2. CASE a = "main"
    <3>1. att'["late"].act = att["late"].act
      BY <1>0, <2>2 DEF Others
    <3>2. CASE \E at \in Steps : Goes(a, at)
      BY <2>2, <3>1, <3>2 DEF Goes
    <3>3. CASE Returns(a)
      BY <1>0, <2>2, <3>1, <3>3, EarlyIsFirst DEF Returns, Leaves
    <3>4. CASE Retries(a) \/ Drops(a)
      BY <1>0, <2>2, <3>1, <3>4, EarlyIsFirst DEF Retries, Drops, Leaves
    <3> QED
      BY <1>0, <3>2, <3>3, <3>4 DEF SomeMove
  <2> QED
    BY <1>0, <2>1, <2>2
<1>2. CancelPending' = CancelPending /\ wf'.decision = wf.decision
  BY <1>0 DEF CancelPending, SameSupervision
<1> QED
  BY <1>0, <1>1, <1>2, EarlyIsFirst DEF OneEarly

\* The steps that leave every attempt its activity and take no decision.
LEMMA SameOneEarly ==
    ASSUME Types, OneEarly, Lasting, SameAttempts,
           row.desired # "run" => row'.desired # "run",
           CancelPending => CancelPending' \/ row'.desired # "run" \/ row'.terminal # None,
           wf'.pc = "decide" =>
              /\ wf.pc = "decide" /\ wf'.decision = wf.decision
              /\ CancelPending => CancelPending'
    PROVE  OneEarly'
<1>1. /\ att'["main"].act = att["main"].act /\ att'["late"].act = att["late"].act
      /\ row.terminal # None => row'.terminal # None
  BY DEF SameAttempts, Who, Lasting, Later
<1> QED
  BY <1>1 DEF OneEarly

\* A step elsewhere, where no attempt overlaps the next one.
LEMMA ElsewhereOneEarly ==
    ASSUME "overlap" \notin Behaviours, Sound, OneEarly, Kept, Elsewhere
    PROVE  OneEarly'
<1>0. /\ Types /\ Existing /\ Lasting /\ Who = {"main", "late"} /\ Supervised
      /\ row.desired # "run" => row'.desired # "run"
      /\ row.terminal # None => row'.terminal # None
      /\ att.main.act # None => wf.pc = "activity"
  BY ElsewhereSupervised
     DEF Sound, Kept, Who, Lasting, Later, Supervised, WorkflowSound
<1>1. CASE Quiet
  <2>1. /\ SameAttempts /\ wf'.decision = wf.decision
        /\ wf'.pc = "decide" => wf.pc = "decide"
        /\ CancelPending => CancelPending'
    BY <1>1 DEF Quiet, CancelPending, Signals
  <2> QED
    BY <1>0, <2>1, SameOneEarly
<1>2. CASE Load
  <2>1. /\ wf'.pending = wf.pending /\ Founded(wf'.decision)
        /\ UNCHANGED <<row, obs, cmds, att, world>>
    BY <1>0, <1>2, LoadEffect
  <2>2. /\ CancelPending' = CancelPending /\ att' = att /\ row' = row
        /\ wf'.decision.kind \in EarlyKinds => row.terminal = None /\ row.desired = "run"
    BY <2>1 DEF CancelPending, Founded
  <2> QED
    BY <2>2 DEF OneEarly
<1>3. CASE SignalsPersisted
  <2>1. PICK signals \in Seq(Signals) :
          /\ PersistSignals(signals)
          /\ \A s \in Signals : (\E i \in DOMAIN wf.pending : wf.pending[i] = s) =>
                                   (\E i \in DOMAIN signals : signals[i] = s)
    BY <1>3 DEF SignalsPersisted
  <2>2. /\ SameAttempts /\ wf'.pc \in {"load", "failure"}
        /\ \/ wf'.pending = signals
           \/ row'.terminal # None
           \/ (\E i \in DOMAIN signals : signals[i] = "cancel") => row'.desired # "run"
    BY <1>0, <2>1, PersistSignalsEffect
  <2>3. CancelPending => \E i \in DOMAIN signals : signals[i] = "cancel"
    BY <2>1 DEF CancelPending, Signals
  <2>4. CancelPending => CancelPending' \/ row'.desired # "run" \/ row'.terminal # None
    BY <2>2, <2>3 DEF CancelPending
  <2> QED
    BY <1>0, <2>2, <2>4, SameOneEarly
<1>4. CASE PersistDecision
  <2>1. /\ wf.pc = "decide" /\ wf.pending = <<>> /\ UNCHANGED <<row, obs, world>>
        /\ \/ /\ UNCHANGED <<cmds, att>>
              /\ wf'.pc \in {"load", "failure", "quarantine", "closed", "observe"}
           \/ /\ wf'.pc = "activity" /\ wf.decision.kind \in CommandKinds
              /\ Recorded(wf.decision)
              /\ att'.main = Attempt(FirstActivity(wf.decision.kind))
              /\ FirstActivity(wf.decision.kind) \in Acts
    BY <1>0, <1>4, PersistDecisionEffect
  <2>2. ~CancelPending
    BY <2>1 DEF CancelPending
  <2>3. CASE UNCHANGED <<cmds, att>>
    BY <1>0, <2>1, <2>2, <2>3, SameOneEarly, SameEffect DEF Types
  <2>4. CASE /\ wf'.pc = "activity" /\ wf.decision.kind \in CommandKinds
             /\ Recorded(wf.decision)
             /\ att'.main = Attempt(FirstActivity(wf.decision.kind))
             /\ FirstActivity(wf.decision.kind) \in Acts
    <3>1. att'.main.act = FirstActivity(wf.decision.kind)
      BY <2>4, FreshAttempts
    <3>2. att'.late.act = att.late.act
      BY <2>4 DEF Recorded
    <3>3. att'.main.act \in Early => att.late.act \notin Early
      BY <2>1, <2>2, <2>4, <3>1, EarlyIsFirst DEF OneEarly
    <3> QED
      BY <2>1, <2>2, <2>4, <3>2, <3>3 DEF OneEarly
  <2> QED
    BY <2>1, <2>3, <2>4
<1>5. CASE Observe \/ ObserveUnavailable
  <2>1. SameAttempts /\ wf'.pc \in {"load", "timeout"} /\ wf'.pending = wf.pending
    BY <1>0, <1>5, ObserveEffect
  <2> QED
    BY <1>0, <2>1, SameOneEarly DEF CancelPending
<1>6. CASE PersistFailure
  <2>1. SameAttempts /\ wf'.pc \in {"load", "handed_off"} /\ wf'.pending = wf.pending
    BY <1>0, <1>6, PersistFailureEffect
  <2> QED
    BY <1>0, <2>1, SameOneEarly DEF CancelPending
<1>7. CASE Die \/ Overlap
  <2>1. /\ row' = row /\ SameSupervision
        /\ \/ att.main.act # None /\ Retries("main") /\ att'.late = att.late
           \/ att'.main = att.main /\ wf' = wf /\ att'.late = NoAttempt
    BY <1>0, <1>7, DieEffect
  <2>2. /\ att'["main"].act \in Early => att["main"].act \in Early
        /\ att'["late"].act \in Early => att["late"].act \in Early
        /\ wf'.pc = "decide" => wf.pc = "decide"
    BY <2>1, FreshAttempts, EarlyIsFirst DEF Retries, Leaves
  <2>3. CancelPending' = CancelPending /\ wf'.decision = wf.decision
    BY <2>1 DEF CancelPending, SameSupervision
  <2> QED
    BY <2>1, <2>2, <2>3 DEF OneEarly
<1>8. CASE CancelWorkflow
  <2>1. /\ CancelPending' /\ wf'.pc \in {"load", "dead"}
        /\ \/ att'.main = NoAttempt
           \/ wf.pc = "decide" /\ SameAttempts
           \/ wf.pc = "decide" /\ att'.main = att.main
    BY <1>0, <1>8, CancelWorkflowEffect DEF CancelPending
  <2>2. att'.main.act = None
    BY <1>0, <2>1, FreshAttempts DEF SameAttempts
  <2> QED
    BY <2>1, <2>2, EarlyIsFirst DEF OneEarly
<1>9. CASE ProviderEnds
  <2>1. UNCHANGED <<row, obs, cmds, att, wf, bridge, lease, hostUp, posts, budget>>
    BY <1>0, <1>9, ProviderEffect
  <2> QED
    BY <2>1 DEF OneEarly, CancelPending
<1> QED
  BY <1>1, <1>2, <1>3, <1>4, <1>5, <1>6, <1>7, <1>8, <1>9 DEF Elsewhere

-----------------------------------------------------------------------------
(* The message and the lease *)

\* What is not marked as being posted was not posted, and an attempt about to post is
\* the only one that will.
Submission ==
    /\ posts <= 1
    /\ bridge \in {"not_prepared", "prepared"} => posts = 0
    /\ \A a \in Who : At(a, "submit_turn", "posting") => bridge = "prepared"
    /\ \A a \in Who : At(a, "submit_turn", "post") => posts = 0 /\ bridge = "posting"

\* Before the host is stopped, a lease that is bound or about to be is held or was given
\* up by an attempt that failed.
LeaseHeld ==
    row.cleanup \in {"pending", "provider_stopped"} =>
        /\ row.profile => lease # "free"
        /\ \A a \in Who : At(a, "ensure_profile", "bind") => lease # "free"

\* The inductive invariant of the behaviours without overlapping attempts.
Single == Sound /\ OneEarly /\ Submission /\ LeaseHeld

\* A step elsewhere leaves both alone.
LEMMA ElsewhereSingle ==
    ASSUME Submission, LeaseHeld, Supervised
    PROVE  Submission' /\ LeaseHeld'
<1>1. Submission'
  BY DEF Submission, Supervised, Placed, At
<1>2. LeaseHeld'
  BY DEF LeaseHeld, Supervised, Placed, At
<1> QED
  BY <1>1, <1>2

\* Two attempts are not both early.
LEMMA OtherIsLate ==
    ASSUME OneEarly, NEW a \in Who, NEW b \in Who \ {a}, att[a].act \in Early
    PROVE  att[b].act \notin Early
BY DEF OneEarly, Who

\* A step of an attempt posts once.
LEMMA AttemptSubmission ==
    ASSUME Types, OneEarly, Submission, Kept, NEW a \in Who, Summary(a)
    PROVE  Submission'
<1>0. /\ WorldBy(a) /\ PlaceBy(a) /\ Others(a) /\ posts \in Nat
      /\ bridge \in {"not_prepared", "prepared", "posting", "posted"}
  BY DEF Summary, Moved, Framed, Types, Outside
<1>1. \A b \in Who \ {a} : att[a].act = "submit_turn" => att[b].act # "submit_turn"
  BY OtherIsLate DEF Early
<1>2. CASE posts' = posts
  <2>1. bridge' \in {"not_prepared", "prepared"} => posts' = 0
    BY <1>0, <1>2 DEF WorldBy, Submission
  <2>2. At(a, "submit_turn", "posting")' => bridge' = "prepared"
    BY <1>0 DEF PlaceBy
  <2>3. At(a, "submit_turn", "post")' => posts' = 0 /\ bridge' = "posting"
    BY <1>0, <1>2 DEF PlaceBy, Submission
  <2>4. \A b \in Who \ {a} : At(b, "submit_turn", "posting")' => bridge' = "prepared"
    BY <1>0, <1>1 DEF WorldBy, Submission, Others, At
  <2>5. \A b \in Who \ {a} : At(b, "submit_turn", "post")' => posts' = 0 /\ bridge' = "posting"
    BY <1>0, <1>1, <1>2 DEF WorldBy, Submission, Others, At
  <2> QED
    BY <1>2, <2>1, <2>2, <2>3, <2>4, <2>5 DEF Submission
<1>3. CASE At(a, "submit_turn", "post") /\ posts' = posts + 1
  <2>1. posts = 0 /\ bridge = "posting" /\ bridge' = bridge
    BY <1>0, <1>3 DEF WorldBy, Submission, At
  <2>2. ~At(a, "submit_turn", "posting")' /\ ~At(a, "submit_turn", "post")'
    BY <1>0, <1>3 DEF PlaceBy, At
  <2>3. \A b \in Who \ {a} : ~At(b, "submit_turn", "posting")' /\ ~At(b, "submit_turn", "post")'
    BY <1>0, <1>1, <1>3 DEF Others, At
  <2> QED
    BY <1>3, <2>1, <2>2, <2>3 DEF Submission
<1> QED
  BY <1>0, <1>2, <1>3 DEF WorldBy

\* A step of an attempt keeps the lease while it is needed.
LEMMA AttemptLease ==
    ASSUME Types, OneEarly, LeaseHeld, Kept, NEW a \in Who, Summary(a)
    PROVE  LeaseHeld'
<1>0. /\ WorldBy(a) /\ PlaceBy(a) /\ RowBy(a) /\ Others(a)
      /\ lease \in LeaseStates /\ lease' \in LeaseStates
      /\ row.profile \in BOOLEAN
  BY DEF Summary, Moved, Framed, Types, Outside, Kept, RowStates
<1>1. \A b \in Who \ {a} : att[a].act = "ensure_profile" => att[b].act # "ensure_profile"
  BY OtherIsLate DEF Early
<1> SUFFICES ASSUME row'.cleanup \in {"pending", "provider_stopped"}
             PROVE  /\ row'.profile => lease' # "free"
                    /\ \A b \in Who : At(b, "ensure_profile", "bind")' => lease' # "free"
  BY DEF LeaseHeld
<1>2. row.cleanup \in {"pending", "provider_stopped"}
  BY <1>0 DEF RowBy
<1>3. row'.profile => lease' # "free"
  <2>1. CASE lease' = lease
    BY <1>0, <1>2, <2>1 DEF RowBy, LeaseHeld
  <2>2. CASE At(a, "ensure_profile", "bind") /\ ~row.profile /\ row' = row
    BY <2>2
  <2>3. CASE lease' \in {"held", "given_up"}
    BY <2>3
  <2> QED
    BY <1>0, <1>2, <2>1, <2>2, <2>3 DEF WorldBy
<1>4. \A b \in Who \ {a} : At(b, "ensure_profile", "bind")' => lease' # "free"
  BY <1>0, <1>1, <1>2 DEF Others, At, WorldBy, LeaseHeld
<1>5. At(a, "ensure_profile", "bind")' => lease' # "free"
  BY <1>0 DEF PlaceBy
<1> QED
  BY <1>3, <1>4, <1>5

\* Every step keeps the invariant.
LEMMA StepSingle ==
    ASSUME "overlap" \notin Behaviours, Single, [Next]_vars
    PROVE  Single'
<1>0. Sound' /\ Kept /\ Types /\ Existing /\ Lasting
  BY StepSound DEF Single, Sound, Kept
<1>1. CASE \E a \in Who : Summary(a)
  BY <1>0, <1>1, AttemptOneEarly, AttemptSubmission, AttemptLease DEF Single
<1>2. CASE Elsewhere
  BY <1>0, <1>2, ElsewhereOneEarly, ElsewhereSupervised, ElsewhereSingle DEF Single
<1> QED
  BY <1>0, <1>1, <1>2, StepKinds DEF Elsewhere

\* The initial state has it.
LEMMA InitSingle ==
    ASSUME Init
    PROVE  Single
<1>0. \A a \in Who : att[a].act = None
  BY FreshAttempts DEF Init
<1>1. OneEarly
  BY <1>0, EarlyIsFirst DEF OneEarly, Who
<1>2. Submission /\ LeaseHeld
  BY <1>0, NoneIsNothing DEF Init, Submission, LeaseHeld, At, Acts
<1> QED
  BY <1>1, <1>2, InitSound DEF Single

\* Without overlapping attempts the invariant holds in every behaviour.
THEOREM SessionSingle ==
    ASSUME "overlap" \notin Behaviours
    PROVE  Spec => []Single
<1>1. Init => Single
  BY InitSingle
<1>2. Single /\ [Next]_vars => Single'
  BY StepSingle
<1> QED
  BY <1>1, <1>2, PTL DEF Spec

\* The first message reaches the provider at most once, whatever dies, is lost, is
\* retried or is cancelled, unless an attempt outlives its timeout (submit_turn, its
\* bridge row and its marker).
THEOREM MessagePostedOnce ==
    ASSUME "overlap" \notin Behaviours
    PROVE  Spec => []PostedAtMostOnce
<1>1. Single => PostedAtMostOnce
  BY DEF Single, Submission, PostedAtMostOnce
<1>2. Spec => []Single
  BY SessionSingle
<1> QED
  BY <1>1, <1>2, PTL

\* A bound lease is held until the host is stopped, unless an attempt of
\* ensure_provider_profile_lease that failed has given it up, or an attempt outlives its
\* timeout (bind_runtime_authority, release_leases).
THEOREM LeaseHeldWhileBound ==
    ASSUME "overlap" \notin Behaviours
    PROVE  Spec => []BoundLeaseIsHeld
<1>1. Single => BoundLeaseIsHeld
  BY DEF Single, Sound, Types, Outside, LeaseStates, LeaseHeld, BoundLeaseIsHeld
<1>2. Spec => []Single
  BY SessionSingle
<1> QED
  BY <1>1, <1>2, PTL
=============================================================================
