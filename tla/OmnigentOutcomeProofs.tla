----------------------- MODULE OmnigentOutcomeProofs -----------------------
(***************************************************************************)
(* What the row of an Omnigent session records is what happened, in every  *)
(* behaviour of the session: with attempts that die or overlap, lost       *)
(* messages, cancellations, timeouts and continuations.                    *)
(***************************************************************************)
EXTENDS OmnigentSessionProofs

\* The outcome is what the provider's session p came to, or the failure of a turn that
\* was continued.
Real(outcome, p, continued) ==
    /\ outcome = "success" => p \in Finished
    /\ outcome = "failure" => p = "failed" \/ continued

\* What a decision or a command of this kind with this outcome rests on.
Backed(kind, outcome, p, r) ==
    /\ kind \in TerminalKinds => outcome \in Outcomes
    /\ Real(outcome, p, r.continued)
    /\ kind = "harvest_evidence" => r.terminal # None
    /\ kind \in {"begin_cleanup", "release_leases"} => r.terminal # None /\ r.evidence

\* The activity executes a command of its kind.
Carries(act, kind) ==
    /\ act = "record_terminal" => kind \in TerminalKinds
    /\ act \in {"harvest", "publish"} => kind = "harvest_evidence"
    /\ act \in {"stop_provider", "stop_host"} => kind = "begin_cleanup"
    /\ act = "release" => kind = "release_leases"

AttemptsSound ==
    /\ att.main.cmd = "cur"
    /\ \A a \in Who :
          /\ Carries(att[a].act, cmds[att[a].cmd].kind)
          /\ At(a, "submit_turn", "accept") => posts > 0
          /\ At(a, "publish", "attach") => row.published

WorldSound ==
    /\ provider \notin {"absent", "ready"} => posts > 0
    /\ bridge = "posted" => posts > 0
    /\ row.turn = "accepted" => posts > 0

ObservationsSound ==
    /\ Real(obs.status, provider, row.continued)
    /\ Real(obs.turn, provider, row.continued)
    /\ obs.candidate => provider \in Finished

RowSound ==
    /\ row.terminal = "completed" => provider \in Finished
    /\ row.terminal = "failed" => provider = "failed" \/ row.continued
    /\ row.evidence => row.published \/ row.failure
    /\ row.failure => row.evidence
    /\ row.cleanup # "pending" => row.evidence

CommandsSound == \A s \in Slots : Backed(cmds[s].kind, cmds[s].outcome, provider, row)

WorkflowSound ==
    /\ Backed(wf.decision.kind, wf.decision.outcome, provider, row)
    /\ wf.primary => row.failure
    /\ wf.failed \in CleanupActs => row.evidence
    /\ att.main.act # None => wf.pc = "activity"

\* The inductive invariant of every behaviour of the session.
Sound ==
    /\ Types /\ Existing
    /\ AttemptsSound /\ WorldSound /\ ObservationsSound /\ RowSound
    /\ CommandsSound /\ WorkflowSound

\* What was real stays real, and what was backed stays backed.
LEMMA StaysBacked ==
    ASSUME Lasting
    PROVE  /\ \A o : Real(o, provider, row.continued) => Real(o, provider', row'.continued)
           /\ \A k, o : Backed(k, o, provider, row) => Backed(k, o, provider', row')
<1>1. ASSUME NEW o, Real(o, provider, row.continued)
      PROVE  Real(o, provider', row'.continued)
  BY <1>1 DEF Lasting, Real, Later, ProviderLater
<1>2. ASSUME NEW k, NEW o, Backed(k, o, provider, row) PROVE Backed(k, o, provider', row')
  BY <1>1, <1>2 DEF Lasting, Backed, Later
<1> QED
  BY <1>1, <1>2

\* A decision of the reducer is backed.
LEMMA FoundedIsBacked ==
    ASSUME ObservationsSound, NEW d, Founded(d)
    PROVE  Backed(d.kind, d.outcome, provider, row)
BY DEF Founded, ObservationsSound, Backed, Real

\* The activities carry the kinds of their commands.
LEMMA Carried ==
    /\ \A kind : Carries(None, kind)
    /\ \A kind \in CommandKinds : Carries(FirstActivity(kind), kind)
    /\ \A act \in Acts : \A kind : Carries(act, kind) => Carries(NextActivity(act), kind)
<1>1. \A kind : Carries(None, kind)
  BY NoneIsNothing DEF Carries, Acts
<1>2. \A kind \in CommandKinds : Carries(FirstActivity(kind), kind)
  BY FirstActivities DEF Carries
<1>3. \A act \in Acts : \A kind : Carries(act, kind) => Carries(NextActivity(act), kind)
  BY <1>1, NextActivities DEF Carries
<1> QED
  BY <1>1, <1>2, <1>3

\* The steps that move no attempt.
LEMMA SoundBySame ==
    ASSUME Sound, Kept, SameTypes, SameAttempts, SameWorld, row'.turn = row.turn,
           ObservationsSound', RowSound',
           Backed(wf'.decision.kind, wf'.decision.outcome, provider', row'),
           wf'.primary => row'.failure, wf'.failed \in CleanupActs => row'.evidence,
           att.main.act # None => wf'.pc = "activity"
    PROVE  Sound'
<1>0. /\ "main" \in Who /\ Lasting /\ posts \in Nat
      /\ \A a \in Who : att[a] \in AttemptStates /\ att[a].cmd \in Slots
  BY DEF Who, Kept, Sound, Types, Outside, Control, AttemptStates
<1>1. AttemptsSound'
  BY <1>0 DEF Sound, AttemptsSound, SameAttempts, SameTypes, SameCommands, SameWorld, Lasting,
              Later, At
<1>2. WorldSound'
  BY DEF Sound, WorldSound, SameWorld
<1>3. CommandsSound'
  BY <1>0, StaysBacked DEF Sound, CommandsSound, SameTypes, SameCommands
<1>4. WorkflowSound'
  BY <1>0 DEF WorkflowSound, SameAttempts
<1> QED
  BY <1>1, <1>2, <1>3, <1>4 DEF Sound, Kept

\* The observations and the row stay sound when nobody writes them.
LEMMA RecordsStaySound ==
    ASSUME Sound, Lasting
    PROVE  /\ obs' = obs => ObservationsSound'
           /\ row' = row => RowSound'
<1>1. ASSUME obs' = obs PROVE ObservationsSound'
  BY <1>1, StaysBacked DEF Sound, ObservationsSound, Lasting, ProviderLater
<1>2. ASSUME row' = row PROVE RowSound'
  BY <1>2 DEF Sound, RowSound, Lasting, ProviderLater
<1> QED
  BY <1>1, <1>2

\* The workflow's part stays sound when its decision, its failures and its place do.
LEMMA DecisionStaysBacked ==
    ASSUME Sound, Lasting, wf'.decision = wf.decision
    PROVE  Backed(wf'.decision.kind, wf'.decision.outcome, provider', row')
BY StaysBacked DEF Sound, WorkflowSound

\* A step of an attempt keeps the commands the attempts execute.
LEMMA AttemptCarries ==
    ASSUME Sound, Kept, NEW a \in Who, Summary(a)
    PROVE  /\ att'["main"].cmd = "cur"
           /\ \A b \in Who : Carries(att'[b].act, cmds'[att'[b].cmd].kind)
           /\ att'["main"].act # None => wf'.pc = "activity"
<1>0. /\ "main" \in Who /\ "late" \in Who /\ Who = {"main", "late"} /\ "cur" \in Slots
      /\ \A b \in Who : /\ att[b] \in AttemptStates /\ att[b].cmd \in Slots
                        /\ att[b].act \in Acts \cup {None}
                        /\ Carries(att[b].act, cmds[att[b].cmd].kind)
      /\ att["main"].cmd = "cur" /\ (att["main"].act # None => wf.pc = "activity")
  BY DEF Who, Slots, Sound, Types, Control, AttemptStates, AttemptsSound, WorkflowSound
<1>1. /\ Others(a) /\ SomeMove(a)
      /\ \A s \in Slots : cmds'[s].kind = cmds[s].kind
  BY DEF Summary, Moved, Framed, SameTypes, SameCommands
<1>2. \A b \in Who \ {a} : Carries(att'[b].act, cmds'[att'[b].cmd].kind)
  BY <1>0, <1>1 DEF Others
<1>3. CASE \E at \in Steps : Goes(a, at)
  BY <1>0, <1>1, <1>2, <1>3 DEF Goes, Others
<1>4. CASE a = "late" /\ (Returns(a) \/ Retries(a) \/ Drops(a))
  <2>1. att'[a].act = None /\ att'[a].cmd = "cur" /\ wf'.pc = wf.pc
    BY <1>4 DEF Returns, Retries, Drops, Leaves
  <2> QED
    BY <1>0, <1>1, <1>2, <1>4, <2>1, Carried DEF Others
<1>5. CASE a = "main" /\ Returns(a)
  <2> DEFINE next == NextActivity(att.main.act)
  <2>1. /\ att'["main"].act = next /\ att'["main"].cmd = "cur"
        /\ wf'.pc = IF next = None THEN "load" ELSE "activity"
    BY <1>5 DEF Returns, Leaves
  <2>2. Carries(next, cmds["cur"].kind)
    <3>1. CASE att.main.act = None
      <4>1. next = None
        BY <3>1, NextActivities, NoneIsNothing DEF Acts
      <4> QED
        BY <4>1, Carried
    <3>2. CASE att.main.act \in Acts
      BY <1>0, <3>2, Carried
    <3> QED
      BY <1>0, <3>1, <3>2
  <2> HIDE DEF next
  <2> QED
    BY <1>0, <1>1, <1>2, <1>5, <2>1, <2>2
<1>6. CASE a = "main" /\ (Retries(a) \/ Drops(a))
  <2>1. /\ att'["main"].cmd = "cur"
        /\ \/ att'["main"].act = att["main"].act /\ wf'.pc = wf.pc
           \/ att'["main"].act = None
    BY <1>6 DEF Retries, Drops, Leaves
  <2>2. Carries(att'["main"].act, cmds["cur"].kind)
    BY <1>0, <2>1, Carried
  <2> QED
    BY <1>0, <1>1, <1>2, <1>6, <2>1, <2>2
<1> QED
  BY <1>0, <1>1, <1>3, <1>4, <1>5, <1>6 DEF SomeMove

\* The outcome a command records is real.
LEMMA RecordedIsReal ==
    ASSUME NEW outcome \in Outcomes, Real(outcome, provider, row.continued)
    PROVE  /\ TerminalOf(outcome) = "completed" => provider \in Finished
           /\ TerminalOf(outcome) = "failed" => provider = "failed" \/ row.continued
BY DEF TerminalOf, Real, Outcomes

\* A step of an attempt keeps the row sound.
LEMMA AttemptRowSound ==
    ASSUME Sound, Kept, NEW a \in Who, Summary(a)
    PROVE  RowSound'
<1>0. /\ att[a] \in AttemptStates /\ att[a].cmd \in Slots /\ row \in RowStates
      /\ Carries(att[a].act, cmds[att[a].cmd].kind)
      /\ Backed(cmds[att[a].cmd].kind, cmds[att[a].cmd].outcome, provider, row)
      /\ RowBy(a) /\ Lasting /\ Later(row, row') /\ ProviderLater(provider, provider')
  BY DEF Sound, Types, Control, AttemptStates, AttemptsSound, CommandsSound, Summary, Kept,
         Lasting
<1>1. row'.terminal = "completed" => provider' \in Finished
  <2>1. CASE row'.terminal = row.terminal
    BY <1>0, <2>1 DEF Sound, RowSound, ProviderLater
  <2>2. CASE /\ At(a, "record_terminal", "mark")
             /\ row'.terminal = TerminalOf(Command(a).outcome)
    BY <1>0, <2>2, RecordedIsReal DEF At, Command, Carries, Backed, ProviderLater
  <2> QED
    BY <1>0, <2>1, <2>2 DEF RowBy
<1>2. row'.terminal = "failed" => provider' = "failed" \/ row'.continued
  <2>1. CASE row'.terminal = row.terminal
    BY <1>0, <2>1 DEF Sound, RowSound, ProviderLater, Later
  <2>2. CASE /\ At(a, "record_terminal", "mark")
             /\ row'.terminal = TerminalOf(Command(a).outcome)
    BY <1>0, <2>2, RecordedIsReal DEF At, Command, Carries, Backed, ProviderLater, Later
  <2> QED
    BY <1>0, <2>1, <2>2 DEF RowBy
<1>3. row'.evidence => row'.published \/ row'.failure
  <2>1. CASE row'.evidence = row.evidence
    BY <1>0, <2>1 DEF Sound, RowSound, Later
  <2>2. CASE At(a, "publish", "attach")
    BY <1>0, <2>2 DEF Sound, AttemptsSound, Later
  <2> QED
    BY <1>0, <2>1, <2>2 DEF RowBy
<1>4. row'.failure => row'.evidence
  BY <1>0 DEF RowBy, Sound, RowSound, Later
<1>5. row'.cleanup # "pending" => row'.evidence
  <2>1. CASE row'.cleanup = row.cleanup
    BY <1>0, <2>1 DEF Sound, RowSound, Later
  <2>2. CASE att[a].act \in {"stop_provider", "stop_host", "release"}
    BY <1>0, <2>2 DEF Carries, Backed, Later
  <2> QED
    BY <1>0, <2>1, <2>2 DEF RowBy, At
<1> QED
  BY <1>1, <1>2, <1>3, <1>4, <1>5 DEF RowSound

\* A step of an attempt keeps the world sound.
LEMMA AttemptWorldSound ==
    ASSUME Sound, Kept, NEW a \in Who, Summary(a)
    PROVE  /\ WorldSound'
           /\ \A b \in Who : At(b, "submit_turn", "accept")' => posts' > 0
           /\ \A b \in Who : At(b, "publish", "attach")' => row'.published
<1>0. /\ RowBy(a) /\ WorldBy(a) /\ PlaceBy(a) /\ Lasting /\ Others(a)
      /\ posts \in Nat /\ posts' \in Nat /\ posts' >= posts
      /\ At(a, "submit_turn", "accept") => posts > 0
      /\ At(a, "submit_turn", "posted") => posts > 0
  BY DEF Sound, Types, Outside, AttemptsSound, Existing, Summary, Moved, Framed, Kept, Lasting
<1>1. provider' \notin {"absent", "ready"} => posts' > 0
  <2>1. CASE provider' = provider
    BY <1>0, <2>1 DEF Sound, WorldSound
  <2>2. CASE provider = "running"
    BY <1>0, <2>2 DEF Sound, WorldSound
  <2>3. CASE provider' = "ready"
    BY <2>3
  <2>4. CASE provider' = "running" /\ provider # "running"
    BY <1>0, <2>4 DEF WorldBy
  <2> QED
    BY <1>0, <2>1, <2>2, <2>3, <2>4 DEF WorldBy
<1>2. bridge' = "posted" => posts' > 0
  BY <1>0 DEF WorldBy, Sound, WorldSound
<1>3. row'.turn = "accepted" => posts' > 0
  BY <1>0 DEF RowBy, Sound, WorldSound
<1>4. \A b \in Who : At(b, "submit_turn", "accept")' => posts' > 0
  <2>1. At(a, "submit_turn", "accept")' => posts' > 0
    BY <1>0, <1>2 DEF PlaceBy
  <2>2. \A b \in Who \ {a} : At(b, "submit_turn", "accept")' => posts' > 0
    BY <1>0 DEF Others, At, Sound, AttemptsSound
  <2> QED
    BY <2>1, <2>2
<1>5. \A b \in Who : At(b, "publish", "attach")' => row'.published
  <2>1. At(a, "publish", "attach")' => row'.published
    BY <1>0 DEF PlaceBy
  <2>2. \A b \in Who \ {a} : At(b, "publish", "attach")' => row'.published
    BY <1>0 DEF Others, At, Sound, AttemptsSound, Lasting, Later
  <2> QED
    BY <2>1, <2>2
<1> QED
  BY <1>1, <1>2, <1>3, <1>4, <1>5 DEF WorldSound

\* A step of an attempt keeps the session sound.
LEMMA AttemptSound ==
    ASSUME Sound, Kept, NEW a \in Who, Summary(a)
    PROVE  Sound'
<1>0. /\ "main" \in Who /\ Lasting /\ SameTypes /\ SameSupervision /\ SomeMove(a)
      /\ obs' = obs
      /\ att["main"] \in AttemptStates /\ att["main"].cmd = "cur" /\ "cur" \in Slots
      /\ Carries(att["main"].act, cmds["cur"].kind)
      /\ Backed(cmds["cur"].kind, cmds["cur"].outcome, provider, row)
  BY DEF Who, Slots, Sound, Types, Control, AttemptsSound, CommandsSound, Summary, Moved,
         Framed, Kept, WorldBy
<1>1. AttemptsSound'
  BY AttemptCarries, AttemptWorldSound DEF AttemptsSound
<1>2. WorldSound' /\ RowSound'
  BY AttemptWorldSound, AttemptRowSound
<1>3. ObservationsSound'
  BY <1>0, RecordsStaySound
<1>4. CommandsSound'
  BY <1>0, StaysBacked DEF Sound, CommandsSound, SameTypes, SameCommands
<1>5. Backed(wf'.decision.kind, wf'.decision.outcome, provider', row')
  BY <1>0, DecisionStaysBacked DEF SameSupervision
<1>6. wf'.primary => row'.failure
  BY <1>0 DEF SameSupervision, Sound, WorkflowSound, Lasting, Later
<1>7. wf'.failed \in CleanupActs => row'.evidence
  <2>1. CASE wf'.failed = wf.failed
    BY <1>0, <2>1 DEF Sound, WorkflowSound, Lasting, Later
  <2>2. CASE wf'.failed = att.main.act
    BY <1>0, <2>2 DEF CleanupActs, Carries, Backed, Lasting, Later
  <2> QED
    BY <1>0, <2>1, <2>2 DEF SomeMove, Goes, Returns, Retries, Drops, Leaves
<1>8. WorkflowSound'
  BY <1>5, <1>6, <1>7, AttemptCarries DEF WorkflowSound
<1> QED
  BY <1>1, <1>2, <1>3, <1>4, <1>8 DEF Sound, Kept

\* A new failure on record is no outcome of the provider's, and comes with evidence.
LEMMA FailureKeepsSound ==
    ASSUME Sound, Kept, PersistFailure
    PROVE  Sound'
<1>0. /\ FailureRecorded /\ SameTypes /\ SameAttempts /\ SameWorld /\ obs' = obs
      /\ wf'.decision = wf.decision /\ wf'.failed = wf.failed
      /\ wf'.primary => wf.primary \/ row'.failure
      /\ wf.pc \in {"persist_failure", "quarantine"}
      /\ row \in RowStates /\ Types /\ Lasting
  BY PersistFailureEffect DEF Sound, Types, Kept
<1> DEFINE status == IF FailedCommand = "unknown" THEN "delivery_unknown" ELSE FailureStatus
<1>1. /\ status \in Failures \cup {"cleanup_incomplete"}
      /\ status = "cleanup_incomplete" => wf.primary \/ wf.failed \in CleanupActs
  BY <1>0, FailureStatuses DEF Failures
<1>2. row' = row \/ row' = WithFailure(status)
  BY <1>0 DEF FailureRecorded
<1> HIDE DEF status
<1>3. RowSound' /\ row'.turn = row.turn
  <2>1. CASE row' = row
    BY <1>0, <2>1, RecordsStaySound
  <2>2. CASE row' = WithFailure(status)
    <3>1. \/ /\ status = "cleanup_incomplete"
             /\ row' = [row EXCEPT !.cleanup = "cleanup_incomplete", !.handoff = TRUE]
          \/ /\ row' = [row EXCEPT !.terminal = row'.terminal, !.evidence = TRUE,
                                   !.failure = TRUE]
             /\ row'.terminal \in {row.terminal, status} /\ status # "cleanup_incomplete"
             /\ row'.evidence /\ row'.failure
      BY <1>0, <1>1, <2>2, FailureRows
    <3>2. row.evidence \/ status # "cleanup_incomplete"
      BY <1>1 DEF Sound, WorkflowSound, RowSound
    <3>3. CASE row' = [row EXCEPT !.cleanup = "cleanup_incomplete", !.handoff = TRUE]
               /\ row.evidence
      BY <1>0, <3>3 DEF RowStates, Sound, RowSound, SameWorld
    <3>4. CASE /\ row' = [row EXCEPT !.terminal = row'.terminal, !.evidence = TRUE,
                                     !.failure = TRUE]
               /\ row'.terminal \in {row.terminal, status} /\ status # "cleanup_incomplete"
               /\ row'.evidence /\ row'.failure
      <4>1. status \notin {"completed", "failed"}
        BY <1>1, <3>4 DEF Failures
      <4>2. row'.turn = row.turn /\ row'.continued = row.continued
        BY <1>0, <3>4 DEF RowStates
      <4> QED
        BY <1>0, <3>4, <4>1, <4>2 DEF Sound, RowSound, SameWorld
    <3> QED
      BY <3>1, <3>2, <3>3, <3>4
  <2> QED
    BY <1>2, <2>1, <2>2
<1>4. ObservationsSound' /\ Backed(wf'.decision.kind, wf'.decision.outcome, provider', row')
  BY <1>0, RecordsStaySound, DecisionStaysBacked
<1>5. /\ wf'.primary => row'.failure
      /\ wf'.failed \in CleanupActs => row'.evidence
      /\ att.main.act # None => wf'.pc = "activity"
  BY <1>0 DEF Sound, WorkflowSound, Lasting, Later
<1> QED
  BY <1>0, <1>3, <1>4, <1>5, SoundBySame

\* An observation adds only what is true.
LEMMA ObserveKeepsSound ==
    ASSUME Sound, Kept, Observe \/ ObserveUnavailable
    PROVE  Sound'
<1>0. /\ SeenTruly /\ SameTypes /\ SameAttempts /\ row' = row /\ SameWorld
      /\ wf.pc \in {"observe", "snapshot"}
      /\ wf'.decision = wf.decision /\ wf'.primary = wf.primary /\ wf'.failed = wf.failed
      /\ Lasting
  BY ObserveEffect DEF Sound, Kept
<1>1. provider' = provider
  BY <1>0 DEF SameWorld
<1>2. Real(obs'.status, provider', row'.continued)
  BY <1>0, <1>1 DEF SeenTruly, Real, Sound, ObservationsSound
<1>3. Real(obs'.turn, provider', row'.continued)
  BY <1>0, <1>1 DEF SeenTruly, Real, Sound, ObservationsSound
<1>4. obs'.candidate => provider' \in Finished
  BY <1>0, <1>1 DEF SeenTruly, Sound, ObservationsSound
<1>5. ObservationsSound' /\ RowSound'
  BY <1>0, <1>2, <1>3, <1>4, RecordsStaySound DEF ObservationsSound
<1>6. Backed(wf'.decision.kind, wf'.decision.outcome, provider', row')
  BY <1>0, DecisionStaysBacked
<1>7. /\ wf'.primary => row'.failure
      /\ wf'.failed \in CleanupActs => row'.evidence
      /\ att.main.act # None => wf'.pc = "activity"
  BY <1>0 DEF Sound, WorkflowSound
<1> QED
  BY <1>0, <1>5, <1>6, <1>7, SoundBySame

\* The steps of the workflow that write desires, or nothing.
LEMMA SupervisionKeepsSound ==
    ASSUME Sound, Kept, Quiet \/ Load \/ SignalsPersisted
    PROVE  Sound'
<1>0. row \in RowStates /\ Lasting /\ Types /\ None \notin CleanupActs
  BY NoneIsNothing DEF Sound, Types, Kept, CleanupActs, Acts
<1>1. CASE Quiet
  <2>1. /\ row' = [row EXCEPT !.quarantined = row'.quarantined]
        /\ obs' = obs /\ SameTypes /\ SameAttempts /\ SameWorld
        /\ wf'.decision = wf.decision /\ wf'.primary = wf.primary /\ wf'.failed = wf.failed
        /\ wf'.pc = wf.pc \/ wf.pc \in {"decide", "failure"}
    BY <1>1 DEF Quiet
  <2>2. RowSound' /\ row'.turn = row.turn
    BY <1>0, <2>1 DEF RowStates, Sound, RowSound, SameWorld
  <2>3. ObservationsSound' /\ Backed(wf'.decision.kind, wf'.decision.outcome, provider', row')
    BY <1>0, <2>1, RecordsStaySound, DecisionStaysBacked
  <2>4. /\ wf'.primary => row'.failure
        /\ wf'.failed \in CleanupActs => row'.evidence
        /\ att.main.act # None => wf'.pc = "activity"
    BY <1>0, <2>1 DEF Sound, WorkflowSound, Lasting, Later
  <2> QED
    BY <2>1, <2>2, <2>3, <2>4, SoundBySame
<1>2. CASE Load
  <2>1. /\ wf.pc = "load" /\ Founded(wf'.decision) /\ wf'.primary = wf.primary
        /\ wf'.failed = None /\ UNCHANGED <<row, obs, cmds, att, world>>
    BY <1>0, <1>2, LoadEffect
  <2>2. SameTypes /\ SameAttempts /\ SameWorld
    BY <1>0, <2>1, SameEffect DEF Types, world, SameWorld
  <2>3. RowSound' /\ ObservationsSound'
    BY <1>0, <2>1, RecordsStaySound
  <2>4. Backed(wf'.decision.kind, wf'.decision.outcome, provider, row)
    BY <2>1, FoundedIsBacked DEF Sound
  <2>5. Backed(wf'.decision.kind, wf'.decision.outcome, provider', row')
    BY <1>0, <2>4, StaysBacked
  <2>6. /\ wf'.primary => row'.failure
        /\ wf'.failed \in CleanupActs => row'.evidence
        /\ att.main.act # None => wf'.pc = "activity"
    BY <1>0, <2>1 DEF Sound, WorkflowSound
  <2> QED
    BY <2>1, <2>2, <2>3, <2>5, <2>6, SoundBySame
<1>3. CASE SignalsPersisted
  <2>1. PICK signals \in Seq(Signals) : PersistSignals(signals)
    BY <1>3 DEF SignalsPersisted
  <2>2. /\ SameTypes /\ SameAttempts /\ UNCHANGED <<obs, world>>
        /\ row' = row \/ row' = Wanted(signals)
        /\ wf'.decision = wf.decision /\ wf'.primary = wf.primary
        /\ wf'.failed \in {wf.failed, "persist_signal_intents"}
        /\ wf.pc \in {"decide", "timeout"}
    BY <1>0, <1>3, <2>1, PersistSignalsEffect DEF SignalsPersisted
  <2>3. SameWorld
    BY <2>2 DEF world, SameWorld
  <2>4. RowSound' /\ row'.turn = row.turn
    <3>1. CASE row' = row
      BY <1>0, <3>1, RecordsStaySound
    <3>2. CASE row' = Wanted(signals)
      <4>1. row' = [row EXCEPT !.desired = row'.desired, !.continued = row'.continued]
        BY <1>0, <3>2, WantedEffect
      <4>2. /\ row'.terminal = row.terminal /\ row'.evidence = row.evidence
            /\ row'.published = row.published /\ row'.failure = row.failure
            /\ row'.cleanup = row.cleanup /\ row'.turn = row.turn
            /\ row.continued => row'.continued
        BY <1>0, <4>1 DEF RowStates, Lasting, Later
      <4> QED
        BY <2>3, <4>2 DEF Sound, RowSound, SameWorld
    <3> QED
      BY <2>2, <3>1, <3>2
  <2>5. ObservationsSound' /\ Backed(wf'.decision.kind, wf'.decision.outcome, provider', row')
    BY <1>0, <2>2, RecordsStaySound, DecisionStaysBacked
  <2>6. /\ wf'.primary => row'.failure
        /\ wf'.failed \in CleanupActs => row'.evidence
        /\ att.main.act # None => wf'.pc = "activity"
    BY <1>0, <2>2 DEF Sound, WorkflowSound, Lasting, Later, CleanupActs
  <2> QED
    BY <2>2, <2>3, <2>4, <2>5, <2>6, SoundBySame
<1> QED
  BY <1>1, <1>2, <1>3

\* The steps that start, cut off or abandon attempts, and leave the row and the world.
LEMMA SoundByMoves ==
    ASSUME Sound, Kept, row' = row, obs' = obs, SameWorld,
           att'.main.cmd = "cur",
           \A b \in Who : Carries(att'[b].act, cmds'[att'[b].cmd].kind),
           \A b \in Who : \/ att'[b].at = "claim"
                          \/ \E c \in Who : att'[b].act = att[c].act /\ att'[b].at = att[c].at,
           \A s \in Slots : Backed(cmds'[s].kind, cmds'[s].outcome, provider, row),
           wf'.decision = wf.decision, wf'.primary = wf.primary,
           wf'.failed \in CleanupActs => row.evidence,
           att'.main.act # None => wf'.pc = "activity"
    PROVE  Sound'
<1>0. provider' = provider /\ posts' = posts /\ bridge' = bridge /\ Lasting
  BY DEF SameWorld, Kept
<1>1. \A b \in Who : /\ At(b, "submit_turn", "accept")' => posts' > 0
                     /\ At(b, "publish", "attach")' => row'.published
  BY <1>0 DEF Sound, AttemptsSound, At
<1>2. AttemptsSound'
  BY <1>1 DEF AttemptsSound
<1>3. WorldSound' /\ CommandsSound'
  BY <1>0 DEF Sound, WorldSound, CommandsSound
<1>4. RowSound' /\ ObservationsSound'
  BY <1>0, RecordsStaySound
<1>5. WorkflowSound'
  BY <1>0 DEF Sound, WorkflowSound
<1> QED
  BY <1>2, <1>3, <1>4, <1>5 DEF Sound, Kept

\* Recording a decision keeps the commands backed and the late attempt its own.
LEMMA RecordedKeepsSound ==
    ASSUME Sound, wf.decision.kind \in CommandKinds, Recorded(wf.decision)
    PROVE  /\ \A s \in Slots : Backed(cmds'[s].kind, cmds'[s].outcome, provider, row)
           /\ Carries(att'["late"].act, cmds'[att'["late"].cmd].kind)
           /\ att'["late"].act = att["late"].act /\ att'["late"].at = att["late"].at
<1>0. "late" \in Who /\ Carries(att["late"].act, cmds[att["late"].cmd].kind)
  BY DEF Who, Sound, AttemptsSound
<1>1. \A s \in Slots : Backed(cmds'[s].kind, cmds'[s].outcome, provider, row)
  BY DEF Sound, CommandsSound, WorkflowSound, Recorded
<1>2. att'["late"].act = att["late"].act /\ att'["late"].at = att["late"].at
  BY DEF Recorded
<1>3. Carries(att'["late"].act, cmds'[att'["late"].cmd].kind)
  <2>1. CASE att["late"].act = None
    BY <1>2, <2>1, Carried
  <2>2. CASE att["late"].act # None
    BY <1>0, <1>2, <2>2 DEF Recorded
  <2> QED
    BY <2>1, <2>2
<1> QED
  BY <1>1, <1>2, <1>3

\* The same commands are as backed as before.
LEMMA SameCommandsBacked ==
    ASSUME Sound, SameTypes
    PROVE  \A s \in Slots : /\ Backed(cmds'[s].kind, cmds'[s].outcome, provider, row)
                            /\ cmds'[s].kind = cmds[s].kind
BY DEF Sound, CommandsSound, SameTypes, SameCommands

\* A recorded decision starts its first activity.
LEMMA DecisionKeepsSound ==
    ASSUME Sound, Kept, PersistDecision
    PROVE  Sound'
<1>0. /\ UNCHANGED <<row, obs, world>> /\ wf.pc = "decide"
      /\ wf'.decision = wf.decision /\ wf'.primary = wf.primary
      /\ wf'.failed \in {wf.failed, "persist_decision"}
      /\ \/ UNCHANGED <<cmds, att>>
         \/ /\ wf'.pc = "activity" /\ wf.decision.kind \in CommandKinds
            /\ Recorded(wf.decision)
            /\ att'.main = Attempt(FirstActivity(wf.decision.kind))
            /\ FirstActivity(wf.decision.kind) \in Acts
      /\ Types /\ Control /\ Lasting
  BY PersistDecisionEffect DEF Sound, Types, Kept
<1>1. SameWorld
  BY <1>0 DEF world, SameWorld
<1>2. /\ wf'.primary => row'.failure
      /\ wf'.failed \in CleanupActs => row.evidence
      /\ att.main.act = None
  BY <1>0 DEF Sound, WorkflowSound, CleanupActs
<1>3. CASE UNCHANGED <<cmds, att>>
  <2>1. SameTypes /\ SameAttempts
    BY <1>0, <1>3, SameEffect
  <2>2. ObservationsSound' /\ RowSound'
    BY <1>0, RecordsStaySound
  <2>3. Backed(wf'.decision.kind, wf'.decision.outcome, provider', row')
    BY <1>0, DecisionStaysBacked
  <2> QED
    BY <1>0, <1>1, <1>2, <2>1, <2>2, <2>3, SoundBySame
<1>4. CASE /\ wf'.pc = "activity" /\ wf.decision.kind \in CommandKinds
           /\ Recorded(wf.decision)
           /\ att'.main = Attempt(FirstActivity(wf.decision.kind))
           /\ FirstActivity(wf.decision.kind) \in Acts
  <2> DEFINE first == FirstActivity(wf.decision.kind)
  <2>1. /\ att'["main"].act = first /\ att'["main"].at = "claim" /\ att'["main"].cmd = "cur"
    BY <1>4, FreshAttempts
  <2>2. Carries(first, cmds'["cur"].kind)
    BY <1>4, Carried DEF Recorded
  <2> HIDE DEF first
  <2>3. \A b \in Who : Carries(att'[b].act, cmds'[att'[b].cmd].kind)
    BY <1>4, <2>1, <2>2, RecordedKeepsSound DEF Who
  <2>4. \A b \in Who : \/ att'[b].at = "claim"
                       \/ \E c \in Who : att'[b].act = att[c].act /\ att'[b].at = att[c].at
    BY <1>4, <2>1, RecordedKeepsSound DEF Who
  <2> QED
    BY <1>0, <1>1, <1>2, <1>4, <2>1, <2>3, <2>4, RecordedKeepsSound, SoundByMoves
<1> QED
  BY <1>0, <1>3, <1>4

\* The death of an attempt, and its replacement while it goes on.
LEMMA DeathKeepsSound ==
    ASSUME Sound, Kept, Die \/ Overlap
    PROVE  Sound'
<1>0. /\ row' = row /\ obs' = obs /\ SameTypes /\ SameWorld /\ SameSupervision
      /\ \/ Retries("main") /\ att'.late \in {att.late, att.main} /\ att.main.act # None
         \/ att'.main = att.main /\ wf' = wf /\ att'.late = NoAttempt
  BY DieEffect DEF Sound
<1>1. /\ Who = {"main", "late"} /\ "cur" \in Slots /\ att.main.cmd = "cur"
      /\ Carries(att.main.act, cmds["cur"].kind)
      /\ Carries(att.late.act, cmds[att.late.cmd].kind)
      /\ att.late.cmd \in Slots
      /\ att.main.act # None => wf.pc = "activity"
      /\ Backed(cmds["cur"].kind, cmds["cur"].outcome, provider, row)
  BY DEF Who, Slots, Sound, AttemptsSound, WorkflowSound, CommandsSound, Types, Control,
         AttemptStates
<1>2. CASE Retries("main") /\ att'.late \in {att.late, att.main} /\ att.main.act # None
  <2>1. /\ att'["main"].at = "claim" /\ att'["main"].cmd = "cur"
        /\ \/ /\ att'["main"].act = att.main.act /\ wf'.pc = wf.pc /\ wf'.failed = wf.failed
           \/ /\ att'["main"].act = None /\ wf'.failed = att.main.act
    BY <1>2 DEF Retries, Leaves
  <2>2. \A s \in Slots : /\ Backed(cmds'[s].kind, cmds'[s].outcome, provider, row)
                         /\ cmds'[s].kind = cmds[s].kind
    BY <1>0, SameCommandsBacked
  <2>3. \A b \in Who : Carries(att'[b].act, cmds'[att'[b].cmd].kind)
    BY <1>1, <1>2, <2>1, <2>2, Carried
  <2>4. \A b \in Who : \/ att'[b].at = "claim"
                       \/ \E c \in Who : att'[b].act = att[c].act /\ att'[b].at = att[c].at
    BY <1>1, <1>2, <2>1
  <2>5. wf'.failed \in CleanupActs => row.evidence
    BY <1>1, <2>1 DEF Sound, WorkflowSound, CleanupActs, Carries, Backed
  <2>6. att'.main.act # None => wf'.pc = "activity"
    BY <1>1, <1>2, <2>1
  <2>7. wf'.decision = wf.decision /\ wf'.primary = wf.primary
    BY <1>0 DEF SameSupervision
  <2> QED
    BY <1>0, <2>1, <2>2, <2>3, <2>4, <2>5, <2>6, <2>7, SoundByMoves
<1>3. CASE att'.main = att.main /\ wf' = wf /\ att'.late = NoAttempt
  <2>1. att'["late"].act = None /\ att'["late"].at = "claim" /\ att'["late"].cmd = "cur"
    BY <1>3, FreshAttempts
  <2>2. \A s \in Slots : /\ Backed(cmds'[s].kind, cmds'[s].outcome, provider, row)
                         /\ cmds'[s].kind = cmds[s].kind
    BY <1>0, SameCommandsBacked
  <2>3. \A b \in Who : Carries(att'[b].act, cmds'[att'[b].cmd].kind)
    BY <1>1, <1>3, <2>1, <2>2, Carried
  <2>4. \A b \in Who : \/ att'[b].at = "claim"
                       \/ \E c \in Who : att'[b].act = att[c].act /\ att'[b].at = att[c].at
    BY <1>1, <1>3, <2>1
  <2>5. wf'.failed \in CleanupActs => row.evidence
    BY <1>3 DEF Sound, WorkflowSound
  <2> QED
    BY <1>0, <1>1, <1>3, <2>2, <2>3, <2>4, <2>5, SoundByMoves
<1> QED
  BY <1>0, <1>2, <1>3

\* The cancellation of the workflow.
LEMMA CancellationKeepsSound ==
    ASSUME Sound, Kept, CancelWorkflow
    PROVE  Sound'
<1>0. /\ row' = row /\ obs' = obs /\ SameWorld
      /\ wf'.decision = wf.decision /\ wf'.primary = wf.primary /\ wf'.failed = wf.failed
      /\ \/ /\ SameTypes /\ att'.main = NoAttempt /\ att'.late \in {att.late, att.main}
         \/ wf.pc = "decide" /\ SameTypes /\ SameAttempts
         \/ /\ wf.pc = "decide" /\ wf.decision.kind \in CommandKinds
            /\ Recorded(wf.decision) /\ att'.main = att.main
      /\ Lasting
  BY CancelWorkflowEffect DEF Sound, Kept
<1>1. /\ Who = {"main", "late"} /\ "cur" \in Slots /\ att.main.cmd = "cur"
      /\ \A b \in Who : Carries(att[b].act, cmds[att[b].cmd].kind) /\ att[b].cmd \in Slots
      /\ wf.pc = "decide" => att.main.act = None
      /\ wf'.failed \in CleanupActs => row.evidence
      /\ wf'.primary => row'.failure
  BY <1>0 DEF Who, Slots, Sound, AttemptsSound, WorkflowSound, CommandsSound, Types, Control,
              AttemptStates
<1>2. CASE SameTypes /\ att'.main = NoAttempt /\ att'.late \in {att.late, att.main}
  <2>1. att'["main"].act = None /\ att'["main"].at = "claim" /\ att'["main"].cmd = "cur"
    BY <1>2, FreshAttempts
  <2>2. \A s \in Slots : /\ Backed(cmds'[s].kind, cmds'[s].outcome, provider, row)
                         /\ cmds'[s].kind = cmds[s].kind
    BY <1>2, SameCommandsBacked
  <2>3. \A b \in Who : Carries(att'[b].act, cmds'[att'[b].cmd].kind)
    BY <1>1, <1>2, <2>1, <2>2, Carried
  <2>4. \A b \in Who : \/ att'[b].at = "claim"
                       \/ \E c \in Who : att'[b].act = att[c].act /\ att'[b].at = att[c].at
    BY <1>1, <1>2, <2>1
  <2> QED
    BY <1>0, <1>1, <2>1, <2>2, <2>3, <2>4, SoundByMoves
<1>3. CASE wf.pc = "decide" /\ SameTypes /\ SameAttempts
  <2>1. ObservationsSound' /\ RowSound'
    BY <1>0, RecordsStaySound
  <2>2. Backed(wf'.decision.kind, wf'.decision.outcome, provider', row')
    BY <1>0, DecisionStaysBacked
  <2> QED
    BY <1>0, <1>1, <1>3, <2>1, <2>2, SoundBySame
<1>4. CASE /\ wf.pc = "decide" /\ wf.decision.kind \in CommandKinds
           /\ Recorded(wf.decision) /\ att'.main = att.main
  <2>1. att'["main"].act = None /\ att'["main"].cmd = "cur" /\ att'["main"] = att["main"]
    BY <1>1, <1>4
  <2>2. \A b \in Who : Carries(att'[b].act, cmds'[att'[b].cmd].kind)
    BY <1>1, <1>4, <2>1, RecordedKeepsSound, Carried
  <2>3. \A b \in Who : \/ att'[b].at = "claim"
                       \/ \E c \in Who : att'[b].act = att[c].act /\ att'[b].at = att[c].at
    BY <1>1, <1>4, <2>1, RecordedKeepsSound
  <2> QED
    BY <1>0, <1>1, <1>4, <2>1, <2>2, <2>3, RecordedKeepsSound, SoundByMoves
<1> QED
  BY <1>0, <1>2, <1>3, <1>4

\* The end of the provider's turn.
LEMMA ProviderKeepsSound ==
    ASSUME Sound, Kept, ProviderEnds
    PROVE  Sound'
<1>0. /\ UNCHANGED <<row, obs, cmds, att, wf, bridge, lease, hostUp, posts, budget>>
      /\ provider = "running" /\ provider' \in {"completed", "quiesced", "failed"} /\ Lasting
  BY ProviderEffect DEF Sound, Kept
<1>1. AttemptsSound'
  BY <1>0 DEF Sound, AttemptsSound, At
<1>2. WorldSound'
  BY <1>0 DEF Sound, WorldSound
<1>3. ObservationsSound' /\ RowSound'
  BY <1>0, RecordsStaySound
<1>4. CommandsSound'
  BY <1>0, StaysBacked DEF Sound, CommandsSound
<1>5. WorkflowSound'
  BY <1>0, StaysBacked DEF Sound, WorkflowSound
<1> QED
  BY <1>1, <1>2, <1>3, <1>4, <1>5 DEF Sound, Kept

\* Every step keeps the session sound.
LEMMA StepSound ==
    ASSUME Sound, [Next]_vars
    PROVE  Sound' /\ Kept
<1>1. Kept
  BY StepKeeps DEF Sound
<1>2. Sound'
  BY <1>1, StepKinds, AttemptSound, SupervisionKeepsSound, DecisionKeepsSound,
     ObserveKeepsSound, FailureKeepsSound, DeathKeepsSound, CancellationKeepsSound,
     ProviderKeepsSound DEF Sound
<1> QED
  BY <1>1, <1>2

\* The session starts sound.
LEMMA InitSound ==
    ASSUME Init
    PROVE  Sound
<1>0. /\ Who = {"main", "late"} /\ \A a \in Who : att[a] = NoAttempt
      /\ \A s \in Slots : cmds[s] = NoCommand
      /\ NoCommand.kind = None /\ NoCommand.outcome = None
      /\ None \notin {"success", "failure", "submit_turn", "publish", "harvest_evidence",
                      "begin_cleanup", "release_leases", "completed", "failed"}
      /\ None \notin TerminalKinds /\ None \notin CleanupActs
  BY NoneAssumption DEF Init, Who, NoCommand, Acts, TerminalStates, Outcomes, Kinds,
                        CommandKinds, TerminalKinds, CleanupActs
<1>1. Types /\ Existing
  BY InitTypes
<1>2. AttemptsSound
  BY <1>0, FreshAttempts, Carried DEF AttemptsSound, At
<1>3. WorldSound /\ RowSound
  BY <1>0 DEF Init, WorldSound, RowSound
<1>4. ObservationsSound
  BY <1>0 DEF Init, ObservationsSound, Real
<1>5. CommandsSound
  BY <1>0 DEF CommandsSound, Backed, Real
<1>6. Backed("await_observation", None, provider, row)
  BY <1>0 DEF Backed, Real, TerminalKinds
<1>7. WorkflowSound
  BY <1>0, <1>6, FreshAttempts DEF Init, WorkflowSound, Await, Decide
<1> QED
  BY <1>1, <1>2, <1>3, <1>4, <1>5, <1>7 DEF Sound

\* The inductive invariant holds in every behaviour.
THEOREM SessionSound == Spec => []Sound
<1>1. Init => Sound
  BY InitSound
<1>2. Sound /\ [Next]_vars => Sound'
  BY StepSound
<1> QED
  BY <1>1, <1>2, PTL DEF Spec

\* The recorded outcome is what happened to the provider's session (record_terminal,
\* _detect_terminal).
THEOREM OutcomeRecordedIsReal == Spec => []RecordedOutcomeIsReal
<1>1. Sound => RecordedOutcomeIsReal
  BY DEF Sound, RowSound, WorldSound, Finished, RecordedOutcomeIsReal
<1> QED
  BY <1>1, SessionSound, PTL

\* Nothing is cleaned up before the work is published or the failure is on record
\* (publish_workspace before stop_provider_session, persist_failure_evidence).
THEOREM CleanupAfterPublication == Spec => []WorkIsPublished
<1>1. Sound => WorkIsPublished
  BY DEF Sound, RowSound, WorkIsPublished
<1> QED
  BY <1>1, SessionSound, PTL

\* An accepted turn was posted (submit_turn, and its recovery from a lost response).
THEOREM AcceptedTurnWasPosted == Spec => []AcceptedWasPosted
<1>1. Sound => AcceptedWasPosted
  BY DEF Sound, WorldSound, AcceptedWasPosted
<1> QED
  BY <1>1, SessionSound, PTL
=============================================================================
