----------------------- MODULE OmnigentSessionProofs -----------------------
(***************************************************************************)
(* Proofs about OmnigentSession, for any number of attempts and snapshots, *)
(* any bounds on faults and on the writes of others, and any of the        *)
(* optional events. The theorems that leave one of these events out say    *)
(* so: with it they are false.                                             *)
(***************************************************************************)
EXTENDS OmnigentSession, TLAPS

RowStates ==
    [desired : {"run", "cancel", "timeout"}, quarantined : BOOLEAN,
     profileGen : BOOLEAN, profile : BOOLEAN, hostGen : BOOLEAN,
     host : BOOLEAN, attached : BOOLEAN, turn : {"prepared", "accepted"},
     ambiguous : BOOLEAN, continued : BOOLEAN,
     terminal : TerminalStates \cup {None}, evidence : BOOLEAN,
     harvested : BOOLEAN, published : BOOLEAN, failure : BOOLEAN,
     handoff : BOOLEAN, cleanup : CleanupStates]

Observations ==
    [compat : {"unseen", "ready"}, openTool : {FALSE},
     status : {None, Active, Idle} \cup Outcomes,
     turn : Outcomes \cup {None}, event : BOOLEAN,
     consumer : {"unseen", "absent", Active},
     evidence : {"unseen", "missing", "available"}, candidate : BOOLEAN]

Statuses == {"pending", "claimed", "applied", "failed", "unknown"}

CommandStates ==
    [kind : CommandKinds \cup {None}, outcome : Outcomes \cup {None},
     status : Statuses, current : BOOLEAN]

AttemptStates == [act : Acts \cup {None}, at : Steps, cmd : Slots, rev : BOOLEAN]

Decisions == [kind : Kinds, outcome : Outcomes \cup {None}]

Places == {"load", "decide", "activity", "observe", "snapshot", "timeout", "failure",
           "persist_failure", "quarantine", "closed", "handed_off", "dead"}

FailedActs == Acts \cup {None, "persist_signal_intents", "persist_decision"}

Signals == {"cancel", "timeout", "continuation"}

WorkflowStates ==
    [pc : Places, fresh : BOOLEAN, decision : Decisions, expired : BOOLEAN,
     pending : Seq(Signals), failed : FailedActs, primary : BOOLEAN,
     snapshots : 0..SnapshotAttempts, tries : 0..(Attempts - 1),
     unnumbered : {"no", "same", "stale"}]

Budgets == [faults : 0..MaxFaults, bumps : 0..MaxBumps, deadline : BOOLEAN,
            signals : SUBSET Behaviours]

\* The parts of the type invariant: who decides and executes, and what they act on.
Control ==
    /\ cmds \in [Slots -> CommandStates]
    /\ att \in [Who -> AttemptStates]
    /\ wf \in WorkflowStates

Outside ==
    /\ bridge \in {"not_prepared", "prepared", "posting", "posted"}
    /\ lease \in LeaseStates /\ hostUp \in BOOLEAN
    /\ provider \in {"absent", "ready", "running", "completed", "quiesced", "failed",
                     "canceled"}
    /\ posts \in Nat
    /\ budget \in Budgets

Types == row \in RowStates /\ obs \in Observations /\ Control /\ Outside

\* They are the type invariant, before and after a step.
LEMMA TypeParts == (TypeOK <=> Types) /\ (TypeOK' <=> Types')
BY DEF TypeOK, Types, Control, Outside, RowStates, Observations, Statuses, CommandStates,
       AttemptStates, Decisions, Places, FailedActs, Signals, WorkflowStates, Budgets

\* None is none of the activities, outcomes and decisions.
LEMMA NoneIsNothing ==
    None \notin Acts /\ None \notin TerminalStates /\ None \notin Outcomes /\ None \notin Kinds
BY NoneAssumption

-----------------------------------------------------------------------------
(* What the operators shared by all activities do to the control state *)

\* The other attempt keeps its activity, its place and its command.
Others(a) ==
    \A b \in Who \ {a} : /\ att'[b].act = att[b].act
                         /\ att'[b].at = att[b].at
                         /\ att'[b].cmd = att[b].cmd

\* No command is replaced.
SameCommands ==
    \A s \in Slots : cmds'[s].kind = cmds[s].kind /\ cmds'[s].outcome = cmds[s].outcome

\* What an attempt never changes of the workflow.
SameSupervision ==
    /\ wf'.decision = wf.decision /\ wf'.expired = wf.expired
    /\ wf'.pending = wf.pending /\ wf'.primary = wf.primary
    /\ wf'.snapshots = wf.snapshots

\* The attempt goes to its step at.
Goes(a, at) ==
    /\ att'[a].act = att[a].act /\ att'[a].cmd = att[a].cmd /\ att'[a].at = at
    /\ wf'.pc = wf.pc /\ wf'.failed = wf.failed

\* The attempt is over, and the workflow goes on at place pc with activity act.
Leaves(a, act, pc, failed) ==
    /\ att'[a].at = "claim" /\ att'[a].cmd = "cur"
    /\ att'[a].act = (IF a = "late" THEN None ELSE act)
    /\ wf'.pc = (IF a = "late" THEN wf.pc ELSE pc)
    /\ wf'.failed = (IF a = "late" THEN wf.failed ELSE failed)

Returns(a) ==
    LET next == NextActivity(att.main.act) IN
    Leaves(a, next, IF next = None THEN "load" ELSE "activity", wf.failed)

Retries(a) ==
    \/ Leaves(a, att.main.act, wf.pc, wf.failed)
    \/ Leaves(a, None, "failure", att.main.act)

Drops(a) == Leaves(a, None, "load", wf.failed)

\* The attempts and the workflow after a step of attempt a are well typed, and what
\* is not the attempt's is as before.
Framed(a) ==
    /\ att' \in [Who -> AttemptStates] /\ wf' \in WorkflowStates
    /\ Others(a) /\ SameSupervision

\* The attempts with their revisions out of date.
LEMMA StaleAttempts ==
    ASSUME att \in [Who -> AttemptStates]
    PROVE  /\ Stale \in [Who -> AttemptStates]
           /\ \A b \in Who : /\ Stale[b].act = att[b].act /\ Stale[b].at = att[b].at
                             /\ Stale[b].cmd = att[b].cmd
BY DEF Stale, AttemptStates

\* The commands with their revisions out of date.
LEMMA OutdatedCommands ==
    ASSUME cmds \in [Slots -> CommandStates]
    PROVE  /\ StaleCommands \in [Slots -> CommandStates]
           /\ \A s \in Slots : /\ StaleCommands[s].kind = cmds[s].kind
                               /\ StaleCommands[s].outcome = cmds[s].outcome
                               /\ StaleCommands[s].status = cmds[s].status
BY DEF StaleCommands, CommandStates

\* The workflow with its revision out of date.
LEMMA OutdatedWorkflow ==
    ASSUME NEW w \in WorkflowStates
    PROVE  /\ Outdated(w) \in WorkflowStates
           /\ Outdated(w).pc = w.pc /\ Outdated(w).failed = w.failed
           /\ Outdated(w).decision = w.decision /\ Outdated(w).expired = w.expired
           /\ Outdated(w).pending = w.pending /\ Outdated(w).primary = w.primary
           /\ Outdated(w).snapshots = w.snapshots /\ Outdated(w).tries = w.tries
BY DEF Outdated, WorkflowStates

\* The attempt that is not there, and a first attempt.
LEMMA FreshAttempts ==
    /\ NoAttempt \in AttemptStates
    /\ NoAttempt.act = None /\ NoAttempt.at = "claim" /\ NoAttempt.cmd = "cur"
    /\ \A act \in Acts \cup {None} :
          /\ Attempt(act) \in AttemptStates
          /\ Attempt(act).act = act /\ Attempt(act).at = "claim" /\ Attempt(act).cmd = "cur"
BY DEF NoAttempt, Attempt, AttemptStates, Steps, Slots

\* The activity after one.
LEMMA NextActivities ==
    ASSUME NEW act \in Acts \cup {None}
    PROVE  /\ NextActivity(act) \in Acts \cup {None}
           /\ act = "harvest" => NextActivity(act) = "publish"
           /\ act = "stop_provider" => NextActivity(act) = "stop_host"
           /\ act \notin {"harvest", "stop_provider"} => NextActivity(act) = None
BY NoneIsNothing DEF NextActivity, Acts

\* Step: the attempt goes on, the commands are not its concern.
LEMMA StepEffect ==
    ASSUME Control, NEW a \in Who, NEW at \in Steps, Step(a, at)
    PROVE  Framed(a) /\ Goes(a, at)
<1>1. att[a] \in AttemptStates
  BY DEF Control
<1>2. [att[a] EXCEPT !.at = at] \in AttemptStates
  BY <1>1 DEF AttemptStates
<1>3. att' = [att EXCEPT ![a] = [att[a] EXCEPT !.at = at]] /\ wf' = wf
  BY DEF Step
<1> QED
  BY <1>1, <1>2, <1>3
     DEF Control, Framed, Others, SameSupervision, Goes, AttemptStates

\* Read: the same, with the revision.
LEMMA ReadEffect ==
    ASSUME Control, NEW a \in Who, NEW at \in Steps, Read(a, at)
    PROVE  Framed(a) /\ Goes(a, at) /\ cmds' \in [Slots -> CommandStates] /\ SameCommands
<1>1. att[a] \in AttemptStates
  BY DEF Control
<1>2. [att[a] EXCEPT !.at = at, !.rev = TRUE] \in AttemptStates
  BY <1>1 DEF AttemptStates
<1>3. att' = [att EXCEPT ![a] = [att[a] EXCEPT !.at = at, !.rev = TRUE]]
      /\ wf' = wf /\ cmds' = cmds
  BY DEF Read, Control
<1> QED
  BY <1>1, <1>2, <1>3
     DEF Control, Framed, Others, SameSupervision, Goes, AttemptStates, SameCommands

\* Write: the attempt goes on, and every other revision is out of date.
LEMMA WriteEffect ==
    ASSUME Control, NEW a \in Who, NEW at \in Steps, NEW keeps \in BOOLEAN, NEW r,
           Write(a, r, at, keeps)
    PROVE  /\ row' = r
           /\ Framed(a) /\ Goes(a, at)
           /\ cmds' \in [Slots -> CommandStates] /\ SameCommands
<1> DEFINE old == Stale
<1>1. old \in [Who -> AttemptStates] /\ old[a] \in AttemptStates
  BY StaleAttempts DEF Control
<1>2. \A b \in Who : old[b].act = att[b].act /\ old[b].at = att[b].at /\ old[b].cmd = att[b].cmd
  BY StaleAttempts DEF Control
<1>3. cmds' \in [Slots -> CommandStates] /\ SameCommands
  BY OutdatedCommands DEF Control, Write, SameCommands
<1>4. wf' \in WorkflowStates /\ SameSupervision /\ wf'.pc = wf.pc /\ wf'.failed = wf.failed
  BY OutdatedWorkflow DEF Control, Write, SameSupervision
<1>5. att' = [old EXCEPT ![a] = [old[a] EXCEPT !.at = at, !.rev = keeps]]
  BY <1>1 DEF Write
<1>6. row' = r
  BY DEF Write
<1> HIDE DEF old
<1>7. [old[a] EXCEPT !.at = at, !.rev = keeps] \in AttemptStates
  BY <1>1 DEF AttemptStates
<1>8. att' \in [Who -> AttemptStates] /\ Others(a)
  BY <1>1, <1>2, <1>5, <1>7 DEF Others
<1>9. att'[a].act = att[a].act /\ att'[a].cmd = att[a].cmd /\ att'[a].at = at
  BY <1>1, <1>2, <1>5 DEF AttemptStates
<1> QED
  BY <1>3, <1>4, <1>6, <1>8, <1>9 DEF Framed, Goes

\* The workflow after the end of an attempt of its own.
LEMMA EndedWorkflow ==
    ASSUME NEW w \in WorkflowStates, NEW pc \in Places
    PROVE  LET e == [w EXCEPT !.pc = pc, !.tries = 0] IN
           /\ e \in WorkflowStates /\ e.pc = pc
           /\ e.failed = w.failed /\ e.decision = w.decision /\ e.expired = w.expired
           /\ e.pending = w.pending /\ e.primary = w.primary /\ e.snapshots = w.snapshots
<1>1. 0 \in 0..(Attempts - 1)
  BY OmnigentAssumption
<1> QED
  BY <1>1 DEF WorkflowStates

\* The end of an attempt: the next activity of the decision, or a new load.
LEMMA EndedEffect ==
    ASSUME Control, NEW a \in Who,
           NEW attempts \in [Who -> AttemptStates],
           \A b \in Who : /\ attempts[b].act = att[b].act /\ attempts[b].at = att[b].at
                          /\ attempts[b].cmd = att[b].cmd,
           NEW w \in WorkflowStates, w.pc = wf.pc, w.failed = wf.failed,
           w.decision = wf.decision, w.expired = wf.expired, w.pending = wf.pending,
           w.primary = wf.primary, w.snapshots = wf.snapshots,
           Ended(a, attempts, w)
    PROVE  Framed(a) /\ Returns(a)
<1> DEFINE next == NextActivity(att.main.act)
<1>1. "main" \in Who /\ att.main.act \in Acts \cup {None} /\ next \in Acts \cup {None}
  BY NextActivities DEF Control, AttemptStates, Who
<1>2. CASE a = "late"
  <2>1. att' = [attempts EXCEPT !.late = NoAttempt] /\ wf' = w
    BY <1>2 DEF Ended
  <2> QED
    BY <2>1, <1>2, FreshAttempts
       DEF Framed, Others, SameSupervision, Returns, Leaves, Who
<1>3. CASE a = "main"
  <2> DEFINE pc == IF next = None THEN "load" ELSE "activity"
             new == IF next = None THEN NoAttempt ELSE Attempt(next)
  <2>1. att' = [attempts EXCEPT !.main = new] /\ wf' = [w EXCEPT !.pc = pc, !.tries = 0]
    BY <1>3 DEF Ended
  <2>2. pc \in Places
    BY DEF Places
  <2>3. /\ new \in AttemptStates /\ new.act = next /\ new.at = "claim" /\ new.cmd = "cur"
    BY <1>1, FreshAttempts
  <2>4. /\ wf' \in WorkflowStates /\ SameSupervision /\ wf'.pc = pc /\ wf'.failed = wf.failed
    BY <2>1, <2>2, EndedWorkflow DEF SameSupervision
  <2> HIDE DEF new
  <2>5. /\ att' \in [Who -> AttemptStates] /\ att'["main"] = new
        /\ \A b \in Who \ {"main"} : att'[b] = attempts[b]
    BY <2>1, <2>3, <1>1
  <2>6. Others(a)
    BY <2>5, <1>3 DEF Others
  <2> HIDE DEF next
  <2>7. Returns(a)
    BY <2>3, <2>4, <2>5, <1>3 DEF Returns, Leaves, next
  <2> QED
    BY <2>4, <2>5, <2>6, <2>7 DEF Framed
<1> QED
  BY <1>2, <1>3 DEF Who

\* Return: the attempt has written nothing in its last step.
LEMMA ReturnEffect ==
    ASSUME Control, NEW a \in Who, Return(a)
    PROVE  Framed(a) /\ Returns(a)
BY EndedEffect DEF Control, Return

\* WriteAndReturn: the attempt has written the row in its last step.
LEMMA WriteAndReturnEffect ==
    ASSUME Control, NEW a \in Who, NEW r, WriteAndReturn(a, r)
    PROVE  /\ row' = r
           /\ Framed(a) /\ Returns(a)
           /\ cmds' \in [Slots -> CommandStates] /\ SameCommands
<1>1. row' = r /\ cmds' = StaleCommands /\ Ended(a, Stale, Outdated(wf))
  BY DEF WriteAndReturn
<1>2. cmds' \in [Slots -> CommandStates] /\ SameCommands
  BY <1>1, OutdatedCommands DEF Control, SameCommands
<1>3. Framed(a) /\ Returns(a)
  BY <1>1, StaleAttempts, OutdatedWorkflow, EndedEffect DEF Control
<1> QED
  BY <1>1, <1>2, <1>3

\* Conflict: the attempt is given up and the workflow loads again.
LEMMA ConflictEffect ==
    ASSUME Control, NEW a \in Who, Conflict(a)
    PROVE  /\ row' = row
           /\ Framed(a) /\ Drops(a)
           /\ cmds' \in [Slots -> CommandStates] /\ SameCommands
<1>1. /\ att' = [att EXCEPT ![a] = NoAttempt]
      /\ wf' = IF a = "late" THEN wf ELSE [wf EXCEPT !.pc = "load", !.tries = 0]
      /\ row' = row /\ cmds' = cmds
  BY DEF Conflict
<1>2. "load" \in Places
  BY DEF Places
<1>3. /\ wf' \in WorkflowStates /\ SameSupervision /\ wf'.failed = wf.failed
      /\ wf'.pc = IF a = "late" THEN wf.pc ELSE "load"
  <2>1. CASE a = "late"
    BY <1>1, <2>1 DEF Control, SameSupervision
  <2>2. CASE a # "late"
    <3>1. wf' = [wf EXCEPT !.pc = "load", !.tries = 0] /\ wf \in WorkflowStates
      BY <1>1, <2>2 DEF Control
    <3> QED
      BY <3>1, <1>2, <2>2, EndedWorkflow DEF SameSupervision
  <2> QED
    BY <2>1, <2>2
<1>4. /\ att' \in [Who -> AttemptStates] /\ Others(a) /\ att'[a].act = None
      /\ att'[a].at = "claim" /\ att'[a].cmd = "cur"
  BY <1>1, FreshAttempts DEF Control, Others
<1> QED
  BY <1>1, <1>3, <1>4 DEF Framed, Drops, Leaves, Control, SameCommands

\* Retry: the main attempt starts over, or the activity has failed.
LEMMA RetryEffect ==
    ASSUME Control, NEW attempts \in [Who -> AttemptStates], Retry(attempts)
    PROVE  /\ att' \in [Who -> AttemptStates] /\ wf' \in WorkflowStates
           /\ SameSupervision /\ att'.late = attempts.late
           /\ Retries("main")
<1>1. "main" \in Who /\ "late" \in Who /\ att.main \in AttemptStates
      /\ att.main.act \in Acts \cup {None}
  BY DEF Control, AttemptStates, Who
<1>2. wf.tries \in 0..(Attempts - 1) /\ Attempts \in Nat
  BY OmnigentAssumption DEF Control, WorkflowStates
<1>3. CASE wf.tries + 1 < Attempts
  <2>1. /\ att' = [attempts EXCEPT !.main = Attempt(att.main.act)]
        /\ wf' = [wf EXCEPT !.tries = wf.tries + 1]
    BY <1>3 DEF Retry, Control, WorkflowStates
  <2>2. wf.tries + 1 \in 0..(Attempts - 1)
    BY <1>2, <1>3
  <2>3. /\ wf' \in WorkflowStates /\ SameSupervision /\ wf'.pc = wf.pc
        /\ wf'.failed = wf.failed
    BY <2>1, <2>2 DEF Control, WorkflowStates, SameSupervision
  <2> QED
    BY <2>1, <2>3, <1>1, FreshAttempts DEF Retries, Leaves
<1>4. CASE ~(wf.tries + 1 < Attempts)
  <2>1. /\ att' = [attempts EXCEPT !.main = NoAttempt]
        /\ wf' = [wf EXCEPT !.pc = "failure", !.failed = att.main.act, !.tries = 0]
    BY <1>4 DEF Retry
  <2>2. 0 \in 0..(Attempts - 1) /\ "failure" \in Places /\ att.main.act \in FailedActs
    BY <1>1, <1>2 DEF Places, FailedActs
  <2>3. /\ wf' \in WorkflowStates /\ SameSupervision /\ wf'.pc = "failure"
        /\ wf'.failed = att.main.act
    BY <2>1, <2>2 DEF Control, WorkflowStates, SameSupervision
  <2> QED
    BY <2>1, <2>3, <1>1, FreshAttempts DEF Retries, Leaves
<1> QED
  BY <1>3, <1>4

\* Error: a late attempt is gone, the main one is retried.
LEMMA ErrorEffect ==
    ASSUME Control, NEW a \in Who, Error(a)
    PROVE  Framed(a) /\ Retries(a)
<1>1. CASE a = "late"
  <2>1. att' = [att EXCEPT !.late = NoAttempt] /\ wf' = wf
    BY <1>1 DEF Error
  <2> QED
    BY <2>1, <1>1, FreshAttempts
       DEF Control, Framed, Others, SameSupervision, Retries, Leaves, Who
<1>2. CASE a = "main"
  <2>1. Retry(att)
    BY <1>2 DEF Error
  <2>2. /\ att' \in [Who -> AttemptStates] /\ wf' \in WorkflowStates
        /\ SameSupervision /\ att'.late = att.late /\ Retries("main")
    BY <2>1, RetryEffect DEF Control
  <2>3. Others(a)
    BY <2>2, <1>2 DEF Others, Who
  <2> QED
    BY <2>2, <2>3, <1>2 DEF Framed
<1> QED
  BY <1>1, <1>2 DEF Who

\* SetStatus: the command of the attempt changes its status and nothing else.
LEMMA SetStatusEffect ==
    ASSUME Control, NEW a \in Who, NEW status \in Statuses, SetStatus(a, status)
    PROVE  cmds' \in [Slots -> CommandStates] /\ SameCommands
<1>1. PICK s \in Slots : s = att[a].cmd
  BY DEF Control, AttemptStates
<1>2. cmds[s] \in CommandStates
  BY DEF Control
<1>3. cmds' = [cmds EXCEPT ![s] = [cmds[s] EXCEPT !.status = status]]
  BY <1>1 DEF SetStatus, Control
<1>4. [cmds[s] EXCEPT !.status = status] \in CommandStates
  BY <1>2 DEF CommandStates
<1> QED
  BY <1>2, <1>3, <1>4 DEF Control, SameCommands, CommandStates

\* ParkAsUnknown: so does an ambiguous delivery, and the row says so.
LEMMA ParkEffect ==
    ASSUME Control, row \in RowStates, NEW a \in Who, ParkAsUnknown(a)
    PROVE  /\ cmds' \in [Slots -> CommandStates] /\ SameCommands
           /\ row' = [row EXCEPT !.ambiguous = TRUE] \/ row' = row
<1>1. CASE Command(a).status \in {"claimed", "unknown"}
  <2>1. SetStatus(a, "unknown") /\ row' = [row EXCEPT !.ambiguous = TRUE]
    BY <1>1 DEF ParkAsUnknown
  <2>2. "unknown" \in Statuses
    BY DEF Statuses
  <2> QED
    BY <2>1, <2>2, SetStatusEffect
<1>2. CASE ~(Command(a).status \in {"claimed", "unknown"})
  BY <1>2 DEF ParkAsUnknown, Control, SameCommands
<1> QED
  BY <1>1, <1>2

-----------------------------------------------------------------------------
(* What is on record stays on record *)

Finished == {"completed", "quiesced"}

\* Row s may follow row r: nothing that was recorded is lost.
Later(r, s) ==
    /\ r.terminal # None => s.terminal = r.terminal
    /\ r.evidence => s.evidence
    /\ r.published => s.published
    /\ r.failure => s.failure
    /\ r.continued => s.continued
    /\ r.attached => s.attached

\* The provider's session may go from p to q: a finished turn stays finished.
ProviderLater(p, q) ==
    /\ p # "absent" => q # "absent"
    /\ p \in Finished => q \in Finished
    /\ p = "failed" => q = "failed"

Lasting == Later(row, row') /\ ProviderLater(provider, provider') /\ posts' >= posts

\* The writes of the row keep its type and what it records.
LEMMA RowWrites ==
    ASSUME NEW r \in RowStates
    PROVE  /\ Later(r, r)
           /\ [r EXCEPT !.profileGen = TRUE] \in RowStates /\ Later(r, [r EXCEPT !.profileGen = TRUE])
           /\ [r EXCEPT !.profile = TRUE] \in RowStates /\ Later(r, [r EXCEPT !.profile = TRUE])
           /\ [r EXCEPT !.hostGen = TRUE] \in RowStates /\ Later(r, [r EXCEPT !.hostGen = TRUE])
           /\ [r EXCEPT !.host = TRUE] \in RowStates /\ Later(r, [r EXCEPT !.host = TRUE])
           /\ [r EXCEPT !.attached = TRUE] \in RowStates /\ Later(r, [r EXCEPT !.attached = TRUE])
           /\ [r EXCEPT !.harvested = TRUE] \in RowStates /\ Later(r, [r EXCEPT !.harvested = TRUE])
           /\ [r EXCEPT !.published = TRUE] \in RowStates /\ Later(r, [r EXCEPT !.published = TRUE])
           /\ [r EXCEPT !.evidence = TRUE] \in RowStates /\ Later(r, [r EXCEPT !.evidence = TRUE])
           /\ [r EXCEPT !.quarantined = TRUE] \in RowStates /\ Later(r, [r EXCEPT !.quarantined = TRUE])
           /\ [r EXCEPT !.turn = "accepted"] \in RowStates
           /\ Later(r, [r EXCEPT !.turn = "accepted"])
           /\ \A b \in BOOLEAN : /\ [r EXCEPT !.ambiguous = b] \in RowStates
                                 /\ Later(r, [r EXCEPT !.ambiguous = b])
           /\ \A t \in TerminalStates : /\ [r EXCEPT !.terminal = t] \in RowStates
                                        /\ r.terminal = None =>
                                              Later(r, [r EXCEPT !.terminal = t])
           /\ \A c \in CleanupStates : /\ [r EXCEPT !.cleanup = c] \in RowStates
                                       /\ Later(r, [r EXCEPT !.cleanup = c])
<1>1. Later(r, r)
  BY DEF Later
<1>2. [r EXCEPT !.profileGen = TRUE] \in RowStates /\ Later(r, [r EXCEPT !.profileGen = TRUE])
  BY DEF RowStates, Later
<1>3. [r EXCEPT !.profile = TRUE] \in RowStates /\ Later(r, [r EXCEPT !.profile = TRUE])
  BY DEF RowStates, Later
<1>4. [r EXCEPT !.hostGen = TRUE] \in RowStates /\ Later(r, [r EXCEPT !.hostGen = TRUE])
  BY DEF RowStates, Later
<1>5. [r EXCEPT !.host = TRUE] \in RowStates /\ Later(r, [r EXCEPT !.host = TRUE])
  BY DEF RowStates, Later
<1>6. [r EXCEPT !.attached = TRUE] \in RowStates /\ Later(r, [r EXCEPT !.attached = TRUE])
  BY DEF RowStates, Later
<1>7. [r EXCEPT !.harvested = TRUE] \in RowStates /\ Later(r, [r EXCEPT !.harvested = TRUE])
  BY DEF RowStates, Later
<1>8. [r EXCEPT !.published = TRUE] \in RowStates /\ Later(r, [r EXCEPT !.published = TRUE])
  BY DEF RowStates, Later
<1>9. [r EXCEPT !.evidence = TRUE] \in RowStates /\ Later(r, [r EXCEPT !.evidence = TRUE])
  BY DEF RowStates, Later
<1>10. [r EXCEPT !.quarantined = TRUE] \in RowStates /\ Later(r, [r EXCEPT !.quarantined = TRUE])
  BY DEF RowStates, Later
<1>11. /\ [r EXCEPT !.turn = "accepted"] \in RowStates
      /\ Later(r, [r EXCEPT !.turn = "accepted"])
  BY DEF RowStates, Later
<1>12. ASSUME NEW b \in BOOLEAN
      PROVE  /\ [r EXCEPT !.ambiguous = b] \in RowStates
             /\ Later(r, [r EXCEPT !.ambiguous = b])
  BY DEF RowStates, Later
<1>13. ASSUME NEW t \in TerminalStates
      PROVE  /\ [r EXCEPT !.terminal = t] \in RowStates
             /\ r.terminal = None => Later(r, [r EXCEPT !.terminal = t])
  BY DEF RowStates, Later
<1>14. ASSUME NEW c \in CleanupStates
      PROVE  /\ [r EXCEPT !.cleanup = c] \in RowStates
             /\ Later(r, [r EXCEPT !.cleanup = c])
  BY DEF RowStates, Later
<1> QED
  BY <1>1, <1>2, <1>3, <1>4, <1>5, <1>6, <1>7, <1>8, <1>9,
     <1>10, <1>11, <1>12, <1>13, <1>14

-----------------------------------------------------------------------------
(* A step of an attempt *)

SameTypes == cmds' \in [Slots -> CommandStates] /\ SameCommands

SomeMove(a) == (\E at \in Steps : Goes(a, at)) \/ Returns(a) \/ Retries(a) \/ Drops(a)

\* The row, the commands, the attempts and the workflow after a step of attempt a.
Moved(a) ==
    /\ row' \in RowStates /\ Later(row, row')
    /\ Framed(a) /\ SameTypes /\ SomeMove(a)

\* The world after a step.
WorldMoved ==
    /\ obs' \in Observations /\ Outside'
    /\ ProviderLater(provider, provider') /\ posts' >= posts

\* A session is attached, or about to be, only when the provider has one; what is
\* marked as posted was posted; the workflow asks for a snapshot only when it may.
Existing ==
    /\ row.attached => provider # "absent"
    /\ \A a \in Who : At(a, "ensure_session", "attach") => provider # "absent"
    /\ \A a \in Who : At(a, "submit_turn", "posted") => posts > 0
    /\ wf.pc = "snapshot" => wf.snapshots < SnapshotAttempts

\* The ways an attempt may go on, with the effect each has.
LEMMA Moves ==
    ASSUME Control, row \in RowStates, NEW a \in Who
    PROVE  /\ \A at \in Steps : Step(a, at) /\ UNCHANGED <<row, cmds>> =>
                                   row' = row /\ Goes(a, at) /\ Moved(a)
           /\ \A at \in Steps : Read(a, at) => row' = row /\ Goes(a, at) /\ Moved(a)
           /\ Return(a) /\ UNCHANGED <<row, cmds>> => row' = row /\ Returns(a) /\ Moved(a)
           /\ Error(a) /\ UNCHANGED <<row, cmds>> => row' = row /\ Retries(a) /\ Moved(a)
           /\ Conflict(a) => row' = row /\ Drops(a) /\ Moved(a)
           /\ \A r \in RowStates, at \in Steps, keeps \in BOOLEAN :
                 Write(a, r, at, keeps) /\ Later(row, r) =>
                    row' = r /\ Goes(a, at) /\ Moved(a)
           /\ \A r \in RowStates : WriteAndReturn(a, r) /\ Later(row, r) =>
                                      row' = r /\ Returns(a) /\ Moved(a)
<1>0. Later(row, row) /\ (UNCHANGED cmds => SameTypes)
  BY RowWrites DEF Control, SameTypes, SameCommands
<1>1. ASSUME NEW at \in Steps, Step(a, at), UNCHANGED <<row, cmds>>
      PROVE  row' = row /\ Goes(a, at) /\ Moved(a)
  BY <1>0, <1>1, StepEffect DEF Moved, SomeMove
<1>2. ASSUME NEW at \in Steps, Read(a, at) PROVE row' = row /\ Goes(a, at) /\ Moved(a)
  <2>1. UNCHANGED <<row, cmds>>
    BY <1>2 DEF Read
  <2> QED
    BY <2>1, <1>0, <1>2, ReadEffect DEF Moved, SomeMove, SameTypes
<1>3. ASSUME Return(a), UNCHANGED <<row, cmds>> PROVE row' = row /\ Returns(a) /\ Moved(a)
  BY <1>0, <1>3, ReturnEffect DEF Moved, SomeMove
<1>4. ASSUME Error(a), UNCHANGED <<row, cmds>> PROVE row' = row /\ Retries(a) /\ Moved(a)
  BY <1>0, <1>4, ErrorEffect DEF Moved, SomeMove
<1>5. ASSUME Conflict(a) PROVE row' = row /\ Drops(a) /\ Moved(a)
  BY <1>0, <1>5, ConflictEffect DEF Moved, SomeMove, SameTypes
<1>6. ASSUME NEW r \in RowStates, NEW at \in Steps, NEW keeps \in BOOLEAN,
             Write(a, r, at, keeps), Later(row, r)
      PROVE  row' = r /\ Goes(a, at) /\ Moved(a)
  BY <1>6, WriteEffect DEF Moved, SomeMove, SameTypes
<1>7. ASSUME NEW r \in RowStates, WriteAndReturn(a, r), Later(row, r)
      PROVE  row' = r /\ Returns(a) /\ Moved(a)
  BY <1>7, WriteAndReturnEffect DEF Moved, SomeMove, SameTypes
<1> QED
  BY <1>1, <1>2, <1>3, <1>4, <1>5, <1>6, <1>7

\* A step that leaves the world alone.
LEMMA WorldUnmoved ==
    ASSUME obs \in Observations, Outside, UNCHANGED <<outside, rest>>
    PROVE  WorldMoved
BY DEF outside, rest, WorldMoved, Outside, ProviderLater

\* Which fields of the row a step of attempt a writes, and where.
RowBy(a) ==
    /\ row'.desired = row.desired /\ row'.continued = row.continued
    /\ row'.failure = row.failure /\ row'.handoff = row.handoff
    /\ \/ row'.terminal = row.terminal
       \/ /\ At(a, "record_terminal", "mark") /\ row.terminal = None
          /\ row'.terminal = TerminalOf(Command(a).outcome)
    /\ \/ row'.evidence = row.evidence
       \/ At(a, "publish", "attach")
    /\ \/ row'.cleanup = row.cleanup
       \/ /\ At(a, "stop_provider", "mark")
          /\ row.cleanup = "pending" /\ row'.cleanup = "provider_stopped"
       \/ At(a, "stop_host", "mark") /\ row'.cleanup = "host_stopped"
       \/ At(a, "release", "mark") /\ row'.cleanup = "leases_released"
    /\ \/ row'.turn = row.turn
       \/ At(a, "submit_turn", "accept") /\ row'.turn = "accepted"
    /\ row'.attached = row.attached \/ At(a, "ensure_session", "attach")
    /\ \/ row'.profile = row.profile
       \/ At(a, "ensure_profile", "bind") /\ row'.profile
    /\ \/ row'.host = row.host
       \/ At(a, "ensure_host", "bind") /\ row'.host
    /\ \/ row'.ambiguous => row.ambiguous
       \/ /\ att[a].act = "submit_turn"
          /\ \/ att[a].at = "prepare" /\ bridge = "posting"
             \/ att[a].at \in {"posting", "post"}

\* What it does to the world, and where.
WorldBy(a) ==
    /\ obs' = obs
    /\ \/ provider' = provider
       \/ At(a, "ensure_session", "create") /\ provider' = "ready"
       \/ At(a, "submit_turn", "post") /\ provider' = "running"
       \/ att[a].act = "stop_provider" /\ provider = "running" /\ provider' = StoppedAs
    /\ \/ posts' = posts
       \/ At(a, "submit_turn", "post") /\ posts' = posts + 1
    /\ provider' = "running" => provider = "running" \/ posts' = posts + 1
    /\ \/ bridge' = bridge
       \/ At(a, "submit_turn", "prepare") /\ bridge = "not_prepared" /\ bridge' = "prepared"
       \/ At(a, "submit_turn", "posting") /\ bridge' = "posting"
       \/ At(a, "submit_turn", "posted") /\ bridge' = "posted"
    /\ \/ lease' = lease
       \/ At(a, "ensure_profile", "acquire") /\ lease' = "held"
       \/ At(a, "ensure_profile", "bind") /\ ~row.profile /\ row' = row
       \/ att[a].act = "ensure_profile" /\ lease' = "given_up"
       \/ At(a, "release", "release") /\ row.cleanup = "host_stopped"

\* What holds where it arrives.
PlaceBy(a) ==
    /\ At(a, "ensure_profile", "bind")' => lease' = "held"
    /\ At(a, "ensure_session", "attach")' => provider' # "absent"
    /\ At(a, "submit_turn", "posting")' =>
          /\ At(a, "submit_turn", "prepare") /\ bridge \in {"not_prepared", "prepared"}
          /\ bridge' = "prepared" /\ posts' = posts
    /\ At(a, "submit_turn", "post")' =>
          At(a, "submit_turn", "posting") /\ bridge' = "posting" /\ posts' = posts
    /\ At(a, "submit_turn", "posted")' => posts' > 0
    /\ At(a, "submit_turn", "accept")' =>
          bridge' = "posted" /\ (bridge = "posted" \/ At(a, "submit_turn", "posted"))
    /\ At(a, "publish", "attach")' => row'.published

Summary(a) == Moved(a) /\ WorldMoved /\ RowBy(a) /\ WorldBy(a) /\ PlaceBy(a)

\* An attempt that is over arrives nowhere.
LEMMA NowhereBy ==
    ASSUME NEW a \in Who, Returns(a) \/ Retries(a) \/ Drops(a)
    PROVE  PlaceBy(a)
BY DEF Returns, Retries, Drops, Leaves, PlaceBy, At

\* A step of an attempt that does not write the row.
LEMMA RowUnmoved ==
    ASSUME NEW a \in Who, row' = row
    PROVE  RowBy(a)
BY DEF RowBy

\* A step of an attempt that leaves the world alone.
LEMMA WorldByNone ==
    ASSUME NEW a \in Who, obs \in Observations, Outside, UNCHANGED <<outside, rest>>
    PROVE  WorldBy(a) /\ WorldMoved
<1>1. WorldMoved
  BY WorldUnmoved
<1>2. WorldBy(a)
  BY DEF outside, rest, WorldBy
<1> QED
  BY <1>1, <1>2

\* A step that changes the lease or the host only.
LEMMA ResourcesMoved ==
    ASSUME obs \in Observations, Outside, UNCHANGED <<bridge, provider, posts, rest>>,
           lease' \in LeaseStates, hostUp' \in BOOLEAN
    PROVE  WorldMoved
BY DEF WorldMoved, Outside, rest, ProviderLater

\* The claim and the receipt of a command.
LEMMA ClaimSummary ==
    ASSUME Types, NEW a \in Who, Claim(a) \/ Settle(a)
    PROVE  Summary(a)
<1>0. Control /\ row \in RowStates
  BY DEF Types
<1>1. WorldBy(a) /\ WorldMoved
  BY WorldByNone DEF Types, Claim, Settle
<1>2. CASE Claim(a)
  <2>1. CASE Conflict(a)
    BY <2>1, <1>0, <1>1, Moves, NowhereBy, RowUnmoved DEF Summary
  <2>2. CASE Return(a) /\ UNCHANGED <<row, cmds>>
    BY <2>2, <1>0, <1>1, Moves, NowhereBy, RowUnmoved DEF Summary
  <2>3. CASE SetStatus(a, "claimed") /\ Step(a, FirstStep(att[a].act)) /\ UNCHANGED row
    <3>1. att[a].act \in Acts
      BY <1>2, <1>0 DEF Claim, Control, AttemptStates
    <3> DEFINE at == FirstStep(att[a].act)
    <3>2. at \in Steps \ {"claim", "attach", "posting", "post", "posted", "accept"}
      BY <3>1 DEF FirstStep, Acts, Steps
    <3>3. att[a].act = "ensure_profile" => at # "bind"
      BY <3>1 DEF FirstStep, Acts
    <3>4. "claimed" \in Statuses
      BY DEF Statuses
    <3>5. SameTypes
      BY <3>4, <2>3, <1>0, SetStatusEffect DEF SameTypes
    <3> HIDE DEF at
    <3>6. Framed(a) /\ Goes(a, at)
      BY <2>3, <3>2, <1>0, StepEffect DEF at
    <3>7. row' = row /\ Later(row, row')
      BY <2>3, <1>0, RowWrites
    <3>8. Moved(a)
      BY <3>2, <3>5, <3>6, <3>7, <1>0 DEF Moved, SomeMove
    <3>9. PlaceBy(a)
      BY <3>2, <3>3, <3>6 DEF PlaceBy, Goes, At
    <3> QED
      BY <3>7, <3>8, <3>9, <1>1, RowUnmoved DEF Summary
  <2> QED
    BY <1>2, <2>1, <2>2, <2>3 DEF Claim
<1>3. CASE Settle(a)
  <2>1. Return(a)
    BY <1>3 DEF Settle
  <2>2. Framed(a) /\ Returns(a)
    BY <2>1, <1>0, ReturnEffect
  <2>3. CASE UNCHANGED <<row, cmds>>
    BY <2>1, <2>3, <1>0, <1>1, Moves, NowhereBy, RowUnmoved DEF Summary
  <2>4. CASE /\ SetStatus(a, "applied")
             /\ row' = [row EXCEPT !.ambiguous = row.ambiguous /\ att[a].act # "submit_turn"]
    <3>1. "applied" \in Statuses
      BY DEF Statuses
    <3>2. SameTypes
      BY <3>1, <2>4, <1>0, SetStatusEffect DEF SameTypes
    <3> DEFINE b == row.ambiguous /\ att[a].act # "submit_turn"
    <3>3. b \in BOOLEAN /\ (b => row.ambiguous)
      OBVIOUS
    <3>4. row' = [row EXCEPT !.ambiguous = b]
      BY <2>4
    <3> HIDE DEF b
    <3>5. row' \in RowStates /\ Later(row, row')
      BY <3>3, <3>4, <1>0, RowWrites
    <3>6. RowBy(a)
      BY <3>3, <3>4, <1>0 DEF RowBy, RowStates
    <3> QED
      BY <3>2, <3>5, <3>6, <2>2, <1>1, NowhereBy DEF Summary, Moved, SomeMove
  <2> QED
    BY <1>3, <1>0, <2>3, <2>4 DEF Settle, RowStates
<1> QED
  BY <1>2, <1>3

\* The attempts of the three ensure activities.
LEMMA EnsureSummary ==
    ASSUME Types, NEW a \in Who,
           \/ ProfileGeneration(a) \/ AcquireLease(a) \/ BindLease(a)
           \/ HostGeneration(a) \/ LaunchHost(a) \/ BindHost(a)
           \/ CreateProviderSession(a) \/ AttachProviderSession(a),
           At(a, "ensure_session", "attach") => provider # "absent"
    PROVE  Summary(a)
<1>0. /\ Control /\ row \in RowStates /\ obs \in Observations /\ Outside
      /\ {"acquire", "bind", "launch", "settle", "attach"} \subseteq Steps
  BY DEF Types, Steps
<1>1. CASE ProfileGeneration(a)
  <2>1. At(a, "ensure_profile", "generation") /\ UNCHANGED <<outside, rest>>
    BY <1>1 DEF ProfileGeneration
  <2>2. /\ row' = row \/ row' = [row EXCEPT !.profileGen = TRUE]
        /\ Goes(a, "acquire") /\ Moved(a)
    BY <1>0, <1>1, Moves, RowWrites DEF ProfileGeneration
  <2>3. RowBy(a)
    BY <2>1, <2>2, <1>0 DEF RowBy, RowStates
  <2>4. PlaceBy(a)
    BY <2>1, <2>2 DEF PlaceBy, Goes, At
  <2> QED
    BY <1>0, <2>1, <2>2, <2>3, <2>4, WorldByNone DEF Summary
<1>2. CASE AcquireLease(a)
  <2>1. /\ At(a, "ensure_profile", "acquire") /\ lease' = "held"
        /\ UNCHANGED <<bridge, hostUp, provider, posts, rest>>
    BY <1>2 DEF AcquireLease
  <2>2. row' = row /\ Goes(a, "bind") /\ Moved(a)
    BY <1>0, <1>2, Moves DEF AcquireLease
  <2>3. WorldMoved
    BY <2>1, <1>0, ResourcesMoved DEF Outside, LeaseStates
  <2>4. WorldBy(a)
    BY <2>1 DEF WorldBy, rest
  <2>5. PlaceBy(a)
    BY <2>1, <2>2 DEF PlaceBy, Goes, At
  <2> QED
    BY <2>2, <2>3, <2>4, <2>5, RowUnmoved DEF Summary
<1>3. CASE BindLease(a)
  <2>1. /\ At(a, "ensure_profile", "bind")
        /\ UNCHANGED <<bridge, hostUp, provider, posts, rest>>
    BY <1>3 DEF BindLease
  <2>2. CASE row.profile /\ Step(a, "settle") /\ UNCHANGED <<row, cmds, lease>>
    <3>1. row' = row /\ Goes(a, "settle") /\ Moved(a)
      BY <1>0, <2>2, Moves
    <3>2. PlaceBy(a)
      BY <2>1, <3>1 DEF PlaceBy, Goes, At
    <3> QED
      BY <2>1, <2>2, <3>1, <3>2, <1>0, WorldByNone, RowUnmoved DEF Summary, outside
  <2>3. CASE /\ ~row.profile /\ UNCHANGED lease
             /\ Write(a, [row EXCEPT !.profile = TRUE], "settle", FALSE)
    <3>1. row' = [row EXCEPT !.profile = TRUE] /\ Goes(a, "settle") /\ Moved(a)
      BY <1>0, <2>3, Moves, RowWrites
    <3>2. PlaceBy(a)
      BY <2>1, <3>1 DEF PlaceBy, Goes, At
    <3>3. RowBy(a)
      BY <2>1, <3>1, <1>0 DEF RowBy, RowStates
    <3> QED
      BY <2>1, <2>3, <3>1, <3>2, <3>3, <1>0, WorldByNone DEF Summary, outside
  <2>4. CASE ~row.profile /\ lease' = "free" /\ Conflict(a)
    <3>1. row' = row /\ Drops(a) /\ Moved(a)
      BY <1>0, <2>4, Moves
    <3>2. WorldMoved
      BY <2>1, <2>4, <1>0, ResourcesMoved DEF Outside, LeaseStates
    <3>3. WorldBy(a)
      BY <2>1, <2>4, <3>1 DEF WorldBy, rest
    <3> QED
      BY <3>1, <3>2, <3>3, NowhereBy, RowUnmoved DEF Summary
  <2> QED
    BY <1>3, <2>2, <2>3, <2>4 DEF BindLease
<1>4. CASE HostGeneration(a)
  <2>1. At(a, "ensure_host", "generation") /\ UNCHANGED <<outside, rest>>
    BY <1>4 DEF HostGeneration
  <2>2. /\ row' = row \/ row' = [row EXCEPT !.hostGen = TRUE]
        /\ Goes(a, "launch") /\ Moved(a)
    BY <1>0, <1>4, Moves, RowWrites DEF HostGeneration
  <2>3. RowBy(a)
    BY <2>1, <2>2, <1>0 DEF RowBy, RowStates
  <2>4. PlaceBy(a)
    BY <2>1, <2>2 DEF PlaceBy, Goes, At
  <2> QED
    BY <1>0, <2>1, <2>2, <2>3, <2>4, WorldByNone DEF Summary
<1>5. CASE LaunchHost(a)
  <2>1. /\ At(a, "ensure_host", "launch") /\ hostUp' = TRUE
        /\ UNCHANGED <<bridge, lease, provider, posts, rest>>
    BY <1>5 DEF LaunchHost
  <2>2. row' = row /\ Goes(a, "bind") /\ Moved(a)
    BY <1>0, <1>5, Moves DEF LaunchHost
  <2>3. WorldMoved
    BY <2>1, <1>0, ResourcesMoved DEF Outside, LeaseStates
  <2>4. WorldBy(a)
    BY <2>1 DEF WorldBy, rest
  <2>5. PlaceBy(a)
    BY <2>1, <2>2 DEF PlaceBy, Goes, At
  <2> QED
    BY <2>2, <2>3, <2>4, <2>5, RowUnmoved DEF Summary
<1>6. CASE BindHost(a)
  <2>1. At(a, "ensure_host", "bind") /\ UNCHANGED <<outside, rest>>
    BY <1>6 DEF BindHost
  <2>2. CASE Conflict(a)
    BY <2>1, <2>2, <1>0, Moves, NowhereBy, RowUnmoved, WorldByNone DEF Summary
  <2>3. CASE ~Conflict(a)
    <3>1. /\ row' = row \/ row' = [row EXCEPT !.host = TRUE]
          /\ Goes(a, "settle") /\ Moved(a)
      BY <1>0, <1>6, <2>3, Moves, RowWrites DEF BindHost
    <3>2. RowBy(a)
      BY <2>1, <3>1, <1>0 DEF RowBy, RowStates
    <3>3. PlaceBy(a)
      BY <2>1, <3>1 DEF PlaceBy, Goes, At
    <3> QED
      BY <1>0, <2>1, <3>1, <3>2, <3>3, WorldByNone DEF Summary
  <2> QED
    BY <2>2, <2>3
<1>7. CASE CreateProviderSession(a)
  <2>1. /\ At(a, "ensure_session", "create")
        /\ UNCHANGED <<bridge, lease, hostUp, posts, rest>>
    BY <1>7 DEF CreateProviderSession
  <2>2. /\ row' = row /\ Moved(a)
        /\ \/ Goes(a, "settle") /\ provider' = provider
           \/ /\ Goes(a, "attach")
              /\ provider' = IF provider = "absent" THEN "ready" ELSE provider
    BY <1>0, <1>7, Moves DEF CreateProviderSession
  <2>3. WorldBy(a) /\ WorldMoved
    BY <2>1, <2>2, <1>0
       DEF WorldBy, WorldMoved, Outside, rest, ProviderLater, Finished
  <2>4. PlaceBy(a)
    BY <2>1, <2>2 DEF PlaceBy, Goes, At
  <2> QED
    BY <2>2, <2>3, <2>4, RowUnmoved DEF Summary
<1>8. CASE AttachProviderSession(a)
  <2>1. At(a, "ensure_session", "attach") /\ UNCHANGED <<outside, rest>>
    BY <1>8 DEF AttachProviderSession
  <2>2. CASE Conflict(a)
    BY <2>1, <2>2, <1>0, Moves, NowhereBy, RowUnmoved, WorldByNone DEF Summary
  <2>3. CASE ~Conflict(a)
    <3>1. /\ row' = row \/ row' = [row EXCEPT !.attached = TRUE]
          /\ Goes(a, "settle") /\ Moved(a)
      BY <1>0, <1>8, <2>3, Moves, RowWrites DEF AttachProviderSession
    <3>2. RowBy(a)
      BY <2>1, <3>1, <1>0 DEF RowBy, RowStates
    <3>3. PlaceBy(a)
      BY <2>1, <3>1 DEF PlaceBy, Goes, At
    <3> QED
      BY <1>0, <2>1, <3>1, <3>2, <3>3, WorldByNone DEF Summary
  <2> QED
    BY <2>2, <2>3
<1> QED
  BY <1>1, <1>2, <1>3, <1>4, <1>5, <1>6, <1>7, <1>8

\* A post reaches the provider.
LEMMA DeliverEffect ==
    ASSUME obs \in Observations, Outside, Deliver, UNCHANGED <<bridge, lease, hostUp, obs>>,
           budget' \in Budgets
    PROVE  /\ WorldMoved /\ posts' = posts + 1
           /\ provider' = provider \/ (provider = "ready" /\ provider' = "running")
BY DEF Deliver, WorldMoved, Outside, ProviderLater, Finished

\* A fault is counted within its bound.
LEMMA FaultCounts ==
    ASSUME Outside, budget.faults < MaxFaults, budget' = [budget EXCEPT !.faults = @ + 1]
    PROVE  budget' \in Budgets
BY OmnigentAssumption DEF Outside, Budgets

\* The attempts of submit_turn.
LEMMA SubmitSummary ==
    ASSUME Types, NEW a \in Who,
           \/ PrepareTurn(a) \/ MarkPosting(a) \/ PostMessage(a) \/ MarkPosted(a)
           \/ AcceptTurn(a) \/ LosePost(a),
           At(a, "submit_turn", "posted") => posts > 0
    PROVE  Summary(a)
<1>0. /\ Control /\ row \in RowStates /\ obs \in Observations /\ Outside
      /\ {"posting", "post", "posted", "accept", "settle"} \subseteq Steps
  BY DEF Types, Steps
<1>1. CASE PrepareTurn(a)
  <2>1. /\ At(a, "submit_turn", "prepare")
        /\ UNCHANGED <<lease, hostUp, provider, posts, rest>>
    BY <1>1 DEF PrepareTurn
  <2>2. CASE Error(a) /\ UNCHANGED <<row, cmds, bridge>>
    BY <2>1, <2>2, <1>0, Moves, NowhereBy, RowUnmoved, WorldByNone DEF Summary, outside
  <2>3. CASE bridge = "posted" /\ Step(a, "accept") /\ UNCHANGED <<row, cmds, bridge>>
    <3>1. row' = row /\ Goes(a, "accept") /\ Moved(a)
      BY <1>0, <2>3, Moves
    <3>2. PlaceBy(a)
      BY <2>1, <2>3, <3>1 DEF PlaceBy, Goes, At
    <3> QED
      BY <2>1, <2>3, <3>1, <3>2, <1>0, WorldByNone, RowUnmoved DEF Summary, outside
  <2>4. CASE /\ bridge \in {"not_prepared", "prepared"} /\ bridge' = "prepared"
             /\ Step(a, "posting") /\ UNCHANGED <<row, cmds>>
    <3>1. row' = row /\ Goes(a, "posting") /\ Moved(a)
      BY <1>0, <2>4, Moves
    <3>2. PlaceBy(a)
      BY <2>1, <2>4, <3>1 DEF PlaceBy, Goes, At
    <3>3. WorldBy(a)
      BY <2>1, <2>4 DEF WorldBy, rest
    <3>4. WorldMoved
      BY <2>1, <2>4, <1>0 DEF WorldMoved, Outside, rest, ProviderLater
    <3> QED
      BY <3>1, <3>2, <3>3, <3>4, RowUnmoved DEF Summary
  <2>5. CASE posts > 0 /\ Step(a, "posted") /\ UNCHANGED <<row, cmds, bridge>>
    <3>1. row' = row /\ Goes(a, "posted") /\ Moved(a)
      BY <1>0, <2>5, Moves
    <3>2. PlaceBy(a)
      BY <2>1, <2>5, <3>1 DEF PlaceBy, Goes, At
    <3> QED
      BY <2>1, <2>5, <3>1, <3>2, <1>0, WorldByNone, RowUnmoved DEF Summary, outside
  <2>6. CASE bridge = "posting" /\ ParkAsUnknown(a) /\ Return(a) /\ UNCHANGED bridge
    <3>1. Framed(a) /\ Returns(a)
      BY <2>6, <1>0, ReturnEffect
    <3>2. SameTypes /\ (row' = [row EXCEPT !.ambiguous = TRUE] \/ row' = row)
      BY <2>6, <1>0, ParkEffect DEF SameTypes
    <3>3. row' \in RowStates /\ Later(row, row')
      BY <3>2, <1>0, RowWrites
    <3>4. RowBy(a)
      BY <3>2, <2>1, <2>6, <1>0 DEF RowBy, RowStates, At
    <3> QED
      BY <3>1, <3>2, <3>3, <3>4, <2>1, <2>6, <1>0, WorldByNone, NowhereBy
         DEF Summary, Moved, SomeMove, outside
  <2> QED
    BY <1>1, <2>2, <2>3, <2>4, <2>5, <2>6 DEF PrepareTurn
<1>2. CASE MarkPosting(a)
  <2>1. /\ At(a, "submit_turn", "posting") /\ bridge' = "posting"
        /\ UNCHANGED <<lease, hostUp, provider, posts, rest>>
    BY <1>2 DEF MarkPosting
  <2>2. row' = row /\ Goes(a, "post") /\ Moved(a)
    BY <1>0, <1>2, Moves DEF MarkPosting
  <2>3. PlaceBy(a)
    BY <2>1, <2>2 DEF PlaceBy, Goes, At
  <2>4. WorldBy(a)
    BY <2>1 DEF WorldBy, rest
  <2>5. WorldMoved
    BY <2>1, <1>0 DEF WorldMoved, Outside, rest, ProviderLater
  <2> QED
    BY <2>2, <2>3, <2>4, <2>5, RowUnmoved DEF Summary
<1>3. CASE PostMessage(a)
  <2>1. /\ At(a, "submit_turn", "post") /\ Deliver
        /\ UNCHANGED <<bridge, lease, hostUp, obs, budget>>
    BY <1>3 DEF PostMessage, rest
  <2>2. row' = row /\ Goes(a, "posted") /\ Moved(a)
    BY <1>0, <1>3, Moves DEF PostMessage
  <2>3. budget' \in Budgets /\ posts \in Nat
    BY <2>1, <1>0 DEF Outside
  <2>4. /\ WorldMoved /\ posts' = posts + 1
        /\ provider' = provider \/ (provider = "ready" /\ provider' = "running")
    BY <2>1, <2>3, <1>0, DeliverEffect
  <2>5. PlaceBy(a)
    BY <2>1, <2>2, <2>3, <2>4 DEF PlaceBy, Goes, At
  <2>6. WorldBy(a)
    BY <2>1, <2>4 DEF WorldBy
  <2> QED
    BY <2>2, <2>4, <2>5, <2>6, RowUnmoved DEF Summary
<1>4. CASE LosePost(a)
  <2>1. /\ att[a].act = "submit_turn" /\ att[a].at \in {"posting", "post"}
        /\ ParkAsUnknown(a) /\ Error(a)
        /\ budget.faults < MaxFaults /\ budget' = [budget EXCEPT !.faults = @ + 1]
        /\ UNCHANGED <<bridge, lease, hostUp, obs>>
        /\ (At(a, "submit_turn", "post") /\ Deliver) \/ UNCHANGED <<posts, provider>>
    BY <1>4 DEF LosePost, At
  <2>2. Framed(a) /\ Retries(a)
    BY <2>1, <1>0, ErrorEffect
  <2>3. SameTypes /\ (row' = [row EXCEPT !.ambiguous = TRUE] \/ row' = row)
    BY <2>1, <1>0, ParkEffect DEF SameTypes
  <2>4. row' \in RowStates /\ Later(row, row')
    BY <2>3, <1>0, RowWrites
  <2>5. RowBy(a)
    BY <2>3, <2>1, <1>0 DEF RowBy, RowStates
  <2>6. budget' \in Budgets
    BY <2>1, <1>0, FaultCounts
  <2>7. CASE At(a, "submit_turn", "post") /\ Deliver
    <3>1. /\ WorldMoved /\ posts' = posts + 1
          /\ provider' = provider \/ (provider = "ready" /\ provider' = "running")
      BY <2>1, <2>6, <2>7, <1>0, DeliverEffect
    <3>2. WorldBy(a)
      BY <2>1, <2>7, <3>1 DEF WorldBy
    <3> QED
      BY <3>1, <3>2, <2>2, <2>3, <2>4, <2>5, NowhereBy DEF Summary, Moved, SomeMove
  <2>8. CASE UNCHANGED <<posts, provider>>
    <3>1. WorldMoved
      BY <2>1, <2>6, <2>8, <1>0 DEF WorldMoved, Outside, ProviderLater
    <3>2. WorldBy(a)
      BY <2>1, <2>8 DEF WorldBy
    <3> QED
      BY <3>1, <3>2, <2>2, <2>3, <2>4, <2>5, NowhereBy DEF Summary, Moved, SomeMove
  <2> QED
    BY <2>1, <2>7, <2>8
<1>5. CASE MarkPosted(a)
  <2>1. /\ At(a, "submit_turn", "posted") /\ bridge' = "posted"
        /\ UNCHANGED <<lease, hostUp, provider, posts, rest>>
    BY <1>5 DEF MarkPosted
  <2>2. row' = row /\ Goes(a, "accept") /\ Moved(a)
    BY <1>0, <1>5, Moves DEF MarkPosted
  <2>3. PlaceBy(a)
    BY <2>1, <2>2 DEF PlaceBy, Goes, At
  <2>4. WorldBy(a)
    BY <2>1 DEF WorldBy, rest
  <2>5. WorldMoved
    BY <2>1, <1>0 DEF WorldMoved, Outside, rest, ProviderLater
  <2> QED
    BY <2>2, <2>3, <2>4, <2>5, RowUnmoved DEF Summary
<1>6. CASE AcceptTurn(a)
  <2>1. /\ At(a, "submit_turn", "accept") /\ row' = [row EXCEPT !.turn = "accepted"]
        /\ Step(a, "settle") /\ UNCHANGED <<cmds, outside, rest>>
    BY <1>6 DEF AcceptTurn
  <2>2. Framed(a) /\ Goes(a, "settle")
    BY <2>1, <1>0, StepEffect
  <2>3. row' \in RowStates /\ Later(row, row')
    BY <2>1, <1>0, RowWrites
  <2>4. RowBy(a)
    BY <2>1, <1>0 DEF RowBy, RowStates
  <2>5. SameTypes
    BY <2>1, <1>0 DEF SameTypes, SameCommands, Control
  <2>6. PlaceBy(a)
    BY <2>1, <2>2 DEF PlaceBy, Goes, At
  <2> QED
    BY <2>1, <2>2, <2>3, <2>4, <2>5, <2>6, <1>0, WorldByNone DEF Summary, Moved, SomeMove
<1> QED
  BY <1>1, <1>2, <1>3, <1>4, <1>5, <1>6

\* The terminal that an outcome is recorded as.
LEMMA TerminalType ==
    ASSUME NEW outcome
    PROVE  TerminalOf(outcome) \in TerminalStates
BY DEF TerminalOf, TerminalStates, Failures

\* The attempts of record_terminal, harvest_evidence and publish_workspace.
LEMMA TerminalSummary ==
    ASSUME Types, NEW a \in Who,
           \/ RecordTerminal(a) \/ HarvestEvidence(a) \/ PublishWorkspace(a)
           \/ BindPublication(a) \/ AttachEvidence(a)
    PROVE  Summary(a)
<1>0. /\ Control /\ row \in RowStates /\ obs \in Observations /\ Outside
      /\ {"settle", "attach", "bind"} \subseteq Steps
  BY DEF Types, Steps
<1>1. WorldBy(a) /\ WorldMoved
  BY <1>0, WorldByNone
     DEF RecordTerminal, HarvestEvidence, PublishWorkspace, BindPublication, AttachEvidence
<1>2. CASE Conflict(a)
  BY <1>0, <1>1, <1>2, Moves, NowhereBy, RowUnmoved DEF Summary
<1>3. CASE (Error(a) \/ Return(a)) /\ UNCHANGED <<row, cmds>>
  BY <1>0, <1>1, <1>3, Moves, NowhereBy, RowUnmoved DEF Summary
<1>4. CASE Step(a, "settle") /\ UNCHANGED <<row, cmds>>
  <2>1. row' = row /\ Goes(a, "settle") /\ Moved(a)
    BY <1>0, <1>4, Moves
  <2>2. PlaceBy(a)
    BY <2>1 DEF PlaceBy, Goes, At
  <2> QED
    BY <2>1, <2>2, <1>1, RowUnmoved DEF Summary
<1> DEFINE other == \/ Conflict(a)
                    \/ (Error(a) \/ Return(a)) /\ UNCHANGED <<row, cmds>>
                    \/ Step(a, "settle") /\ UNCHANGED <<row, cmds>>
<1>5. CASE RecordTerminal(a) /\ ~other
  <2> DEFINE t == TerminalOf(Command(a).outcome)
  <2>1. /\ At(a, "record_terminal", "mark") /\ row.terminal = None
        /\ Write(a, [row EXCEPT !.terminal = t], "settle", FALSE)
    BY <1>5 DEF RecordTerminal
  <2>2. t \in TerminalStates
    BY TerminalType
  <2> HIDE DEF t
  <2>3. row' = [row EXCEPT !.terminal = t] /\ Goes(a, "settle") /\ Moved(a)
    BY <2>1, <2>2, <1>0, Moves, RowWrites
  <2>4. row'.terminal = t
    BY <2>3, <1>0 DEF RowStates
  <2>5. RowBy(a)
    BY <2>1, <2>3, <2>4, <1>0 DEF RowBy, RowStates, t
  <2>6. PlaceBy(a)
    BY <2>3 DEF PlaceBy, Goes, At
  <2> QED
    BY <2>3, <2>5, <2>6, <1>1 DEF Summary
<1>6. CASE HarvestEvidence(a) /\ ~other
  <2>1. /\ At(a, "harvest", "bind")
        /\ WriteAndReturn(a, [row EXCEPT !.harvested = TRUE])
    BY <1>6 DEF HarvestEvidence
  <2>2. row' = [row EXCEPT !.harvested = TRUE] /\ Returns(a) /\ Moved(a)
    BY <2>1, <1>0, Moves, RowWrites
  <2>3. RowBy(a)
    BY <2>1, <2>2, <1>0 DEF RowBy, RowStates
  <2> QED
    BY <2>2, <2>3, <1>1, NowhereBy DEF Summary
<1>7. CASE PublishWorkspace(a) /\ ~other
  <2>1. /\ At(a, "publish", "publish")
        /\ Read(a, IF row.published THEN "attach" ELSE "bind")
    BY <1>7 DEF PublishWorkspace
  <2>2. CASE row.published
    <3>1. row' = row /\ Goes(a, "attach") /\ Moved(a)
      BY <2>1, <2>2, <1>0, Moves
    <3>2. PlaceBy(a)
      BY <2>1, <2>2, <3>1 DEF PlaceBy, Goes, At
    <3> QED
      BY <3>1, <3>2, <1>1, RowUnmoved DEF Summary
  <2>3. CASE ~row.published
    <3>1. row' = row /\ Goes(a, "bind") /\ Moved(a)
      BY <2>1, <2>3, <1>0, Moves
    <3>2. PlaceBy(a)
      BY <2>1, <3>1 DEF PlaceBy, Goes, At
    <3> QED
      BY <3>1, <3>2, <1>1, RowUnmoved DEF Summary
  <2> QED
    BY <2>2, <2>3
<1>8. CASE BindPublication(a) /\ ~other
  <2>1. /\ At(a, "publish", "bind")
        /\ Write(a, [row EXCEPT !.published = TRUE], "attach", TRUE)
    BY <1>8 DEF BindPublication
  <2>2. row' = [row EXCEPT !.published = TRUE] /\ Goes(a, "attach") /\ Moved(a)
    BY <2>1, <1>0, Moves, RowWrites
  <2>3. RowBy(a) /\ row'.published
    BY <2>1, <2>2, <1>0 DEF RowBy, RowStates
  <2>4. PlaceBy(a)
    BY <2>1, <2>2, <2>3 DEF PlaceBy, Goes, At
  <2> QED
    BY <2>2, <2>3, <2>4, <1>1 DEF Summary
<1>9. CASE AttachEvidence(a) /\ ~other
  <2>1. /\ At(a, "publish", "attach")
        /\ Write(a, [row EXCEPT !.evidence = TRUE], "settle", FALSE)
    BY <1>9 DEF AttachEvidence
  <2>2. row' = [row EXCEPT !.evidence = TRUE] /\ Goes(a, "settle") /\ Moved(a)
    BY <2>1, <1>0, Moves, RowWrites
  <2>3. RowBy(a)
    BY <2>1, <2>2, <1>0 DEF RowBy, RowStates
  <2>4. PlaceBy(a)
    BY <2>1, <2>2 DEF PlaceBy, Goes, At
  <2> QED
    BY <2>2, <2>3, <2>4, <1>1 DEF Summary
<1> QED
  BY <1>2, <1>3, <1>4, <1>5, <1>6, <1>7, <1>8, <1>9

\* The attempts of stop_provider_session, stop_host and release_leases.
LEMMA CleanupSummary ==
    ASSUME Types, NEW a \in Who,
           \/ StopProvider(a) \/ MarkProviderStopped(a) \/ StopHost(a)
           \/ MarkHostStopped(a) \/ ReleaseLeases(a) \/ MarkReleased(a)
    PROVE  Summary(a)
<1>0. /\ Control /\ row \in RowStates /\ obs \in Observations /\ Outside
      /\ {"settle", "mark"} \subseteq Steps
      /\ {"provider_stopped", "host_stopped", "leases_released"} \subseteq CleanupStates
  BY DEF Types, Steps, CleanupStates
<1>1. CASE StopProvider(a)
  <2>1. /\ At(a, "stop_provider", "stop")
        /\ provider' = IF row.attached /\ provider = "running" THEN StoppedAs ELSE provider
        /\ UNCHANGED <<bridge, lease, hostUp, posts, rest>>
    BY <1>1 DEF StopProvider
  <2>2. row' = row /\ Goes(a, "mark") /\ Moved(a)
    BY <1>0, <1>1, Moves DEF StopProvider
  <2>3. WorldMoved
    BY <2>1, <1>0, OmnigentAssumption
       DEF WorldMoved, Outside, rest, ProviderLater, Finished
  <2>4. WorldBy(a)
    BY <2>1, OmnigentAssumption DEF WorldBy, rest, At
  <2>5. PlaceBy(a)
    BY <2>1, <2>2 DEF PlaceBy, Goes, At
  <2> QED
    BY <2>2, <2>3, <2>4, <2>5, RowUnmoved DEF Summary
<1>2. CASE MarkProviderStopped(a)
  <2>1. At(a, "stop_provider", "mark") /\ UNCHANGED <<outside, rest>>
    BY <1>2 DEF MarkProviderStopped
  <2>2. /\ Returns(a) /\ Moved(a)
        /\ \/ row' = row
           \/ /\ row.cleanup = "pending"
              /\ row' = [row EXCEPT !.cleanup = "provider_stopped"]
    BY <1>0, <1>2, Moves, RowWrites DEF MarkProviderStopped
  <2>3. RowBy(a)
    BY <2>1, <2>2, <1>0 DEF RowBy, RowStates
  <2> QED
    BY <1>0, <2>1, <2>2, <2>3, WorldByNone, NowhereBy DEF Summary
<1>3. CASE StopHost(a)
  <2>1. /\ At(a, "stop_host", "stop") /\ hostUp' = (hostUp /\ ~row.host)
        /\ UNCHANGED <<bridge, lease, provider, posts, rest>>
    BY <1>3 DEF StopHost
  <2>2. row' = row /\ Goes(a, "mark") /\ Moved(a)
    BY <1>0, <1>3, Moves DEF StopHost
  <2>3. hostUp' \in BOOLEAN /\ lease' \in LeaseStates
    BY <2>1, <1>0 DEF Outside
  <2>4. WorldMoved
    BY <2>1, <2>3, <1>0, ResourcesMoved
  <2>5. WorldBy(a)
    BY <2>1 DEF WorldBy, rest
  <2>6. PlaceBy(a)
    BY <2>1, <2>2 DEF PlaceBy, Goes, At
  <2> QED
    BY <2>2, <2>4, <2>5, <2>6, RowUnmoved DEF Summary
<1>4. CASE MarkHostStopped(a)
  <2>1. At(a, "stop_host", "mark") /\ UNCHANGED <<outside, rest>>
    BY <1>4 DEF MarkHostStopped
  <2>2. /\ Goes(a, "settle") /\ Moved(a)
        /\ row' = row \/ row' = [row EXCEPT !.cleanup = "host_stopped"]
    BY <1>0, <1>4, Moves, RowWrites DEF MarkHostStopped
  <2>3. RowBy(a)
    BY <2>1, <2>2, <1>0 DEF RowBy, RowStates
  <2>4. PlaceBy(a)
    BY <2>1, <2>2 DEF PlaceBy, Goes, At
  <2> QED
    BY <1>0, <2>1, <2>2, <2>3, <2>4, WorldByNone DEF Summary
<1>5. CASE ReleaseLeases(a)
  <2>1. /\ At(a, "release", "release")
        /\ UNCHANGED <<bridge, hostUp, provider, posts, rest>>
    BY <1>5 DEF ReleaseLeases
  <2>2. CASE Error(a) /\ UNCHANGED <<row, cmds, lease>>
    BY <2>1, <2>2, <1>0, Moves, NowhereBy, RowUnmoved, WorldByNone DEF Summary, outside
  <2>3. CASE /\ lease' = IF row.profile /\ row.cleanup = "host_stopped" THEN "free" ELSE lease
             /\ Step(a, "mark") /\ UNCHANGED <<row, cmds>>
    <3>1. row' = row /\ Goes(a, "mark") /\ Moved(a)
      BY <1>0, <2>3, Moves
    <3>2. lease' \in LeaseStates /\ hostUp' \in BOOLEAN
      BY <2>1, <2>3, <1>0 DEF Outside, LeaseStates
    <3>3. WorldMoved
      BY <2>1, <3>2, <1>0, ResourcesMoved
    <3>4. lease' = lease \/ row.cleanup = "host_stopped"
      BY <2>3, <1>0 DEF Outside
    <3>5. WorldBy(a)
      BY <2>1, <3>4 DEF WorldBy, rest
    <3>6. PlaceBy(a)
      BY <2>1, <3>1 DEF PlaceBy, Goes, At
    <3> QED
      BY <3>1, <3>3, <3>5, <3>6, RowUnmoved DEF Summary
  <2> QED
    BY <1>5, <2>2, <2>3 DEF ReleaseLeases
<1>6. CASE MarkReleased(a)
  <2>1. At(a, "release", "mark") /\ UNCHANGED <<outside, rest>>
    BY <1>6 DEF MarkReleased
  <2>2. /\ Goes(a, "settle") /\ Moved(a)
        /\ row' = row \/ row' = [row EXCEPT !.cleanup = "leases_released"]
    BY <1>0, <1>6, Moves, RowWrites DEF MarkReleased
  <2>3. RowBy(a)
    BY <2>1, <2>2, <1>0 DEF RowBy, RowStates
  <2>4. PlaceBy(a)
    BY <2>1, <2>2 DEF PlaceBy, Goes, At
  <2> QED
    BY <1>0, <2>1, <2>2, <2>3, <2>4, WorldByNone DEF Summary
<1> QED
  BY <1>1, <1>2, <1>3, <1>4, <1>5, <1>6

\* A failure after the lease was acquired.
LEMMA AbandonSummary ==
    ASSUME Types, NEW a \in Who, AbandonLease(a)
    PROVE  Summary(a)
<1>0. /\ row \in RowStates /\ obs \in Observations /\ Control /\ Outside
  BY DEF Types
<1>1. /\ att[a].act = "ensure_profile" /\ lease' = "given_up"
      /\ (Error(a) /\ UNCHANGED <<row, cmds>>) \/ Conflict(a)
      /\ budget.faults < MaxFaults /\ budget' = [budget EXCEPT !.faults = @ + 1]
      /\ UNCHANGED <<row, cmds, obs, bridge, hostUp, provider, posts>>
  BY DEF AbandonLease, At
<1>2. row' = row /\ Moved(a) /\ (Retries(a) \/ Drops(a))
  BY <1>0, <1>1, Moves
<1>3. budget' \in Budgets
  BY <1>0, <1>1, FaultCounts
<1>4. WorldMoved
  BY <1>0, <1>1, <1>3 DEF WorldMoved, Outside, ProviderLater, LeaseStates
<1>5. WorldBy(a)
  BY <1>1 DEF WorldBy
<1> QED
  BY <1>2, <1>4, <1>5, NowhereBy, RowUnmoved DEF Summary

\* Every step of an attempt.
LEMMA AttemptSummary ==
    ASSUME Types, Existing, NEW a \in Who, Attempted(a) \/ Faulted(a)
    PROVE  Summary(a)
BY ClaimSummary, EnsureSummary, SubmitSummary, TerminalSummary, CleanupSummary,
   AbandonSummary
   DEF Attempted, Faulted, Existing

-----------------------------------------------------------------------------
(* The decision *)

EarlyKinds == {"ensure_profile_lease", "ensure_host", "ensure_provider_session",
               "submit_turn"}

\* What a decision that is taken from the row and the observations tells of them.
Founded(d) ==
    /\ d.kind \in TerminalKinds => d.outcome \in Outcomes
    /\ d.outcome = "success" => "success" \in {obs.status, obs.turn}
    /\ d.outcome = "failure" => "failure" \in {obs.status, obs.turn} \/ row.continued
    /\ d.kind = "harvest_evidence" => row.terminal # None
    /\ d.kind = "begin_cleanup" =>
          row.terminal # None /\ row.evidence /\ row.cleanup = "pending"
    /\ d.kind = "release_leases" =>
          row.terminal # None /\ row.evidence /\ row.cleanup = "host_stopped"
    /\ d.kind \in EarlyKinds => row.terminal = None /\ row.desired = "run"

\* The decisions without an outcome.
LEMMA PlainDecisions ==
    ASSUME NEW kind \in Kinds
    PROVE  /\ Decide(kind) \in Decisions
           /\ Decide(kind).kind = kind /\ Decide(kind).outcome = None
BY DEF Decide, Decisions

\* The decisions with one.
LEMMA RecordDecisions ==
    ASSUME NEW kind \in TerminalKinds, NEW outcome \in Outcomes
    PROVE  /\ Record(kind, outcome) \in Decisions
           /\ Record(kind, outcome).kind = kind /\ Record(kind, outcome).outcome = outcome
BY DEF Record, Decisions, TerminalKinds, Kinds, CommandKinds

\* The outcome that the durable state shows.
LEMMA DurableOutcomes ==
    ASSUME NEW t \in TerminalStates \cup {None}
    PROVE  DurableOutcome(t) = None <=> t = None
BY NoneAssumption DEF DurableOutcome, Outcomes, TerminalStates, Failures

\* The fields of the durable state.
LEMMA DurableFields ==
    /\ Durable.outcome = DurableOutcome(row.terminal)
    /\ Durable.desired = IF row.desired = "run" THEN "run" ELSE "cancel"
    /\ Durable.evidence = row.evidence
    /\ Durable.started = (row.cleanup # "pending")
    /\ Durable.complete = (row.cleanup \in {"host_stopped", "leases_released"})
    /\ Durable.profile = (row.profile /\ row.cleanup # "leases_released")
    /\ Durable.host = (row.host /\ row.cleanup # "leases_released")
    /\ Durable.attempts = IF row.continued THEN 1 ELSE 0
BY DEF Durable

\* The chain after a terminal.
LEMMA ChainDecision ==
    ASSUME row \in RowStates, obs \in Observations, row.terminal # None
    PROVE  LET d == PostTerminalChain(Durable, obs) IN d \in Decisions /\ Founded(d)
<1> DEFINE kinds == {"await_observation", "retry_transient_observation",
                     "harvest_evidence", "begin_cleanup", "release_leases", "no_op"}
<1>1. kinds \subseteq Kinds
  BY DEF Kinds, CommandKinds
<1>2. PICK kind \in kinds :
        /\ PostTerminalChain(Durable, obs) = Decide(kind)
        /\ kind = "begin_cleanup" => Durable.evidence /\ ~Durable.started
        /\ kind = "release_leases" =>
              Durable.evidence /\ Durable.complete /\ LeasesHeld(Durable)
  BY DEF PostTerminalChain, Observations, Await
<1>3. /\ kind = "begin_cleanup" => row.evidence /\ row.cleanup = "pending"
      /\ kind = "release_leases" => row.evidence /\ row.cleanup = "host_stopped"
  BY <1>2, DurableFields DEF LeasesHeld
<1>4. kind \notin TerminalKinds /\ kind \notin EarlyKinds
  BY DEF TerminalKinds, EarlyKinds
<1> QED
  BY <1>1, <1>2, <1>3, <1>4, PlainDecisions, NoneAssumption DEF Founded, Outcomes

\* What the observations of an accepted turn lead to.
LEMMA DetectDecision ==
    ASSUME obs \in Observations
    PROVE  LET d == DetectTerminal(obs) IN d \in Decisions /\ Founded(d)
<1> DEFINE d == DetectTerminal(obs)
<1>1. CASE \E kind \in FailureKinds \cup {"await_observation"} : d = Decide(kind)
  <2>1. PICK kind \in FailureKinds \cup {"await_observation"} : d = Decide(kind)
    BY <1>1
  <2>2. kind \in Kinds /\ kind \notin CommandKinds
    BY DEF Kinds, FailureKinds, CommandKinds
  <2> QED
    BY <2>1, <2>2, PlainDecisions, NoneAssumption
       DEF Founded, Outcomes, CommandKinds, TerminalKinds, EarlyKinds
<1>2. CASE \E kind \in TerminalKinds, outcome \in Outcomes \cap {obs.status, obs.turn} :
              d = Record(kind, outcome)
  <2>1. PICK kind \in TerminalKinds, outcome \in Outcomes \cap {obs.status, obs.turn} :
              d = Record(kind, outcome)
    BY <1>2
  <2>2. d \in Decisions /\ d.kind = kind /\ d.outcome = outcome
    BY <2>1, RecordDecisions
  <2> QED
    BY <2>1, <2>2 DEF Founded, TerminalKinds, EarlyKinds
<1>3. \/ \E kind \in FailureKinds \cup {"await_observation"} : d = Decide(kind)
      \/ \E kind \in TerminalKinds, outcome \in Outcomes \cap {obs.status, obs.turn} :
              d = Record(kind, outcome)
  BY DEF DetectTerminal, Await, Quarantine, FailureKinds, TerminalKinds, Observations,
         Idle, Outcomes
<1> QED
  BY <1>1, <1>2, <1>3

\* Every decision of the reducer is well typed and founded on the row and the
\* observations it was given.
LEMMA ReconcileFounded ==
    ASSUME row \in RowStates, obs \in Observations
    PROVE  LET d == Reconcile(Durable, obs, MaxTurnAttempts) IN
           d \in Decisions /\ Founded(d)
<1> DEFINE d == Reconcile(Durable, obs, MaxTurnAttempts)
<1>0. MaxTurnAttempts \in Nat /\ MaxTurnAttempts >= 1
  BY OmnigentAssumption
<1>1. CASE \E kind \in FailureKinds \cup {"await_observation"} : d = Decide(kind)
  <2>1. PICK kind \in FailureKinds \cup {"await_observation"} : d = Decide(kind)
    BY <1>1
  <2>2. kind \in Kinds /\ kind \notin CommandKinds
    BY DEF Kinds, FailureKinds, CommandKinds
  <2> QED
    BY <2>1, <2>2, PlainDecisions, NoneAssumption
       DEF Founded, Outcomes, CommandKinds, TerminalKinds, EarlyKinds
<1>2. CASE row.terminal # None /\ d = PostTerminalChain(Durable, obs)
  BY <1>2, ChainDecision
<1>3. CASE /\ row.terminal = None /\ row.desired = "run"
           /\ \E kind \in EarlyKinds : d = Decide(kind)
  <2>1. PICK kind \in EarlyKinds : d = Decide(kind)
    BY <1>3
  <2>2. kind \in Kinds
    BY DEF EarlyKinds, Kinds, CommandKinds
  <2> QED
    BY <1>3, <2>1, <2>2, PlainDecisions, NoneAssumption
       DEF Founded, Outcomes, TerminalKinds, EarlyKinds
<1>4. CASE d = Record("record_provider_terminal", "cancelled")
  BY <1>4, RecordDecisions DEF Founded, TerminalKinds, EarlyKinds, Outcomes
<1>5. CASE d = Record("record_provider_terminal", "failure") /\ row.continued
  BY <1>5, RecordDecisions DEF Founded, TerminalKinds, EarlyKinds, Outcomes
<1>6. CASE d = DetectTerminal(obs)
  BY <1>6, DetectDecision
<1>7. row.terminal \in TerminalStates \cup {None}
  BY DEF RowStates
<1>8. Durable.outcome = None <=> row.terminal = None
  BY <1>7, DurableOutcomes, DurableFields
<1>9. Durable.desired = "cancel" <=> row.desired # "run"
  BY DurableFields
<1>10. Durable.attempts >= MaxTurnAttempts => row.continued
  BY <1>0, DurableFields
<1>11. \/ \E kind \in FailureKinds \cup {"await_observation"} : d = Decide(kind)
       \/ row.terminal # None /\ d = PostTerminalChain(Durable, obs)
       \/ /\ row.terminal = None /\ row.desired = "run"
          /\ \E kind \in EarlyKinds : d = Decide(kind)
       \/ d = Record("record_provider_terminal", "cancelled")
       \/ d = Record("record_provider_terminal", "failure") /\ row.continued
       \/ d = DetectTerminal(obs)
  BY <1>8, <1>9, <1>10
     DEF Reconcile, PostTerminal, Await, Quarantine, FailureKinds, EarlyKinds
<1> QED
  BY <1>1, <1>2, <1>3, <1>4, <1>5, <1>6, <1>11

-----------------------------------------------------------------------------
(* The steps of the workflow *)

\* The attempts keep their places, although their revisions may be out of date.
SameAttempts ==
    /\ att' \in [Who -> AttemptStates]
    /\ \A a \in Who : /\ att'[a].act = att[a].act /\ att'[a].at = att[a].at
                      /\ att'[a].cmd = att[a].cmd

SameWorld == UNCHANGED <<bridge, lease, hostUp, provider, posts>>

\* Nothing moves, or a write has made every revision out of date.
LEMMA SameEffect ==
    ASSUME Control
    PROVE  /\ UNCHANGED <<cmds, att>> => SameTypes /\ SameAttempts
           /\ cmds' = StaleCommands /\ att' = Stale => SameTypes /\ SameAttempts
<1>1. ASSUME UNCHANGED <<cmds, att>> PROVE SameTypes /\ SameAttempts
  BY <1>1 DEF Control, SameTypes, SameCommands, SameAttempts
<1>2. ASSUME cmds' = StaleCommands, att' = Stale PROVE SameTypes /\ SameAttempts
  <2>1. SameTypes
    BY <1>2, OutdatedCommands DEF Control, SameTypes, SameCommands
  <2>2. SameAttempts
    BY <1>2, StaleAttempts DEF Control, SameAttempts
  <2> QED
    BY <2>1, <2>2
<1> QED
  BY <1>1, <1>2

\* A load takes the decision.
LEMMA LoadEffect ==
    ASSUME Types, Load
    PROVE  /\ wf.pc = "load" /\ wf'.pc = "decide"
           /\ wf' \in WorkflowStates /\ Founded(wf'.decision)
           /\ wf'.pending = wf.pending /\ wf'.primary = wf.primary
           /\ wf'.failed = None /\ wf'.snapshots = wf.snapshots
           /\ UNCHANGED <<row, obs, cmds, att, world>>
<1> DEFINE d == Reconcile(Durable, obs, MaxTurnAttempts)
           expired == budget.deadline /\ row.terminal = None
<1>1. d \in Decisions /\ Founded(d)
  BY ReconcileFounded DEF Types
<1>2. /\ wf.pc = "load" /\ UNCHANGED <<row, obs, cmds, att, world>>
      /\ wf' = [wf EXCEPT !.pc = "decide", !.fresh = TRUE, !.failed = None,
                          !.decision = d, !.expired = expired]
  BY DEF Load
<1>3. expired \in BOOLEAN /\ "decide" \in Places /\ None \in FailedActs /\ wf \in WorkflowStates
  BY DEF Places, FailedActs, Types, Control
<1> HIDE DEF d, expired
<1>4. /\ wf' \in WorkflowStates /\ wf'.decision = d /\ wf'.pc = "decide"
      /\ wf'.pending = wf.pending /\ wf'.primary = wf.primary
      /\ wf'.failed = None /\ wf'.snapshots = wf.snapshots
  BY <1>1, <1>2, <1>3 DEF WorkflowStates
<1> QED
  BY <1>1, <1>2, <1>4

\* The row that the signals ask for.
LEMMA WantedEffect ==
    ASSUME row \in RowStates, NEW signals \in Seq(Signals)
    PROVE  LET r == Wanted(signals) IN
           /\ r \in RowStates /\ Later(row, r)
           /\ r = [row EXCEPT !.desired = r.desired, !.continued = r.continued]
           /\ row.desired # "run" => r.desired # "run"
           /\ (\E i \in DOMAIN signals : signals[i] = "cancel") => r.desired # "run"
           /\ (\A i \in DOMAIN signals : signals[i] # "continuation") =>
                  r.continued = row.continued
<1> DEFINE desired == IF \A i \in DOMAIN signals : signals[i] = "continuation"
                      THEN row.desired
                      ELSE IF TimeoutIsLast(signals) THEN "timeout" ELSE "cancel"
           continued == row.continued \/ \E i \in DOMAIN signals : signals[i] = "continuation"
<1>1. Wanted(signals) = [row EXCEPT !.desired = desired, !.continued = continued]
  BY DEF Wanted, RowStates
<1>2. desired \in {"run", "cancel", "timeout"} /\ continued \in BOOLEAN
  BY DEF RowStates
<1>3. row.continued => continued
  OBVIOUS
<1>4. row.desired # "run" => desired # "run"
  OBVIOUS
<1>5. (\E i \in DOMAIN signals : signals[i] = "cancel") => desired # "run"
  OBVIOUS
<1>6. (\A i \in DOMAIN signals : signals[i] # "continuation") => continued = row.continued
  BY DEF RowStates
<1> HIDE DEF desired, continued
<1>7. Wanted(signals).desired = desired /\ Wanted(signals).continued = continued
  BY <1>1 DEF RowStates
<1>8. Wanted(signals) \in RowStates
  BY <1>1, <1>2 DEF RowStates
<1>9. Later(row, Wanted(signals))
  BY <1>1, <1>2, <1>3 DEF RowStates, Later
<1> QED
  BY <1>1, <1>4, <1>5, <1>6, <1>7, <1>8, <1>9

\* Signals are persisted, kept for later, or refused.
LEMMA PersistSignalsEffect ==
    ASSUME Types, NEW signals \in Seq(Signals), PersistSignals(signals)
    PROVE  /\ wf' \in WorkflowStates /\ SameTypes /\ SameAttempts
           /\ UNCHANGED <<obs, world>>
           /\ row' = row \/ (row.terminal = None /\ row' = Wanted(signals))
           /\ wf'.pc \in {"load", "failure"} /\ wf'.decision = wf.decision
           /\ wf'.primary = wf.primary /\ wf'.snapshots = wf.snapshots
           /\ wf'.failed \in {wf.failed, "persist_signal_intents"}
           /\ wf'.pending \in {<<>>, signals}
           /\ \/ wf'.pending = signals
              \/ row'.terminal # None
              \/ (\E i \in DOMAIN signals : signals[i] = "cancel") => row'.desired # "run"
<1>0. /\ Control /\ wf \in WorkflowStates /\ row \in RowStates
      /\ {"load", "failure"} \subseteq Places /\ <<>> \in Seq(Signals)
      /\ "persist_signal_intents" \in FailedActs
  BY DEF Types, Control, Places, FailedActs
<1>1. UNCHANGED <<obs, world>>
  BY DEF PersistSignals
<1> DEFINE applied == \A i \in DOMAIN signals : AlreadyApplied(signals[i])
<1>2. CASE /\ applied
           /\ wf' = [wf EXCEPT !.pc = "load", !.pending = <<>>]
           /\ UNCHANGED <<row, cmds, att>>
  <2>1. /\ wf' \in WorkflowStates /\ wf'.pc = "load" /\ wf'.decision = wf.decision
        /\ wf'.primary = wf.primary /\ wf'.snapshots = wf.snapshots
        /\ wf'.failed = wf.failed /\ wf'.pending = <<>>
    BY <1>0, <1>2 DEF WorkflowStates
  <2>2. (\E i \in DOMAIN signals : signals[i] = "cancel") =>
             row.terminal # None \/ row.desired # "run"
    BY <1>2 DEF AlreadyApplied
  <2> QED
    BY <1>0, <1>1, <1>2, <2>1, <2>2, SameEffect
<1>3. CASE /\ wf' = [wf EXCEPT !.pc = "load", !.pending = signals]
           /\ UNCHANGED <<row, cmds, att>>
  <2>1. /\ wf' \in WorkflowStates /\ wf'.pc = "load" /\ wf'.decision = wf.decision
        /\ wf'.primary = wf.primary /\ wf'.snapshots = wf.snapshots
        /\ wf'.failed = wf.failed /\ wf'.pending = signals
    BY <1>0, <1>3 DEF WorkflowStates
  <2> QED
    BY <1>0, <1>1, <1>3, <2>1, SameEffect
<1>4. CASE /\ wf' = [wf EXCEPT !.pc = "failure", !.failed = "persist_signal_intents",
                               !.pending = signals]
           /\ UNCHANGED <<row, cmds, att>>
  <2>1. /\ wf' \in WorkflowStates /\ wf'.pc = "failure" /\ wf'.decision = wf.decision
        /\ wf'.primary = wf.primary /\ wf'.snapshots = wf.snapshots
        /\ wf'.failed = "persist_signal_intents" /\ wf'.pending = signals
    BY <1>0, <1>4 DEF WorkflowStates
  <2> QED
    BY <1>0, <1>1, <1>4, <2>1, SameEffect
<1>5. CASE /\ row.terminal = None /\ row' = Wanted(signals)
           /\ cmds' = StaleCommands /\ att' = Stale
           /\ wf' = [Outdated(wf) EXCEPT !.pc = "load", !.pending = <<>>]
  <2> DEFINE o == Outdated(wf)
  <2>1. /\ o \in WorkflowStates /\ o.failed = wf.failed /\ o.decision = wf.decision
        /\ o.primary = wf.primary /\ o.snapshots = wf.snapshots
    BY <1>0, OutdatedWorkflow
  <2>2. wf' = [o EXCEPT !.pc = "load", !.pending = <<>>]
    BY <1>5
  <2> HIDE DEF o
  <2>3. /\ wf' \in WorkflowStates /\ wf'.pc = "load" /\ wf'.decision = wf.decision
        /\ wf'.primary = wf.primary /\ wf'.snapshots = wf.snapshots
        /\ wf'.failed = wf.failed /\ wf'.pending = <<>>
    BY <1>0, <2>1, <2>2 DEF WorkflowStates
  <2>4. (\E i \in DOMAIN signals : signals[i] = "cancel") => row'.desired # "run"
    BY <1>0, <1>5, WantedEffect
  <2> QED
    BY <1>0, <1>1, <1>5, <2>3, <2>4, SameEffect
<1> QED
  BY <1>2, <1>3, <1>4, <1>5 DEF PersistSignals

\* The first activity of a command.
LEMMA FirstActivities ==
    ASSUME NEW kind \in CommandKinds
    PROVE  /\ FirstActivity(kind) \in Acts
           /\ FirstActivity(kind) = "ensure_profile" => kind = "ensure_profile_lease"
           /\ FirstActivity(kind) = "ensure_host" => kind = "ensure_host"
           /\ FirstActivity(kind) = "ensure_session" => kind = "ensure_provider_session"
           /\ FirstActivity(kind) = "submit_turn" => kind = "submit_turn"
           /\ FirstActivity(kind) = "record_terminal" => kind \in TerminalKinds
           /\ FirstActivity(kind) = "harvest" => kind = "harvest_evidence"
           /\ FirstActivity(kind) = "stop_provider" => kind = "begin_cleanup"
           /\ FirstActivity(kind) = "release" => kind = "release_leases"
           /\ FirstActivity(kind) \notin {"publish", "stop_host"}
BY DEF FirstActivity, CommandKinds, TerminalKinds, Acts

\* The commands and the late attempt after decision d is recorded: the late attempt
\* still has the command it was given.
Recorded(d) ==
    /\ cmds' \in [Slots -> CommandStates] /\ cmds'.cur.kind = d.kind
    /\ \A s \in Slots :
          \/ cmds'[s].kind = d.kind /\ cmds'[s].outcome = d.outcome
          \/ \E t \in Slots : /\ cmds'[s].kind = cmds[t].kind
                              /\ cmds'[s].outcome = cmds[t].outcome
    /\ att'.late \in AttemptStates
    /\ att'.late.act = att.late.act /\ att'.late.at = att.late.at
    /\ att.late.act # None => cmds'[att'.late.cmd].kind = cmds[att.late.cmd].kind

\* Issued and Late record the decision.
LEMMA IssuedEffect ==
    ASSUME Control, NEW d \in Decisions, d.kind \in CommandKinds,
           cmds' = Issued(d), att'.late = Late(d)
    PROVE  Recorded(d)
<1>0. /\ "cur" \in Slots /\ "old" \in Slots /\ Slots = {"cur", "old"} /\ "late" \in Who
      /\ cmds.cur \in CommandStates /\ cmds.old \in CommandStates
      /\ att.late \in AttemptStates /\ att.late.cmd \in Slots
      /\ d.outcome \in Outcomes \cup {None}
  BY DEF Control, Slots, Who, AttemptStates, Decisions
<1>1. CASE SameCommand(d.kind)
  <2>1. cmds' = cmds /\ att'.late = att.late /\ cmds.cur.kind = d.kind
    BY <1>1 DEF Issued, Late, SameCommand
  <2> QED
    BY <2>1, <1>0 DEF Recorded, Control
<1>2. CASE ~SameCommand(d.kind)
  <2> DEFINE new == [kind |-> d.kind, outcome |-> d.outcome, status |-> "pending",
                     current |-> TRUE]
             old == IF att.late.act # None /\ att.late.cmd = "cur" THEN cmds.cur
                                                                   ELSE cmds.old
  <2>1. cmds' = [cur |-> new, old |-> old]
    BY <1>2 DEF Issued
  <2>2. /\ new \in CommandStates /\ new.kind = d.kind /\ new.outcome = d.outcome
        /\ old \in CommandStates /\ old \in {cmds.cur, cmds.old}
    BY <1>0 DEF CommandStates, Statuses
  <2>3. att'.late = IF att.late.act = None THEN att.late ELSE [att.late EXCEPT !.cmd = "old"]
    BY <1>2 DEF Late
  <2>4. /\ att'.late \in AttemptStates
        /\ att'.late.act = att.late.act /\ att'.late.at = att.late.at
        /\ att.late.act # None => att'.late.cmd = "old"
    BY <1>0, <2>3 DEF AttemptStates
  <2>5. att.late.act # None => old.kind = cmds[att.late.cmd].kind
    BY <1>0
  <2> HIDE DEF new, old
  <2>6. /\ cmds'["cur"] = new /\ cmds'["old"] = old /\ cmds' \in [Slots -> CommandStates]
    BY <2>1, <2>2, <1>0
  <2>7. \A s \in Slots :
          \/ cmds'[s].kind = d.kind /\ cmds'[s].outcome = d.outcome
          \/ \E t \in Slots : /\ cmds'[s].kind = cmds[t].kind
                              /\ cmds'[s].outcome = cmds[t].outcome
    BY <1>0, <2>2, <2>6
  <2> QED
    BY <2>2, <2>4, <2>5, <2>6, <2>7 DEF Recorded
<1> QED
  BY <1>1, <1>2

\* A decision is recorded and its first activity started, or the workflow waits,
\* closes or fails.
LEMMA PersistDecisionEffect ==
    ASSUME Types, PersistDecision
    PROVE  /\ wf' \in WorkflowStates /\ UNCHANGED <<row, obs, world>>
           /\ wf.pc = "decide" /\ wf.pending = <<>>
           /\ wf'.decision = wf.decision /\ wf'.pending = wf.pending
           /\ wf'.primary = wf.primary /\ wf'.snapshots = wf.snapshots
           /\ wf'.failed \in {wf.failed, "persist_decision"}
           /\ \/ /\ UNCHANGED <<cmds, att>>
                 /\ wf'.pc \in {"load", "failure", "quarantine", "closed", "observe"}
              \/ /\ wf'.pc = "activity" /\ wf.decision.kind \in CommandKinds
                 /\ Recorded(wf.decision) /\ att' \in [Who -> AttemptStates]
                 /\ att'.main = Attempt(FirstActivity(wf.decision.kind))
                 /\ FirstActivity(wf.decision.kind) \in Acts
<1>0. /\ Control /\ wf \in WorkflowStates /\ wf.decision \in Decisions
      /\ wf.decision.kind \in Kinds /\ "persist_decision" \in FailedActs
      /\ {"load", "failure", "quarantine", "closed", "observe", "activity"} \subseteq Places
  BY DEF Types, Control, Places, FailedActs, WorkflowStates, Decisions
<1>1. UNCHANGED <<row, obs, world>> /\ wf.pc = "decide" /\ wf.pending = <<>>
  BY DEF PersistDecision
<1>2. CASE /\ wf' = [wf EXCEPT !.pc = "failure", !.failed = "persist_decision"]
           /\ UNCHANGED <<cmds, att>>
  <2>1. /\ wf' \in WorkflowStates /\ wf'.pc = "failure" /\ wf'.failed = "persist_decision"
        /\ wf'.decision = wf.decision /\ wf'.pending = wf.pending
        /\ wf'.primary = wf.primary /\ wf'.snapshots = wf.snapshots
    BY <1>0, <1>2 DEF WorkflowStates
  <2> QED
    BY <1>1, <1>2, <2>1
<1>3. CASE wf' = [wf EXCEPT !.pc = "load"] /\ UNCHANGED <<cmds, att>>
  <2>1. /\ wf' \in WorkflowStates /\ wf'.pc = "load" /\ wf'.failed = wf.failed
        /\ wf'.decision = wf.decision /\ wf'.pending = wf.pending
        /\ wf'.primary = wf.primary /\ wf'.snapshots = wf.snapshots
    BY <1>0, <1>3 DEF WorkflowStates
  <2> QED
    BY <1>1, <1>3, <2>1
<1>4. CASE /\ wf' = [wf EXCEPT !.pc = AfterDecision(wf.decision.kind), !.unnumbered = "no"]
           /\ IF wf.decision.kind \in CommandKinds
              THEN /\ cmds' = Issued(wf.decision)
                   /\ att' = [main |-> Attempt(FirstActivity(wf.decision.kind)),
                              late |-> Late(wf.decision)]
              ELSE UNCHANGED <<cmds, att>>
  <2> DEFINE pc == AfterDecision(wf.decision.kind)
  <2>1. /\ pc \in {"activity", "quarantine", "closed", "observe"}
        /\ pc = "activity" <=> wf.decision.kind \in CommandKinds
    BY <1>0 DEF AfterDecision, Kinds, CommandKinds, FailureKinds
  <2> HIDE DEF pc
  <2>2. /\ wf' \in WorkflowStates /\ wf'.pc = pc /\ wf'.failed = wf.failed
        /\ wf'.decision = wf.decision /\ wf'.pending = wf.pending
        /\ wf'.primary = wf.primary /\ wf'.snapshots = wf.snapshots
    BY <1>0, <1>4, <2>1 DEF WorkflowStates, pc
  <2>3. CASE wf.decision.kind \notin CommandKinds
    BY <1>1, <1>4, <2>1, <2>2, <2>3
  <2>4. CASE wf.decision.kind \in CommandKinds
    <3>1. /\ cmds' = Issued(wf.decision) /\ att'.late = Late(wf.decision)
          /\ att' = [main |-> Attempt(FirstActivity(wf.decision.kind)),
                     late |-> Late(wf.decision)]
      BY <1>4, <2>4
    <3>2. Recorded(wf.decision)
      BY <3>1, <2>4, <1>0, IssuedEffect
    <3>3. FirstActivity(wf.decision.kind) \in Acts
      BY <2>4, FirstActivities
    <3>4. Attempt(FirstActivity(wf.decision.kind)) \in AttemptStates
      BY <3>3, FreshAttempts
    <3>5. Late(wf.decision) \in AttemptStates
      BY <3>1, <3>2 DEF Recorded
    <3>6. att' \in [Who -> AttemptStates]
      BY <3>1, <3>4, <3>5 DEF Who
    <3>7. att'.main = Attempt(FirstActivity(wf.decision.kind))
      BY <3>1
    <3> QED
      BY <1>1, <2>1, <2>2, <2>4, <3>2, <3>3, <3>6, <3>7
  <2> QED
    BY <2>3, <2>4
<1> QED
  BY <1>2, <1>3, <1>4 DEF PersistDecision

\* What an observation says of the provider is true of it now, or was said before.
SeenTruly ==
    /\ obs'.status # obs.status =>
          /\ obs'.status = "success" => provider \in Finished
          /\ obs'.status = "failure" => provider = "failed"
    /\ obs'.turn # obs.turn =>
          /\ obs'.turn = "success" => provider \in Finished
          /\ obs'.turn = "failure" => provider = "failed"
    /\ obs'.candidate # obs.candidate => (obs'.candidate => provider \in Finished)

\* An observation of the resources says nothing of the provider.
LEMMA ResourcesSeen ==
    ASSUME row \in RowStates, NEW o \in Observations
    PROVE  /\ SeenResources(o) \in Observations
           /\ SeenResources(o).status = o.status /\ SeenResources(o).turn = o.turn
           /\ SeenResources(o).candidate = o.candidate
BY DEF SeenResources, Observations, Active

\* A snapshot tells the truth about the provider.
LEMMA SnapshotSeen ==
    ASSUME Types, provider # "absent", NEW event \in BOOLEAN,
           NEW correlated \in BOOLEAN, obs' = SeenSnapshot(event, correlated)
    PROVE  obs' \in Observations /\ SeenTruly
<1> DEFINE o == SeenResources(obs)
           status == ClassifyProviderStatus(RawStatus(correlated))
           outcome == TurnOutcome(correlated)
           turn == IF outcome = None THEN o.turn ELSE outcome
           candidate == provider \in {"completed", "quiesced"}
<1>1. o \in Observations /\ o.status = obs.status /\ o.turn = obs.turn
      /\ o.candidate = obs.candidate
  BY ResourcesSeen DEF Types
<1>2. provider \in {"ready", "running", "completed", "quiesced", "failed", "canceled"}
  BY DEF Types, Outside
<1>3. /\ status \in {Active, Idle} \cup Outcomes
      /\ status = "success" => provider \in Finished
      /\ status = "failure" => provider = "failed"
  BY <1>2 DEF ClassifyProviderStatus, RawStatus, Active, Idle, Outcomes, Finished
<1>4. /\ outcome \in Outcomes \cup {None}
      /\ outcome = "success" => provider \in Finished
      /\ outcome = "failure" => provider = "failed"
  BY <1>2, NoneAssumption DEF TurnOutcome, Outcomes, Finished
<1>5. /\ turn \in Outcomes \cup {None}
      /\ turn # obs.turn => /\ turn = "success" => provider \in Finished
                            /\ turn = "failure" => provider = "failed"
  BY <1>1, <1>4 DEF Observations
<1>6. candidate \in BOOLEAN /\ (candidate => provider \in Finished)
  BY DEF Finished
<1>7. obs' = [o EXCEPT !.compat = "ready", !.status = status, !.turn = turn,
                       !.event = event, !.candidate = candidate]
  BY <1>1 DEF SeenSnapshot, Observations
<1> HIDE DEF o, status, turn, candidate
<1>8. /\ obs' \in Observations /\ obs'.status = status /\ obs'.turn = turn
      /\ obs'.candidate = candidate
  BY <1>1, <1>3, <1>5, <1>6, <1>7 DEF Observations
<1> QED
  BY <1>3, <1>5, <1>6, <1>8 DEF SeenTruly

\* The workflow looks: at the provider, or at the row alone.
LEMMA ObserveEffect ==
    ASSUME Types, Existing, Observe \/ ObserveUnavailable
    PROVE  /\ obs' \in Observations /\ SeenTruly /\ budget' \in Budgets
           /\ SameTypes /\ SameAttempts /\ row' = row /\ SameWorld
           /\ wf' \in WorkflowStates
           /\ wf.pc \in {"observe", "snapshot"} /\ wf'.pc \in {"load", "timeout"}
           /\ wf'.decision = wf.decision /\ wf'.pending = wf.pending
           /\ wf'.primary = wf.primary /\ wf'.failed = wf.failed
<1>0. /\ Control /\ wf \in WorkflowStates /\ row \in RowStates /\ obs \in Observations
      /\ {"load", "timeout"} \subseteq Places /\ Outside /\ budget \in Budgets
      /\ wf.snapshots \in 0..SnapshotAttempts
      /\ SnapshotAttempts \in 0..SnapshotAttempts /\ SnapshotAttempts \in Nat
  BY OmnigentAssumption DEF Types, Control, Places, Outside, WorkflowStates
<1>1. CASE Observe
  <2>1. wf.pc \in {"observe", "snapshot"} /\ row' = row /\ SameWorld
    BY <1>1 DEF Observe, outside, SameWorld
  <2> DEFINE n == IF wf.pc = "snapshot" THEN SnapshotAttempts ELSE wf.snapshots
  <2>2. n \in 0..SnapshotAttempts
    BY <1>0
  <2>3. CASE row.attached
    <3>1. PICK event, correlated \in BOOLEAN : obs' = SeenSnapshot(event, correlated)
      BY <1>1, <2>3 DEF Observe
    <3>2. obs' \in Observations /\ SeenTruly
      BY <3>1, <2>3, SnapshotSeen DEF Existing
    <3>3. cmds' = StaleCommands /\ att' = Stale /\ budget' = budget
      BY <1>1, <2>3 DEF Observe
    <3> DEFINE o == Outdated(wf)
    <3>4. wf' = [o EXCEPT !.pc = "load", !.snapshots = n] /\ o \in WorkflowStates
          /\ o.decision = wf.decision /\ o.pending = wf.pending
          /\ o.primary = wf.primary /\ o.failed = wf.failed
      BY <1>0, <1>1, <2>3, OutdatedWorkflow DEF Observe, WorkflowStates
    <3> HIDE DEF o, n
    <3>5. /\ wf' \in WorkflowStates /\ wf'.pc = "load"
          /\ wf'.decision = wf.decision /\ wf'.pending = wf.pending
          /\ wf'.primary = wf.primary /\ wf'.failed = wf.failed
      BY <1>0, <2>2, <3>4 DEF WorkflowStates
    <3> QED
      BY <1>0, <2>1, <3>2, <3>3, <3>5, SameEffect
  <2>4. CASE ~row.attached
    <3>1. obs' = SeenResources(obs) /\ UNCHANGED <<cmds, att, budget>>
          /\ wf' = [wf EXCEPT !.pc = "load", !.snapshots = n]
      BY <1>0, <1>1, <2>4 DEF Observe, WorkflowStates
    <3>2. obs' \in Observations /\ SeenTruly
      BY <1>0, <3>1, ResourcesSeen DEF SeenTruly
    <3> HIDE DEF n
    <3>3. /\ wf' \in WorkflowStates /\ wf'.pc = "load"
          /\ wf'.decision = wf.decision /\ wf'.pending = wf.pending
          /\ wf'.primary = wf.primary /\ wf'.failed = wf.failed
      BY <1>0, <2>2, <3>1 DEF WorkflowStates
    <3> QED
      BY <1>0, <2>1, <3>1, <3>2, <3>3, SameEffect
  <2> QED
    BY <2>3, <2>4
<1>2. CASE ObserveUnavailable
  <2>1. /\ wf.pc \in {"observe", "snapshot"} /\ UNCHANGED <<row, cmds, att>> /\ SameWorld
        /\ obs' = SeenResources(obs)
        /\ budget.faults < MaxFaults /\ budget' = [budget EXCEPT !.faults = @ + 1]
    BY <1>2 DEF ObserveUnavailable, outside, SameWorld
  <2>2. obs' \in Observations /\ SeenTruly /\ budget' \in Budgets
    BY <1>0, <2>1, ResourcesSeen, FaultCounts DEF SeenTruly
  <2>3. CASE wf.pc = "observe"
    <3>1. wf' = [wf EXCEPT !.pc = "load"]
      BY <1>2, <2>3 DEF ObserveUnavailable
    <3>2. /\ wf' \in WorkflowStates /\ wf'.pc = "load"
          /\ wf'.decision = wf.decision /\ wf'.pending = wf.pending
          /\ wf'.primary = wf.primary /\ wf'.failed = wf.failed
      BY <1>0, <3>1 DEF WorkflowStates
    <3> QED
      BY <1>0, <2>1, <2>2, <3>2, SameEffect
  <2>4. CASE wf.pc = "snapshot"
    <3> DEFINE n == wf.snapshots + 1
               pc == IF n = SnapshotAttempts THEN "timeout" ELSE "load"
    <3>1. wf' = [wf EXCEPT !.snapshots = n, !.pc = pc]
      BY <1>0, <1>2, <2>4 DEF ObserveUnavailable, WorkflowStates
    <3>2. n \in 0..SnapshotAttempts /\ pc \in {"load", "timeout"}
      BY <1>0, <2>4 DEF Existing
    <3> HIDE DEF n, pc
    <3>3. /\ wf' \in WorkflowStates /\ wf'.pc = pc
          /\ wf'.decision = wf.decision /\ wf'.pending = wf.pending
          /\ wf'.primary = wf.primary /\ wf'.failed = wf.failed
      BY <1>0, <3>1, <3>2 DEF WorkflowStates
    <3> QED
      BY <1>0, <2>1, <2>2, <3>2, <3>3, SameEffect
  <2> QED
    BY <2>1, <2>3, <2>4
<1> QED
  BY <1>1, <1>2

\* A step that moves neither the attempts nor the commands nor the world: the workflow
\* goes to another place, a signal is queued, or someone else writes the row.
Quiet ==
    /\ row' \in RowStates /\ row' = [row EXCEPT !.quarantined = row'.quarantined]
    /\ obs' = obs /\ SameTypes /\ SameAttempts /\ SameWorld /\ budget' \in Budgets
    /\ wf' \in WorkflowStates
    /\ wf'.decision = wf.decision /\ wf'.primary = wf.primary /\ wf'.failed = wf.failed
    /\ wf'.snapshots = wf.snapshots
    /\ \/ wf'.pc = wf.pc
       \/ wf.pc = "decide" /\ wf'.pc = "snapshot" /\ wf.snapshots < SnapshotAttempts
       \/ wf.pc = "failure" /\ wf'.pc = "persist_failure"
    /\ \A s \in Signals : (\E i \in DOMAIN wf.pending : wf.pending[i] = s) =>
                             (\E i \in DOMAIN wf'.pending : wf'.pending[i] = s)
    /\ \A i \in DOMAIN wf'.pending :
          \/ wf'.pending[i] \in {"cancel", "timeout"} \/ "continuation" \in Behaviours
          \/ \E k \in DOMAIN wf.pending : wf.pending[k] = wf'.pending[i]
    /\ \A s \in Slots : cmds'[s].status = cmds[s].status

\* A row as it is.
LEMMA RowItself ==
    ASSUME NEW r \in RowStates
    PROVE  /\ r = [r EXCEPT !.quarantined = r.quarantined]
           /\ \A b \in BOOLEAN : LET q == [r EXCEPT !.quarantined = b] IN
                 q \in RowStates /\ q.quarantined = b
BY DEF RowStates

\* The workflow goes to another place and nothing else happens.
LEMMA PlaceEffect ==
    ASSUME Types, LookBeforeTimeout \/ LoadFailureAuthority
    PROVE  Quiet
<1>0. /\ Control /\ wf \in WorkflowStates /\ row \in RowStates /\ Outside
      /\ {"snapshot", "persist_failure"} \subseteq Places
  BY DEF Types, Control, Places
<1>1. UNCHANGED <<row, obs, cmds, att, world>>
  BY DEF LookBeforeTimeout, LoadFailureAuthority
<1>2. SameTypes /\ SameAttempts /\ SameWorld /\ budget' \in Budgets
  BY <1>0, <1>1, SameEffect DEF world, SameWorld, Outside
<1>3. /\ wf' \in WorkflowStates /\ wf'.decision = wf.decision /\ wf'.primary = wf.primary
      /\ wf'.failed = wf.failed /\ wf'.snapshots = wf.snapshots /\ wf'.pending = wf.pending
      /\ \/ wf.pc = "decide" /\ wf'.pc = "snapshot" /\ wf.snapshots < SnapshotAttempts
         \/ wf.pc = "failure" /\ wf'.pc = "persist_failure"
  BY <1>0 DEF LookBeforeTimeout, LoadFailureAuthority, WorkflowStates
<1> QED
  BY <1>0, <1>1, <1>2, <1>3, RowItself DEF Quiet

\* What is added to a sequence leaves what it holds.
LEMMA Appended ==
    ASSUME NEW signals \in Seq(Signals), NEW kind \in Signals
    PROVE  LET s == Append(signals, kind) IN
           /\ s \in Seq(Signals)
           /\ s[Len(s)] = kind /\ Len(s) \in DOMAIN s
           /\ \A i \in DOMAIN signals : i \in DOMAIN s /\ s[i] = signals[i]
OBVIOUS

\* A signal is queued.
LEMMA SignalEffect ==
    ASSUME Types, CancelSignal \/ ContinuationSignal
    PROVE  Quiet
<1>0. /\ Control /\ wf \in WorkflowStates /\ row \in RowStates /\ Outside
      /\ wf.pending \in Seq(Signals) /\ budget \in Budgets
  BY DEF Types, Control, WorkflowStates, Outside
<1>1. PICK kind \in Signals, behaviour \in Behaviours :
        Signal(kind, behaviour) /\ (kind = "cancel" \/ "continuation" \in Behaviours)
  <2>1. CASE CancelSignal
    BY <2>1 DEF CancelSignal, Signal, Signals
  <2>2. CASE ContinuationSignal
    BY <2>2 DEF ContinuationSignal, Signal, Signals
  <2> QED
    BY <2>1, <2>2
<1>2. /\ UNCHANGED <<row, obs, cmds, att, outside>>
      /\ budget' = [budget EXCEPT !.signals = budget.signals \cup {behaviour}]
      /\ wf' = [wf EXCEPT !.pending = Append(wf.pending, kind)]
  BY <1>0, <1>1 DEF Signal, Budgets, WorkflowStates
<1> DEFINE signals == Append(wf.pending, kind)
           sent == budget.signals \cup {behaviour}
<1>3. /\ signals \in Seq(Signals)
      /\ \A i \in DOMAIN wf.pending : i \in DOMAIN signals /\ signals[i] = wf.pending[i]
  BY <1>0, Appended
<1>4. sent \in SUBSET Behaviours
  BY <1>0 DEF Budgets
<1>5. \A i \in DOMAIN signals :
         signals[i] = kind \/ \E k \in DOMAIN wf.pending : wf.pending[k] = signals[i]
  BY <1>0
<1> HIDE DEF signals, sent
<1>6. budget' \in Budgets
  BY <1>0, <1>2, <1>4 DEF Budgets, sent
<1>7. /\ wf' \in WorkflowStates /\ wf'.decision = wf.decision /\ wf'.primary = wf.primary
      /\ wf'.failed = wf.failed /\ wf'.snapshots = wf.snapshots /\ wf'.pc = wf.pc
      /\ wf'.pending = signals
  BY <1>0, <1>2, <1>3 DEF WorkflowStates, signals
<1>8. SameTypes /\ SameAttempts /\ SameWorld
  BY <1>0, <1>2, SameEffect DEF outside, SameWorld
<1>9. \A s \in Signals : (\E i \in DOMAIN wf.pending : wf.pending[i] = s) =>
                             (\E i \in DOMAIN wf'.pending : wf'.pending[i] = s)
  BY <1>3, <1>7
<1>10. \A i \in DOMAIN wf'.pending :
          \/ wf'.pending[i] \in {"cancel", "timeout"} \/ "continuation" \in Behaviours
          \/ \E k \in DOMAIN wf.pending : wf.pending[k] = wf'.pending[i]
  BY <1>1, <1>7, <1>5
<1> QED
  BY <1>0, <1>2, <1>6, <1>7, <1>8, <1>9, <1>10, RowItself DEF Quiet

\* The deadline passes, or another writer makes every revision out of date.
LEMMA OtherEffect ==
    ASSUME Types, DeadlinePasses \/ Bump \/ SweepQuarantines
    PROVE  Quiet
<1>0. /\ Control /\ wf \in WorkflowStates /\ row \in RowStates /\ Outside
      /\ budget \in Budgets /\ MaxBumps \in Nat
  BY OmnigentAssumption DEF Types, Control, Outside
<1>1. CASE DeadlinePasses
  <2>1. /\ UNCHANGED <<row, obs, cmds, att, wf, outside>>
        /\ budget' = [budget EXCEPT !.deadline = TRUE]
    BY <1>1 DEF DeadlinePasses
  <2>2. budget' \in Budgets
    BY <1>0, <2>1 DEF Budgets
  <2>3. SameTypes /\ SameAttempts /\ SameWorld
    BY <1>0, <2>1, SameEffect DEF outside, SameWorld
  <2> QED
    BY <1>0, <2>1, <2>2, <2>3, RowItself DEF Quiet
<1>2. CASE \E r \in {row, [row EXCEPT !.quarantined = TRUE]} :
              OtherWrite(r) /\ budget' \in Budgets
  <2>1. PICK r \in {row, [row EXCEPT !.quarantined = TRUE]} :
              OtherWrite(r) /\ budget' \in Budgets
    BY <1>2
  <2>2. /\ row' = r /\ cmds' = StaleCommands /\ att' = Stale /\ wf' = Outdated(wf)
        /\ UNCHANGED <<obs, outside>>
    BY <2>1 DEF OtherWrite
  <2>3. /\ SameTypes /\ SameAttempts /\ SameWorld
        /\ \A s \in Slots : cmds'[s].status = cmds[s].status
    BY <1>0, <2>2, SameEffect, OutdatedCommands DEF outside, SameWorld, Control
  <2>4. row' \in RowStates /\ row' = [row EXCEPT !.quarantined = row'.quarantined]
    <3>1. CASE r = row
      BY <1>0, <2>2, <3>1, RowItself
    <3>2. CASE r = [row EXCEPT !.quarantined = TRUE]
      BY <1>0, <2>2, <3>2 DEF RowStates
    <3> QED
      BY <2>1, <3>1, <3>2
  <2>5. /\ wf' \in WorkflowStates /\ wf'.decision = wf.decision /\ wf'.primary = wf.primary
        /\ wf'.failed = wf.failed /\ wf'.snapshots = wf.snapshots /\ wf'.pc = wf.pc
        /\ wf'.pending = wf.pending
    BY <1>0, <2>2, OutdatedWorkflow
  <2> QED
    BY <2>1, <2>2, <2>3, <2>4, <2>5 DEF Quiet
<1>3. CASE Bump
  <2>1. budget.bumps < MaxBumps /\ budget' = [budget EXCEPT !.bumps = @ + 1] /\ OtherWrite(row)
    BY <1>3 DEF Bump
  <2>2. budget.bumps + 1 \in 0..MaxBumps
    BY <1>0, <2>1 DEF Budgets
  <2>3. budget' \in Budgets
    BY <1>0, <2>1, <2>2 DEF Budgets
  <2> QED
    BY <1>2, <2>1, <2>3
<1>4. CASE SweepQuarantines
  <2>1. OtherWrite([row EXCEPT !.quarantined = TRUE]) /\ budget' = budget
    BY <1>4 DEF SweepQuarantines
  <2> QED
    BY <1>0, <1>2, <2>1
<1> QED
  BY <1>1, <1>3, <1>4

\* The failure of an activity is put on record: the row has the outcome it had or the
\* one of the failure, and evidence of it, or the cleanup is handed over.
FailureRecorded ==
    LET status == IF FailedCommand = "unknown" THEN "delivery_unknown" ELSE FailureStatus IN
    \/ row' = row
    \/ row' = WithFailure(status)

\* What FailureStatus may be.
LEMMA FailureStatuses ==
    ASSUME Types
    PROVE  /\ FailureStatus \in Failures \cup {"cleanup_incomplete"}
           /\ FailureStatus = "cleanup_incomplete" =>
                  wf.primary \/ wf.failed \in CleanupActs
BY DEF FailureStatus, Failures

\* The row with the evidence of a failure.
LEMMA FailureRows ==
    ASSUME row \in RowStates, NEW status \in Failures \cup {"cleanup_incomplete"}
    PROVE  LET r == WithFailure(status) IN
           /\ r \in RowStates /\ Later(row, r)
           /\ \/ /\ status = "cleanup_incomplete"
                 /\ r = [row EXCEPT !.cleanup = "cleanup_incomplete", !.handoff = TRUE]
              \/ /\ status # "cleanup_incomplete"
                 /\ r = [row EXCEPT !.terminal = r.terminal, !.evidence = TRUE,
                                    !.failure = TRUE]
                 /\ r.terminal \in {row.terminal, status} \ {None}
                 /\ r.evidence /\ r.failure /\ r.cleanup = row.cleanup
<1>1. CASE status = "cleanup_incomplete"
  <2>1. WithFailure(status) = [row EXCEPT !.cleanup = "cleanup_incomplete", !.handoff = TRUE]
    BY <1>1 DEF WithFailure
  <2>2. "cleanup_incomplete" \in CleanupStates
    BY DEF CleanupStates
  <2> QED
    BY <1>1, <2>1, <2>2 DEF RowStates, Later
<1>2. CASE status # "cleanup_incomplete"
  <2> DEFINE t == IF row.terminal = None THEN status ELSE row.terminal
  <2>1. WithFailure(status) = [row EXCEPT !.terminal = t, !.evidence = TRUE, !.failure = TRUE]
    BY <1>2 DEF WithFailure, RowStates
  <2>2. /\ t \in TerminalStates /\ t \in {row.terminal, status} \ {None}
        /\ row.terminal # None => t = row.terminal
    BY <1>2, NoneIsNothing DEF RowStates, TerminalStates
  <2> HIDE DEF t
  <2>3. /\ WithFailure(status).terminal = t /\ WithFailure(status) \in RowStates
        /\ WithFailure(status).evidence /\ WithFailure(status).failure
        /\ WithFailure(status).cleanup = row.cleanup
    BY <2>1, <2>2 DEF RowStates
  <2>4. Later(row, WithFailure(status))
    BY <2>1, <2>2 DEF RowStates, Later
  <2> QED
    BY <1>2, <2>1, <2>2, <2>3, <2>4
<1> QED
  BY <1>1, <1>2

\* Where a report leads.
LEMMA ReportEffect ==
    ASSUME NEW w \in WorkflowStates, NEW status
    PROVE  LET r == Reported(w, status) IN
           /\ r \in WorkflowStates /\ r.decision = w.decision /\ r.pending = w.pending
           /\ r.failed = w.failed /\ r.snapshots = w.snapshots
           /\ \/ /\ status = "cleanup_incomplete" /\ r.pc = "handed_off"
                 /\ r.primary = w.primary
              \/ status # "cleanup_incomplete" /\ r.pc = "load" /\ r.primary = TRUE
<1>1. {"handed_off", "load"} \subseteq Places
  BY DEF Places
<1>2. CASE status = "cleanup_incomplete"
  BY <1>1, <1>2 DEF Reported, WorkflowStates
<1>3. CASE status # "cleanup_incomplete"
  BY <1>1, <1>3 DEF Reported, WorkflowStates
<1> QED
  BY <1>2, <1>3

\* The workflow reports a failure, and goes on from it or hands the session over.
LEMMA PersistFailureEffect ==
    ASSUME Types, PersistFailure
    PROVE  /\ row' \in RowStates /\ Later(row, row') /\ FailureRecorded
           /\ SameTypes /\ SameAttempts /\ SameWorld /\ obs' = obs /\ budget' = budget
           /\ wf' \in WorkflowStates /\ wf.pc \in {"persist_failure", "quarantine"}
           /\ wf'.decision = wf.decision /\ wf'.pending = wf.pending
           /\ wf'.failed = wf.failed /\ wf'.snapshots = wf.snapshots
           /\ wf'.pc \in {"load", "handed_off"}
           /\ wf'.primary => wf.primary \/ row'.failure
           /\ row'.cleanup # row.cleanup => wf'.pc = "handed_off"
<1>0. /\ Control /\ wf \in WorkflowStates /\ row \in RowStates /\ Outside
      /\ {"load", "handed_off"} \subseteq Places
  BY DEF Types, Control, Places
<1>1. SameWorld /\ obs' = obs /\ budget' = budget /\ wf.pc \in {"persist_failure", "quarantine"}
  BY DEF PersistFailure, world, SameWorld
<1> DEFINE status == IF FailedCommand = "unknown" THEN "delivery_unknown" ELSE FailureStatus
           known == IF FailureStatus = "cleanup_incomplete" THEN row.handoff ELSE row.failure
<1>2. CASE wf' = [wf EXCEPT !.pc = "load"] /\ UNCHANGED <<row, cmds, att>>
  <2>1. /\ wf' \in WorkflowStates /\ wf'.decision = wf.decision /\ wf'.pending = wf.pending
        /\ wf'.failed = wf.failed /\ wf'.snapshots = wf.snapshots
        /\ wf'.pc = "load" /\ wf'.primary = wf.primary
    BY <1>0, <1>2 DEF WorkflowStates
  <2> QED
    BY <1>0, <1>1, <1>2, <2>1, SameEffect, RowWrites DEF FailureRecorded
<1>3. CASE known /\ wf' = Reported(wf, FailureStatus) /\ UNCHANGED <<row, cmds, att>>
  <2>1. /\ wf' \in WorkflowStates /\ wf'.decision = wf.decision /\ wf'.pending = wf.pending
        /\ wf'.failed = wf.failed /\ wf'.snapshots = wf.snapshots
        /\ \/ wf'.pc = "handed_off" /\ wf'.primary = wf.primary
           \/ FailureStatus # "cleanup_incomplete" /\ wf'.pc = "load"
    BY <1>0, <1>3, ReportEffect
  <2>2. wf'.primary => wf.primary \/ row'.failure
    BY <1>3, <2>1
  <2> QED
    BY <1>0, <1>1, <1>3, <2>1, <2>2, SameEffect, RowWrites DEF FailureRecorded
<1>4. CASE /\ row' = WithFailure(status)
           /\ cmds' = [StaleCommands EXCEPT
                          !.cur.status = IF FailedCommand \in {"pending", "claimed"}
                                         THEN "failed" ELSE @]
           /\ att' = Stale
           /\ wf' = Reported(Outdated(wf), status)
  <2> DEFINE s == IF FailedCommand \in {"pending", "claimed"} THEN "failed"
                  ELSE StaleCommands.cur.status
  <2>1. /\ StaleCommands \in [Slots -> CommandStates] /\ "cur" \in Slots
        /\ StaleCommands["cur"] \in CommandStates
        /\ \A t \in Slots : /\ StaleCommands[t].kind = cmds[t].kind
                            /\ StaleCommands[t].outcome = cmds[t].outcome
    BY <1>0, OutdatedCommands DEF Control, Slots
  <2>2. s \in Statuses
    BY <2>1 DEF CommandStates, Statuses
  <2> DEFINE old == StaleCommands
  <2>3. cmds' = [old EXCEPT !["cur"] = [old["cur"] EXCEPT !.status = s]]
    BY <1>4, <2>1 DEF CommandStates
  <2> HIDE DEF s, old
  <2>4. [old["cur"] EXCEPT !.status = s] \in CommandStates
    BY <2>1, <2>2 DEF CommandStates, old
  <2>5. SameTypes
    BY <2>1, <2>3, <2>4 DEF SameTypes, SameCommands, CommandStates, old
  <2>6. SameAttempts
    BY <1>0, <1>4, StaleAttempts DEF Control, SameAttempts
  <2>7. status \in Failures \cup {"cleanup_incomplete"}
    BY FailureStatuses DEF Failures
  <2>8. row' \in RowStates /\ Later(row, row')
    BY <1>0, <1>4, <2>7, FailureRows
  <2> DEFINE w == Outdated(wf)
  <2>9. /\ w \in WorkflowStates /\ wf' = Reported(w, status)
        /\ w.decision = wf.decision /\ w.pending = wf.pending
        /\ w.failed = wf.failed /\ w.snapshots = wf.snapshots /\ w.primary = wf.primary
    BY <1>0, <1>4, OutdatedWorkflow
  <2>10. row' = WithFailure(status)
    BY <1>4
  <2> HIDE DEF status, w
  <2>11. /\ wf' \in WorkflowStates /\ wf'.decision = wf.decision /\ wf'.pending = wf.pending
         /\ wf'.failed = wf.failed /\ wf'.snapshots = wf.snapshots
         /\ \/ /\ status = "cleanup_incomplete" /\ wf'.pc = "handed_off"
               /\ wf'.primary = wf.primary
            \/ status # "cleanup_incomplete" /\ wf'.pc = "load"
    BY <2>9, ReportEffect
  <2>12. status # "cleanup_incomplete" => row'.failure /\ row'.cleanup = row.cleanup
    BY <1>0, <2>7, <2>10, FailureRows
  <2>13. FailureRecorded
    BY <2>10 DEF FailureRecorded, status
  <2> QED
    BY <1>0, <1>1, <2>5, <2>6, <2>8, <2>11, <2>12, <2>13
<1> QED
  BY <1>2, <1>3, <1>4 DEF PersistFailure

\* The main attempt dies, times out while it goes on as the late one, or the late one
\* dies.
LEMMA DieEffect ==
    ASSUME Types, Die \/ Overlap
    PROVE  /\ row' = row /\ obs' = obs /\ SameTypes /\ SameWorld /\ budget' \in Budgets
           /\ cmds' = cmds
           /\ att' \in [Who -> AttemptStates] /\ wf' \in WorkflowStates /\ SameSupervision
           /\ \/ att.main.act # None /\ Retries("main") /\ att'.late = att.late
              \/ att'.main = att.main /\ wf' = wf /\ att'.late = NoAttempt
              \/ /\ "overlap" \in Behaviours /\ att.main.act # None
                 /\ Retries("main") /\ att'.late = att.main
<1>0. /\ Control /\ wf \in WorkflowStates /\ row \in RowStates /\ Outside
      /\ att.late \in AttemptStates /\ att.main \in AttemptStates
      /\ "main" \in Who /\ "late" \in Who
      /\ budget \in Budgets /\ att \in [Who -> AttemptStates] /\ MaxFaults \in Nat
  BY OmnigentAssumption DEF Types, Control, Outside, Who
<1>1. /\ UNCHANGED <<row, obs, cmds, outside>> /\ budget.faults < MaxFaults
      /\ budget' = [budget EXCEPT !.faults = @ + 1]
  BY DEF Die, Overlap, Fault
<1>2. /\ row' = row /\ obs' = obs /\ SameTypes /\ SameWorld /\ budget' \in Budgets
      /\ cmds' = cmds
  BY <1>0, <1>1, FaultCounts DEF outside, SameWorld, SameTypes, SameCommands, Control
<1>3. CASE att.main.act # None /\ Retry(att)
  BY <1>0, <1>2, <1>3, RetryEffect
<1>4. CASE att' = [att EXCEPT !.late = NoAttempt] /\ wf' = wf
  BY <1>0, <1>2, <1>4, FreshAttempts DEF SameSupervision, Who
<1>5. CASE Overlap
  <2> DEFINE attempts == [att EXCEPT !.late = att.main]
  <2>1. attempts \in [Who -> AttemptStates] /\ attempts.late = att.main
    BY <1>0
  <2>2. Retry(attempts) /\ "overlap" \in Behaviours /\ att.main.act # None
    BY <1>5 DEF Overlap
  <2> HIDE DEF attempts
  <2> QED
    BY <1>0, <1>2, <2>1, <2>2, RetryEffect
<1> QED
  BY <1>3, <1>4, <1>5 DEF Die

\* The workflow is cancelled: it loads again with a cancellation to persist, whatever
\* it waited for goes on as a late attempt or is never started.
LEMMA CancelWorkflowEffect ==
    ASSUME Types, CancelWorkflow
    PROVE  /\ row' = row /\ obs' = obs /\ SameWorld /\ budget' \in Budgets
           /\ "workflow_cancel" \in Behaviours
           /\ "workflow_cancel" \notin budget.signals
           /\ "workflow_cancel" \in budget'.signals
           /\ att' \in [Who -> AttemptStates] /\ wf' \in WorkflowStates
           /\ Running /\ wf'.pc \in {"load", "dead"}
           /\ \E i \in DOMAIN wf'.pending : wf'.pending[i] = "cancel"
           /\ wf'.decision = wf.decision /\ wf'.primary = wf.primary
           /\ wf'.failed = wf.failed /\ wf'.snapshots = wf.snapshots
           /\ \/ /\ SameTypes /\ att'.main = NoAttempt
                 /\ att'.late = att.late \/ (att.late.act = None /\ att'.late = att.main)
              \/ /\ wf.pc = "decide"
                 /\ SameTypes /\ SameAttempts
              \/ /\ wf.pc = "decide" /\ wf.decision.kind \in CommandKinds
                 /\ Recorded(wf.decision) /\ att'.main = att.main
<1>0. /\ Control /\ wf \in WorkflowStates /\ row \in RowStates /\ Outside
      /\ att.late \in AttemptStates /\ att.main \in AttemptStates
      /\ "main" \in Who /\ "late" \in Who /\ wf.decision \in Decisions
      /\ budget \in Budgets /\ att \in [Who -> AttemptStates]
      /\ wf.pending \in Seq(Signals) /\ 0 \in 0..(Attempts - 1)
      /\ {"load", "dead"} \subseteq Places /\ "cancel" \in Signals
  BY OmnigentAssumption DEF Types, Control, Outside, Who, WorkflowStates, Places, Signals
<1>1. /\ UNCHANGED <<row, obs, outside>> /\ Running
      /\ "workflow_cancel" \in Behaviours /\ "workflow_cancel" \notin budget.signals
      /\ budget' = [budget EXCEPT !.signals = budget.signals \cup {"workflow_cancel"}]
  BY <1>0 DEF CancelWorkflow, Budgets
<1>2. SameWorld /\ budget' \in Budgets /\ "workflow_cancel" \in budget'.signals
  BY <1>0, <1>1 DEF outside, SameWorld, Budgets
<1> DEFINE pc == IF wf.pc \in {"failure", "persist_failure"} THEN "dead" ELSE "load"
           pending == IF \E i \in DOMAIN wf.pending : wf.pending[i] = "cancel"
                      THEN wf.pending ELSE Append(wf.pending, "cancel")
           resumed == [wf EXCEPT !.pc = pc, !.pending = pending, !.tries = 0]
<1>3. pc \in {"load", "dead"}
  OBVIOUS
<1>4. pending \in Seq(Signals) /\ \E i \in DOMAIN pending : pending[i] = "cancel"
  <2>1. CASE \E i \in DOMAIN wf.pending : wf.pending[i] = "cancel"
    BY <1>0, <2>1
  <2>2. CASE ~\E i \in DOMAIN wf.pending : wf.pending[i] = "cancel"
    <3>1. pending = Append(wf.pending, "cancel")
      BY <2>2
    <3> HIDE DEF pending
    <3> QED
      BY <1>0, <3>1, Appended
  <2> QED
    BY <2>1, <2>2
<1>5. \/ /\ wf' = resumed
         /\ att' \in {[att EXCEPT !.main = NoAttempt]} \cup
                     (IF att.late.act = None
                      THEN {[main |-> NoAttempt, late |-> att.main]} ELSE {})
         /\ UNCHANGED cmds
      \/ /\ wf.pc = "decide"
         /\ wf' = [resumed EXCEPT !.unnumbered = "same"]
         /\ IF wf.decision.kind \in CommandKinds
            THEN /\ cmds' = Issued(wf.decision)
                 /\ att' = [att EXCEPT !.late = Late(wf.decision)]
            ELSE UNCHANGED <<cmds, att>>
  BY <1>0 DEF CancelWorkflow, WorkflowStates
<1> HIDE DEF pc, pending
<1>6. /\ wf' \in WorkflowStates /\ wf'.pc = pc /\ wf'.pending = pending
      /\ wf'.decision = wf.decision /\ wf'.primary = wf.primary
      /\ wf'.failed = wf.failed /\ wf'.snapshots = wf.snapshots
  <2>1. /\ resumed \in WorkflowStates /\ resumed.pc = pc /\ resumed.pending = pending
        /\ resumed.decision = wf.decision /\ resumed.primary = wf.primary
        /\ resumed.failed = wf.failed /\ resumed.snapshots = wf.snapshots
    BY <1>0, <1>3, <1>4 DEF WorkflowStates
  <2> HIDE DEF resumed
  <2> QED
    BY <1>5, <2>1 DEF WorkflowStates
<1> HIDE DEF resumed
<1>7. CASE att' = [att EXCEPT !.main = NoAttempt] /\ UNCHANGED cmds
  <2>1. SameTypes
    BY <1>0, <1>7 DEF SameTypes, SameCommands, Control
  <2>2. att' \in [Who -> AttemptStates] /\ att'.main = NoAttempt /\ att'.late = att.late
    BY <1>0, <1>7, FreshAttempts
  <2> QED
    BY <1>1, <1>2, <1>3, <1>4, <1>6, <2>1, <2>2
<1>8. CASE att.late.act = None /\ att' = [main |-> NoAttempt, late |-> att.main] /\ UNCHANGED cmds
  <2>1. SameTypes
    BY <1>0, <1>8 DEF SameTypes, SameCommands, Control
  <2>2. att' \in [Who -> AttemptStates] /\ att'.main = NoAttempt /\ att'.late = att.main
    BY <1>0, <1>8, FreshAttempts DEF Who
  <2> QED
    BY <1>1, <1>2, <1>3, <1>4, <1>6, <1>8, <2>1, <2>2
<1>9. CASE wf.pc = "decide" /\ UNCHANGED <<cmds, att>>
  <2>1. SameTypes /\ SameAttempts
    BY <1>0, <1>9, SameEffect
  <2> QED
    BY <1>0, <1>1, <1>2, <1>3, <1>4, <1>6, <1>9, <2>1
<1>10. CASE /\ wf.pc = "decide" /\ wf.decision.kind \in CommandKinds
            /\ cmds' = Issued(wf.decision) /\ att' = [att EXCEPT !.late = Late(wf.decision)]
  <2>1. att'.late = Late(wf.decision) /\ att'.main = att.main
    BY <1>0, <1>10
  <2>2. Recorded(wf.decision)
    BY <1>0, <1>10, <2>1, IssuedEffect
  <2>3. att' \in [Who -> AttemptStates]
    BY <1>0, <1>10, <2>1, <2>2 DEF Recorded
  <2> QED
    BY <1>1, <1>2, <1>3, <1>4, <1>6, <1>10, <2>1, <2>2, <2>3
<1> QED
  BY <1>5, <1>7, <1>8, <1>9, <1>10

\* The provider ends its turn.
LEMMA ProviderEffect ==
    ASSUME Types, ProviderEnds
    PROVE  /\ UNCHANGED <<row, obs, cmds, att, wf, bridge, lease, hostUp, posts, budget>>
           /\ provider = "running" /\ provider' \in {"completed", "quiesced", "failed"}
BY DEF ProviderEnds

-----------------------------------------------------------------------------
(* Every step *)

\* The workflow persists the signals it has, with the timeout or without.
SignalsPersisted ==
    /\ wf.pc \in {"decide", "timeout"}
    /\ \E signals \in Seq(Signals) :
          /\ PersistSignals(signals)
          /\ \A s \in Signals : (\E i \in DOMAIN wf.pending : wf.pending[i] = s) =>
                                   (\E i \in DOMAIN signals : signals[i] = s)
          /\ \A i \in DOMAIN signals :
                signals[i] = "timeout" \/ \E k \in DOMAIN wf.pending : wf.pending[k] = signals[i]

\* The pending signals, or these and the timeout, are persisted.
LEMMA SignalsStep ==
    ASSUME Types, PersistPendingSignals \/ QueueTimeout
    PROVE  SignalsPersisted
<1>0. wf.pending \in Seq(Signals) /\ "timeout" \in Signals
  BY DEF Types, Control, WorkflowStates, Signals
<1>1. CASE PersistPendingSignals
  BY <1>0, <1>1 DEF PersistPendingSignals, SignalsPersisted
<1>2. CASE QueueTimeout
  <2> DEFINE signals == Append(wf.pending, "timeout")
  <2>1. wf.pc \in {"decide", "timeout"} /\ PersistSignals(signals)
    BY <1>2 DEF QueueTimeout
  <2>2. /\ signals \in Seq(Signals)
        /\ \A i \in DOMAIN wf.pending : i \in DOMAIN signals /\ signals[i] = wf.pending[i]
    BY <1>0, Appended
  <2>3. \A i \in DOMAIN signals :
           signals[i] = "timeout" \/ \E k \in DOMAIN wf.pending : wf.pending[k] = signals[i]
    BY <1>0
  <2> HIDE DEF signals
  <2> QED
    BY <2>1, <2>2, <2>3 DEF SignalsPersisted
<1> QED
  BY <1>1, <1>2

\* Nothing changes.
LEMMA StutterEffect ==
    ASSUME Types, UNCHANGED vars
    PROVE  Quiet
<1>0. /\ Control /\ wf \in WorkflowStates /\ row \in RowStates /\ Outside /\ budget \in Budgets
  BY DEF Types, Control, Outside
<1>1. UNCHANGED <<row, obs, cmds, att, wf, bridge, lease, hostUp, provider, posts, budget>>
  BY DEF vars
<1>2. SameTypes /\ SameAttempts /\ SameWorld
  BY <1>0, <1>1, SameEffect DEF SameWorld
<1> QED
  BY <1>0, <1>1, <1>2, RowItself DEF Quiet

\* The kinds of steps: of an attempt, of the workflow, of the environment.
LEMMA StepKinds ==
    ASSUME Types, Existing, [Next]_vars
    PROVE  \/ \E a \in Who : (Attempted(a) \/ Faulted(a)) /\ Summary(a)
           \/ Quiet
           \/ Load
           \/ SignalsPersisted
           \/ PersistDecision
           \/ Observe \/ ObserveUnavailable
           \/ PersistFailure
           \/ Die \/ Overlap
           \/ CancelWorkflow
           \/ ProviderEnds
<1>1. CASE \E a \in Who : Attempted(a) \/ Faulted(a)
  BY <1>1, AttemptSummary
<1>2. CASE Supervise
  BY <1>2, PlaceEffect, SignalsStep DEF Supervise
<1>3. CASE Environment /\ ~\E a \in Who : Faulted(a)
  BY <1>3, SignalEffect, OtherEffect DEF Environment
<1>4. CASE UNCHANGED vars
  BY <1>4, StutterEffect
<1> QED
  BY <1>1, <1>2, <1>3, <1>4 DEF Next, Environment, Ending

\* A step leaves nothing of what it is about to post or to attach behind.
LEMMA ExistingKept ==
    ASSUME Types, Existing, row'.attached = row.attached, SameAttempts, Lasting,
           posts \in Nat, posts' \in Nat
    PROVE  /\ row'.attached => provider' # "absent"
           /\ \A a \in Who : At(a, "ensure_session", "attach")' => provider' # "absent"
           /\ \A a \in Who : At(a, "submit_turn", "posted")' => posts' > 0
BY DEF Existing, SameAttempts, At, Lasting, ProviderLater

\* The types hold, what exists keeps existing and what is on record stays there.
Kept == Types' /\ Existing' /\ Lasting

\* Not a step of an attempt: the same for all of them.
LEMMA WorldKept ==
    ASSUME Types, SameWorld
    PROVE  /\ ProviderLater(provider, provider') /\ posts' >= posts
           /\ budget' \in Budgets => Outside'
<1>1. ProviderLater(provider, provider')
  BY DEF SameWorld, ProviderLater
<1>2. posts' >= posts
  BY DEF SameWorld, Types, Outside
<1>3. budget' \in Budgets => Outside'
  BY DEF Types, SameWorld, Outside
<1> QED
  BY <1>1, <1>2, <1>3

\* The steps that move no attempt.
LEMMA KeptBySame ==
    ASSUME Types, Existing, row' \in RowStates, Later(row, row'), row'.attached = row.attached,
           obs' \in Observations, SameTypes, SameAttempts, SameWorld, budget' \in Budgets,
           wf' \in WorkflowStates,
           wf'.pc = "snapshot" => wf'.snapshots < SnapshotAttempts
    PROVE  Kept
<1>1. Lasting /\ Outside'
  BY WorldKept DEF Lasting
<1>2. Types'
  BY <1>1 DEF Types, Control, SameTypes, SameAttempts
<1>3. posts \in Nat /\ posts' \in Nat
  BY <1>2 DEF Types, Outside
<1>4. Existing'
  BY <1>1, <1>3, ExistingKept DEF Existing
<1> QED
  BY <1>1, <1>2, <1>4 DEF Kept

\* The steps that move attempts, each to its own place or to the start of an activity.
LEMMA KeptByMoves ==
    ASSUME Types, Existing, row' = row, obs' = obs, SameWorld, budget' \in Budgets,
           cmds' \in [Slots -> CommandStates],
           att' \in [Who -> AttemptStates], wf' \in WorkflowStates,
           \A a \in Who : \/ att'[a].at = "claim"
                          \/ \E b \in Who : att'[a].act = att[b].act /\ att'[a].at = att[b].at,
           wf'.pc = "snapshot" => wf.pc = "snapshot" /\ wf'.snapshots = wf.snapshots
    PROVE  Kept
<1>1. row \in RowStates /\ Later(row, row) /\ posts \in Nat
  BY RowWrites DEF Types, Outside
<1>2. Lasting /\ Outside'
  BY <1>1, WorldKept DEF Lasting
<1>3. Types'
  BY <1>2 DEF Types, Control
<1>4. posts' = posts /\ provider' = provider
  BY DEF SameWorld
<1>5. Existing'
  BY <1>4 DEF Existing, At
<1> QED
  BY <1>2, <1>3, <1>5 DEF Kept

\* Every step keeps the types.
LEMMA StepKeeps ==
    ASSUME Types, Existing, [Next]_vars
    PROVE  Kept
<1>0. /\ Control /\ wf \in WorkflowStates /\ row \in RowStates /\ Outside /\ obs \in Observations
      /\ Later(row, row) /\ budget \in Budgets /\ cmds \in [Slots -> CommandStates]
      /\ "main" \in Who /\ "late" \in Who /\ Who = {"main", "late"}
  BY RowWrites DEF Types, Control, Outside, Who
<1>1. CASE \E a \in Who : Summary(a)
  <2>1. PICK a \in Who : Summary(a)
    BY <1>1
  <2>2. /\ row' \in RowStates /\ Later(row, row') /\ Framed(a) /\ SameTypes /\ SomeMove(a)
        /\ WorldMoved /\ RowBy(a) /\ WorldBy(a) /\ PlaceBy(a)
    BY <2>1 DEF Summary, Moved
  <2>3. Types' /\ Lasting
    BY <2>2 DEF Types, Control, Framed, SameTypes, WorldMoved, Lasting
  <2>4. posts \in Nat /\ posts' \in Nat
    BY <1>0, <2>3 DEF Types, Outside
  <2>5. row'.attached => provider' # "absent"
    BY <2>2, <2>3 DEF RowBy, Existing, Lasting, ProviderLater
  <2>6. \A b \in Who : At(b, "ensure_session", "attach")' => provider' # "absent"
    BY <2>2, <2>3 DEF PlaceBy, Existing, Lasting, ProviderLater, Framed, Others, At
  <2>7. \A b \in Who : At(b, "submit_turn", "posted")' => posts' > 0
    BY <2>2, <2>3, <2>4 DEF PlaceBy, Existing, Lasting, Framed, Others, At
  <2>8. wf'.pc = "snapshot" => wf'.snapshots < SnapshotAttempts
    BY <2>2 DEF SomeMove, Goes, Returns, Retries, Drops, Leaves, Framed, SameSupervision,
                Existing
  <2> QED
    BY <2>3, <2>5, <2>6, <2>7, <2>8 DEF Kept, Existing
<1>2. CASE Quiet
  <2>1. Later(row, row') /\ row'.attached = row.attached
    BY <1>0, <1>2 DEF Quiet, Later, RowStates
  <2>2. wf'.pc = "snapshot" => wf'.snapshots < SnapshotAttempts
    BY <1>2 DEF Quiet, Existing
  <2> QED
    BY <1>0, <1>2, <2>1, <2>2, KeptBySame DEF Quiet
<1>3. CASE Load
  <2>1. wf' \in WorkflowStates /\ wf'.pc = "decide" /\ UNCHANGED <<row, obs, cmds, att, world>>
    BY <1>3, LoadEffect
  <2>2. SameTypes /\ SameAttempts /\ SameWorld /\ budget' = budget
    BY <1>0, <2>1, SameEffect DEF world, SameWorld
  <2> QED
    BY <1>0, <2>1, <2>2, KeptBySame
<1>4. CASE SignalsPersisted
  <2>1. PICK signals \in Seq(Signals) : PersistSignals(signals)
    BY <1>4 DEF SignalsPersisted
  <2>2. /\ wf' \in WorkflowStates /\ wf'.pc \in {"load", "failure"} /\ SameTypes /\ SameAttempts
        /\ UNCHANGED <<obs, world>> /\ (row' = row \/ row' = Wanted(signals))
    BY <2>1, PersistSignalsEffect
  <2>3. row' \in RowStates /\ Later(row, row') /\ row'.attached = row.attached
    <3>1. CASE row' = row
      BY <1>0, <3>1
    <3>2. CASE row' = Wanted(signals)
      <4>1. /\ row' \in RowStates /\ Later(row, row')
            /\ row' = [row EXCEPT !.desired = row'.desired, !.continued = row'.continued]
        BY <1>0, <3>2, WantedEffect
      <4> QED
        BY <1>0, <4>1 DEF RowStates
    <3> QED
      BY <2>2, <3>1, <3>2
  <2>4. SameWorld /\ budget' = budget
    BY <2>2 DEF world, SameWorld
  <2> QED
    BY <1>0, <2>2, <2>3, <2>4, KeptBySame
<1>5. CASE PersistDecision
  <2>1. /\ wf' \in WorkflowStates /\ UNCHANGED <<row, obs, world>>
        /\ \/ /\ UNCHANGED <<cmds, att>>
              /\ wf'.pc \in {"load", "failure", "quarantine", "closed", "observe"}
           \/ /\ wf'.pc = "activity" /\ wf.decision.kind \in CommandKinds
              /\ Recorded(wf.decision) /\ att' \in [Who -> AttemptStates]
              /\ att'.main = Attempt(FirstActivity(wf.decision.kind))
              /\ FirstActivity(wf.decision.kind) \in Acts
    BY <1>5, PersistDecisionEffect
  <2>2. SameWorld /\ budget' = budget
    BY <2>1 DEF world, SameWorld
  <2>3. CASE UNCHANGED <<cmds, att>>
    BY <1>0, <2>1, <2>2, <2>3, KeptBySame, SameEffect
  <2>4. CASE /\ Recorded(wf.decision) /\ att' \in [Who -> AttemptStates]
             /\ att'.main = Attempt(FirstActivity(wf.decision.kind))
             /\ FirstActivity(wf.decision.kind) \in Acts /\ wf'.pc = "activity"
    <3>1. att'["main"].at = "claim"
      BY <2>4, FreshAttempts
    <3>2. att'["late"].act = att["late"].act /\ att'["late"].at = att["late"].at
      BY <2>4 DEF Recorded
    <3>3. cmds' \in [Slots -> CommandStates]
      BY <2>4 DEF Recorded
    <3> QED
      BY <1>0, <2>1, <2>2, <2>4, <3>1, <3>2, <3>3, KeptByMoves
  <2> QED
    BY <2>1, <2>3, <2>4
<1>6. CASE Observe \/ ObserveUnavailable
  BY <1>0, <1>6, ObserveEffect, KeptBySame
<1>7. CASE PersistFailure
  <2>1. /\ row' \in RowStates /\ Later(row, row') /\ FailureRecorded
        /\ SameTypes /\ SameAttempts /\ SameWorld /\ obs' = obs /\ budget' = budget
        /\ wf' \in WorkflowStates /\ wf'.pc \in {"load", "handed_off"}
    BY <1>7, PersistFailureEffect
  <2> DEFINE status == IF FailedCommand = "unknown" THEN "delivery_unknown"
                       ELSE FailureStatus
  <2>2. status \in Failures \cup {"cleanup_incomplete"}
    BY FailureStatuses DEF Failures
  <2>3. row' = row \/ row' = WithFailure(status)
    BY <2>1 DEF FailureRecorded
  <2> HIDE DEF status
  <2>4. row'.attached = row.attached
    <3> DEFINE r == WithFailure(status)
    <3>1. \/ r = [row EXCEPT !.cleanup = "cleanup_incomplete", !.handoff = TRUE]
          \/ r = [row EXCEPT !.terminal = r.terminal, !.evidence = TRUE, !.failure = TRUE]
      BY <1>0, <2>2, FailureRows
    <3> HIDE DEF r
    <3>2. r.attached = row.attached
      BY <1>0, <3>1 DEF RowStates
    <3> QED
      BY <2>3, <3>2 DEF r
  <2> QED
    BY <1>0, <2>1, <2>4, KeptBySame
<1>8. CASE Die \/ Overlap
  <2>1. /\ row' = row /\ obs' = obs /\ SameTypes /\ SameWorld /\ budget' \in Budgets
        /\ att' \in [Who -> AttemptStates] /\ wf' \in WorkflowStates /\ SameSupervision
        /\ \/ att.main.act # None /\ Retries("main") /\ att'.late = att.late
           \/ att'.main = att.main /\ wf' = wf /\ att'.late = NoAttempt
           \/ Retries("main") /\ att'.late = att.main
    BY <1>8, DieEffect
  <2>2. \A a \in Who : \/ att'[a].at = "claim"
                       \/ \E b \in Who : att'[a].act = att[b].act /\ att'[a].at = att[b].at
    BY <1>0, <2>1, FreshAttempts DEF Retries, Leaves
  <2>3. wf'.pc = "snapshot" => wf.pc = "snapshot" /\ wf'.snapshots = wf.snapshots
    BY <2>1 DEF Retries, Leaves, SameSupervision
  <2>4. cmds' \in [Slots -> CommandStates]
    BY <2>1 DEF SameTypes
  <2> QED
    BY <2>1, <2>2, <2>3, <2>4, KeptByMoves
<1>9. CASE CancelWorkflow
  <2>1. /\ row' = row /\ obs' = obs /\ SameWorld /\ budget' \in Budgets
        /\ att' \in [Who -> AttemptStates] /\ wf' \in WorkflowStates
        /\ wf'.pc \in {"load", "dead"}
        /\ \/ /\ SameTypes /\ att'.main = NoAttempt
              /\ att'.late = att.late \/ (att.late.act = None /\ att'.late = att.main)
           \/ SameTypes /\ SameAttempts
           \/ Recorded(wf.decision) /\ att'.main = att.main
    BY <1>9, CancelWorkflowEffect
  <2>2. \A a \in Who : \/ att'[a].at = "claim"
                       \/ \E b \in Who : att'[a].act = att[b].act /\ att'[a].at = att[b].at
    BY <1>0, <2>1, FreshAttempts DEF SameAttempts, Recorded
  <2>3. cmds' \in [Slots -> CommandStates]
    BY <2>1 DEF SameTypes, Recorded
  <2> QED
    BY <2>1, <2>2, <2>3, KeptByMoves
<1>10. CASE ProviderEnds
  <2>1. /\ UNCHANGED <<row, obs, cmds, att, wf, bridge, lease, hostUp, posts, budget>>
        /\ provider = "running" /\ provider' \in {"completed", "quiesced", "failed"}
    BY <1>10, ProviderEffect
  <2>2. Outside' /\ posts \in Nat
    BY <1>0, <2>1 DEF Outside
  <2>3. Types'
    BY <1>0, <2>1, <2>2 DEF Types, Control
  <2>4. Lasting
    BY <1>0, <2>1, <2>2 DEF Lasting, ProviderLater, Finished
  <2>5. Existing'
    BY <2>1 DEF Existing, At
  <2> QED
    BY <2>3, <2>4, <2>5 DEF Kept
<1> QED
  BY <1>1, <1>2, <1>3, <1>4, <1>5, <1>6, <1>7, <1>8, <1>9, <1>10, StepKinds

\* The initial state has its types.
LEMMA InitTypes ==
    ASSUME Init
    PROVE  Types /\ Existing
<1>1. row \in RowStates
  BY DEF Init, RowStates, TerminalStates, CleanupStates
<1>2. obs \in Observations
  BY DEF Init, Observations
<1>3. NoCommand \in CommandStates
  BY DEF NoCommand, CommandStates, Statuses
<1>4. cmds \in [Slots -> CommandStates] /\ att \in [Who -> AttemptStates]
  BY <1>3, FreshAttempts DEF Init
<1>5. Await \in Decisions
  BY DEF Await, Decide, Decisions, Kinds
<1>6. wf \in WorkflowStates
  BY <1>5, OmnigentAssumption DEF Init, WorkflowStates, Places, FailedActs
<1>7. budget \in Budgets
  BY OmnigentAssumption DEF Init, Budgets
<1>8. Outside
  BY <1>7 DEF Init, Outside, LeaseStates
<1>9. \A a \in Who : att[a].act = None
  BY FreshAttempts DEF Init
<1>10. Existing
  BY <1>9, NoneIsNothing DEF Init, Existing, At, Acts
<1> QED
  BY <1>1, <1>2, <1>4, <1>6, <1>8, <1>10 DEF Types, Control

\* The type invariant of the session, for every choice of the constants: among others,
\* no activity is attempted more often than _retry_policy allows.
THEOREM TypeCorrect == Spec => []TypeOK
<1>1. Init => Types /\ Existing
  BY InitTypes
<1>2. Types /\ Existing /\ [Next]_vars => Types' /\ Existing'
  BY StepKeeps DEF Kept
<1>3. Types => TypeOK
  BY TypeParts
<1> QED
  BY <1>1, <1>2, <1>3, PTL DEF Spec

\* The first outcome on record is final (mark_terminal, persist_failure_evidence), with
\* every crash, overlap, cancellation and write of others.
THEOREM FirstOutcomeStands == Spec => OutcomeIsFinal
<1>1. Init => Types /\ Existing
  BY InitTypes
<1>2. Types /\ Existing /\ [Next]_vars => Types' /\ Existing'
  BY StepKeeps DEF Kept
<1>3. Types /\ Existing /\ [Next]_vars => [row.terminal # None => row'.terminal = row.terminal]_vars
  BY StepKeeps DEF Kept, Lasting, Later
<1>4. Spec => [][row.terminal # None => row'.terminal = row.terminal]_vars
  BY <1>1, <1>2, <1>3, PTL DEF Spec
<1> QED
  BY <1>4 DEF OutcomeIsFinal

=============================================================================
