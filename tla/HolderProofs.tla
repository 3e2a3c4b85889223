---------------------------- MODULE HolderProofs ----------------------------
(***************************************************************************)
(* The holders of a provider profile: every running holder has its row in  *)
(* the lease table and, past startup, its lease in the ledger, and seen by *)
(* its users the manager is a capacity lease.  First where leases are      *)
(* asked for by signal only, for workflows with one lease in their life,   *)
(* across crashes, shutdowns, continue-as-new and failing activities; then *)
(* for workflows that come back and for activities and OAuth sessions that *)
(* call, with a manager that is not restarted.                             *)
(***************************************************************************)
EXTENDS CapacityProofs, ManagerImplementsLease

\* Leases are asked for by signals only, each workflow has one lease in its life, and
\* none is evicted.
SignalProtocol ==
    /\ Calls = {}
    /\ Expirable = {}
    /\ {"reuse", "withdraw"} \cap Behaviours = {}

-----------------------------------------------------------------------------
(* The inductive invariant                                                 *)

\* The workflow has not given its slot back and runs.
Live(w) == phase[w] \in {"new", "waiting", "holding"}

\* A workflow knows its profile exactly while it holds one; a dead one may have known it.
WorkflowsKnow ==
    \A w \in Workflows : /\ phase[w] = "holding" => told[w] \in Profiles
                         /\ told[w] # None => phase[w] \in {"holding", "dead"}

\* Nobody else knows one.
ToldIsHolding ==
    /\ \A o \in Owners : told[o] = None
    /\ WorkflowsKnow

\* A row is removed only of a workflow that has given its slot back.
RemovedIsReleased == \A w \in Workflows \cap removes : ~Live(w)

\* Wherever the ledger may be lost and restored from, a holder's lease is there.
HolderIsKept(w) ==
    /\ db[w] = told[w]
    /\ pc \in {"save", "reclaim_save"} => snap[w] = told[w]
    /\ pc = "boot_rows" => loaded[w] = told[w]
    /\ pc \in {"restore", "boot_signal"} => w \in leases[told[w]] \/ loaded[w] = told[w]
    /\ ~BeforeRestored => w \in leases[told[w]]

HoldersAreKept == \A w \in Workflows : phase[w] = "holding" => HolderIsKept(w)

\* A row that waits to be restored is still in the table.
LoadedIsStored ==
    \A w \in Workflows : Live(w) /\ loaded[w] # None => db[w] = loaded[w]

\* Whoever is about to be told of a lease has it, in the ledger and in what is or will be
\* the table.
ToldTruly ==
    /\ pc \in {"save", "signal"} => target \in Workflows
    /\ pc \in {"save", "signal", "boot_signal"} =>
          /\ tprof \in Profiles
          /\ target \in Workflows /\ Live(target) => target \in leases[tprof]
    /\ pc = "save" => (Live(target) => snap[target] = tprof)
    /\ pc = "signal" => (Live(target) => db[target] = tprof)
    /\ pc = "boot_signal" => (target \in Workflows /\ Live(target) => db[target] = tprof)

\* An execution that has not restored its leases is a fresh one.
RestoresAreFresh == BeforeRestored => fresh

HolderInv ==
    /\ pc # "evict_save"
    /\ ToldIsHolding
    /\ RemovedIsReleased
    /\ HoldersAreKept
    /\ LoadedIsStored
    /\ ToldTruly
    /\ RestoresAreFresh

-----------------------------------------------------------------------------
(* Operators                                                               *)

\* The row that a snapshot has for a workflow with one lease.
LEMMA RowOfLease ==
    ASSUME NEW ls \in [Profiles -> SUBSET Requesters], NEW w, NEW p \in Profiles, w \in Requesters,
           w \in ls[p], \A q \in Profiles : w \in ls[q] => q = p
    PROVE  RowsOf(ls)[w] = p
<1>1. (CHOOSE q \in Profiles : w \in ls[q]) = p
  OBVIOUS
<1> QED
  BY <1>1 DEF RowsOf

\* The lease that is found of a workflow is one it has.
LEMMA LeaseFound ==
    ASSUME NEW r, HasLease(r)
    PROVE  ProfileIdForLease(r) \in Profiles /\ r \in leases[ProfileIdForLease(r)]
BY DEF HasLease, ProfileIdForLease

\* At the end of an execution the table may be the snapshot of the save in flight.
LEMMA StoppedTable ==
    ASSUME SignalProtocol, NEW rows \in SavesInFlight
    PROVE  rows = snap /\ pc \in {"save", "evict_save", "reclaim_save"}
BY DEF SignalProtocol, SavesInFlight

\* A workflow is no owner.
LEMMA WorkflowIsNoOwner ==
    /\ Workflows \subseteq Requesters
    /\ \A w \in Workflows : w \notin Owners /\ OwnerWorkflow(w) = w
BY RequesterAssumption DEF Requesters, OwnerWorkflow

-----------------------------------------------------------------------------
(* The steps                                                               *)

\* A step that moves none of it.
LEMMA QuietStep ==
    ASSUME HolderInv, UNCHANGED <<phase, told, db, leases, removes, loaded, fresh>>,
           \/ UNCHANGED <<pc, snap, target, tprof>>
           \/ /\ ~BeforeRestored /\ ~BeforeRestored'
              /\ pc' \notin {"save", "reclaim_save", "evict_save", "signal", "boot_signal"}
    PROVE  HolderInv'
<1>1. CASE UNCHANGED <<pc, snap, target, tprof>>
  BY <1>1 DEF HolderInv, ToldIsHolding, WorkflowsKnow, RemovedIsReleased, HoldersAreKept, HolderIsKept,
              LoadedIsStored, ToldTruly, RestoresAreFresh, Live, BeforeRestored
<1>2. CASE /\ ~BeforeRestored /\ ~BeforeRestored'
           /\ pc' \notin {"save", "reclaim_save", "evict_save", "signal", "boot_signal"}
  BY <1>2 DEF HolderInv, ToldIsHolding, WorkflowsKnow, RemovedIsReleased, HoldersAreKept, HolderIsKept,
              LoadedIsStored, ToldTruly, RestoresAreFresh, Live, BeforeRestored
<1> QED
  BY <1>1, <1>2

\* The end of an execution: what it was saving may be the table.
LEMMA StopHolders ==
    ASSUME SignalProtocol, HolderInv, Stop
    PROVE  HolderInv'
<1>1. /\ pc' = "down" /\ fresh' = TRUE /\ loaded' = NoRows
      /\ UNCHANGED <<removes, phase, told>> /\ db' \in {db} \cup SavesInFlight
  BY DEF Stop, clientVars
<1>2. \A w \in Workflows : phase[w] = "holding" => db'[w] = told[w]
  BY <1>1, StoppedTable DEF HolderInv, HoldersAreKept, HolderIsKept
<1>3. \A w \in Workflows : loaded'[w] = None
  BY <1>1, WorkflowIsNoOwner DEF NoRows
<1> QED
  BY <1>1, <1>2, <1>3
  DEF HolderInv, ToldIsHolding, WorkflowsKnow, RemovedIsReleased, HoldersAreKept, HolderIsKept,
      LoadedIsStored, ToldTruly, RestoresAreFresh, Live, BeforeRestored

\* The signal handlers.
LEMMA SignalsHolders ==
    ASSUME SignalProtocol, TypeOK, HolderInv, Signals
    PROVE  HolderInv'
<1> USE DEF mainVars, queueVars, ledgerVars, policyVars, flagVars, callVars, clientVars
<1>1. ASSUME NEW q \in Payloads, RequestSlot(q) PROVE HolderInv'
  <2>1. /\ UNCHANGED <<told, db, leases, removes, loaded, fresh, pc, snap, target, tprof>>
        /\ phase[q.req] \in {"new", "waiting", "holding"}
        /\ phase' = [phase EXCEPT ![q.req] = IF @ = "holding" THEN @ ELSE "waiting"]
        /\ phase \in [Workflows -> {"new", "waiting", "holding", "released", "dead"}]
    BY <1>1 DEF RequestSlot, MayRequest, SignalProtocol, TypeOK
  <2>2. \A w \in Workflows : \/ phase'[w] = phase[w]
                             \/ phase[w] \in {"new", "waiting"} /\ phase'[w] = "waiting"
    BY <2>1
  <2> QED
    BY <2>1, <2>2 DEF HolderInv, ToldIsHolding, WorkflowsKnow, RemovedIsReleased, HoldersAreKept,
      HolderIsKept, LoadedIsStored, ToldTruly, RestoresAreFresh, Live, BeforeRestored
<1>2. ASSUME NEW w \in Workflows, NEW handoff \in BOOLEAN, WorkflowRelease(w, handoff)
      PROVE  HolderInv'
  <2>1. /\ UNCHANGED <<db, loaded, fresh, pc, snap, target, tprof>>
        /\ phase' = [phase EXCEPT ![w] = "released"] /\ told' = [told EXCEPT ![w] = None]
        /\ removes' = removes \cup {w}
        /\ leases' = IF told[w] = None THEN leases ELSE Release(leases, w, told[w])
    BY <1>2 DEF WorkflowRelease, ReleaseSlot
  <2>2. \A v \in Workflows \ {w}, p \in Profiles : v \in leases[p] => v \in leases'[p]
    BY <2>1 DEF Release, TypeOK
  <2>3. \A v \in Workflows \ {w} : phase'[v] = phase[v] /\ told'[v] = told[v]
    BY <2>1 DEF TypeOK
  <2>4. phase'[w] = "released" /\ told'[w] = None
    BY <2>1, WorkflowIsNoOwner DEF TypeOK, Rows
  <2>5. ToldIsHolding' /\ RemovedIsReleased' /\ LoadedIsStored' /\ RestoresAreFresh'
    BY <2>1, <2>3, <2>4, WorkflowIsNoOwner
    DEF HolderInv, ToldIsHolding, WorkflowsKnow, RemovedIsReleased, LoadedIsStored, RestoresAreFresh, Live,
        BeforeRestored, TypeOK, Rows, Requesters
  <2>6. HoldersAreKept'
    BY <2>1, <2>2, <2>3, <2>4
    DEF HolderInv, ToldIsHolding, WorkflowsKnow, HoldersAreKept, HolderIsKept, BeforeRestored
  <2>7. ToldTruly'
    BY <2>1, <2>2, <2>3, <2>4 DEF HolderInv, ToldTruly, Live
  <2> QED
    BY <2>1, <2>5, <2>6, <2>7 DEF HolderInv
<1>3. ASSUME NEW w \in Workflows, Withdraw(w) PROVE HolderInv'
  BY <1>3 DEF Withdraw, SignalProtocol
<1>4. ASSUME NEW o \in Owners, OwnerRelease(o) PROVE HolderInv'
  BY <1>4 DEF OwnerRelease, HolderInv, ToldIsHolding, WorkflowsKnow
<1>5. ASSUME NEW p \in Profiles, ReportCooldown(p) PROVE HolderInv'
  BY <1>5, QuietStep DEF ReportCooldown
<1>6. CASE SyncProfiles
  BY <1>6, QuietStep DEF SyncProfiles
<1>7. CASE Shutdown
  BY <1>7, QuietStep DEF Shutdown
<1> QED
  BY <1>1, <1>2, <1>3, <1>4, <1>5, <1>6, <1>7 DEF Signals

\* The world outside the manager.
LEMMA OutsideHolders ==
    ASSUME SignalProtocol, TypeOK, HolderInv, Outside
    PROVE  HolderInv'
<1> USE DEF mainVars, queueVars, ledgerVars, policyVars, flagVars, callVars, clientVars
<1>1. ASSUME NEW r \in Requesters, RemoveRow(r) PROVE HolderInv'
  <2>1. /\ UNCHANGED <<phase, told, leases, loaded, fresh, pc, snap, target, tprof>>
        /\ r \in removes /\ removes' \subseteq removes
    BY <1>1 DEF RemoveRow
  <2>2. \A w \in Workflows : w # r => db'[w] = db[w]
    BY <1>1, WorkflowIsNoOwner DEF RemoveRow, TypeOK, Rows
  <2>3. \A w \in Workflows : Live(w) => db'[w] = db[w]
    BY <2>1, <2>2 DEF HolderInv, RemovedIsReleased
  <2> QED
    BY <2>1, <2>3 DEF HolderInv, ToldIsHolding, WorkflowsKnow, RemovedIsReleased, HoldersAreKept,
      HolderIsKept, LoadedIsStored, ToldTruly, RestoresAreFresh, Live, BeforeRestored
<1>2. CASE EditProfiles
  BY <1>2, QuietStep DEF EditProfiles
<1>3. ASSUME NEW w \in Workflows, ReleaseLost(w) \/ Terminate(w) PROVE HolderInv'
  <2>1. /\ UNCHANGED <<told, db, leases, removes, loaded, fresh, pc, snap, target, tprof>>
        /\ phase' = [phase EXCEPT ![w] = "dead"]
    BY <1>3 DEF ReleaseLost, Terminate
  <2>2. phase'[w] = "dead" /\ \A v \in Workflows \ {w} : phase'[v] = phase[v]
    BY <2>1 DEF TypeOK
  <2> QED
    BY <2>1, <2>2 DEF HolderInv, ToldIsHolding, WorkflowsKnow, RemovedIsReleased, HoldersAreKept,
      HolderIsKept, LoadedIsStored, ToldTruly, RestoresAreFresh, Live, BeforeRestored
<1>4. CASE Crash
  BY <1>4, StopHolders DEF Crash
<1>5. CASE Start
  <2>1. /\ UNCHANGED <<phase, told, db, leases, removes, loaded, fresh, snap, target, tprof>>
        /\ pc = "down" /\ pc' = "boot_profiles" /\ fresh
    BY <1>5 DEF Start, HolderInv, RestoresAreFresh, BeforeRestored
  <2> QED
    BY <2>1 DEF HolderInv, ToldIsHolding, WorkflowsKnow, RemovedIsReleased, HoldersAreKept,
      HolderIsKept, LoadedIsStored, ToldTruly, RestoresAreFresh, Live, BeforeRestored
<1> QED
  BY <1>1, <1>2, <1>3, <1>4, <1>5 DEF Outside

\* A workflow that is told of a lease it has becomes or stays its holder.
LEMMA TellHolders ==
    ASSUME TypeOK, target \in Workflows, tprof \in Profiles, SlotAssigned(target, tprof)
    PROVE  /\ \A w \in Workflows \ {target} : phase'[w] = phase[w] /\ told'[w] = told[w]
           /\ \A o \in Owners : told'[o] = told[o]
           /\ \/ phase'[target] = phase[target] /\ told'[target] = told[target]
                 /\ phase[target] # "holding"
              \/ phase[target] \in {"waiting", "holding"} /\ phase'[target] = "holding"
                 /\ told'[target] = tprof
           /\ \A w \in Workflows : Live(w)' <=> Live(w)
<1>1. target \in Requesters /\ target \notin Owners
  BY WorkflowIsNoOwner
<1>2. CASE phase[target] \in {"waiting", "holding"}
  <2>1. told' = [told EXCEPT ![target] = tprof]
    BY <1>2 DEF SlotAssigned
  <2>2. phase' = [phase EXCEPT ![target] = "holding"]
    BY <1>2 DEF SlotAssigned, TypeOK
  <2>3. /\ \A r \in Requesters : told'[r] = IF r = target THEN tprof ELSE told[r]
        /\ \A w \in Workflows : phase'[w] = IF w = target THEN "holding" ELSE phase[w]
    BY <1>1, <2>1, <2>2 DEF TypeOK, Rows
  <2>4. \A w \in Workflows : Live(w)' <=> Live(w)
    BY <1>2, <2>3 DEF Live
  <2> QED
    BY <1>1, <1>2, <2>3, <2>4, WorkflowIsNoOwner DEF Requesters
<1>3. CASE phase[target] \notin {"waiting", "holding"}
  <2>1. told' = told /\ phase' = phase
    BY <1>3 DEF SlotAssigned
  <2> QED
    BY <1>3, <2>1 DEF Live
<1> QED
  BY <1>2, <1>3

\* Startup: the rows go from the table to the ledger, and their owners are told again.
LEMMA BootHolders ==
    ASSUME SignalProtocol, TypeOK, LeaseInv, HolderInv, Boot
    PROVE  HolderInv'
<1> USE DEF mainVars, queueVars, ledgerVars, policyVars, flagVars, callVars, clientVars
<1>1. CASE BootProfiles
  <2>1. /\ UNCHANGED <<phase, told, db, leases, removes, loaded, fresh, snap, target, tprof>>
        /\ pc = "boot_profiles"
        /\ \/ fresh /\ pc' = "boot_leases"
           \/ ~fresh /\ pc' \in {"boot_refresh", "top"}
    BY <1>1 DEF BootProfiles, AfterBootProfiles
  <2>2. CASE fresh /\ pc' = "boot_leases"
    BY <2>1, <2>2 DEF HolderInv, ToldIsHolding, WorkflowsKnow, RemovedIsReleased, HoldersAreKept,
      HolderIsKept, LoadedIsStored, ToldTruly, RestoresAreFresh, Live, BeforeRestored
  <2>3. CASE ~fresh /\ pc' \in {"boot_refresh", "top"}
    BY <2>1, <2>3, QuietStep DEF BeforeRestored
  <2> QED
    BY <2>1, <2>2, <2>3
<1>2. CASE LoadRows
  <2>1. /\ UNCHANGED <<phase, told, db, leases, removes, fresh, snap, target, tprof>>
        /\ pc = "boot_leases" /\ pc' = "boot_rows" /\ loaded' = db
    BY <1>2 DEF LoadRows
  <2> QED
    BY <2>1 DEF HolderInv, ToldIsHolding, WorkflowsKnow, RemovedIsReleased, HoldersAreKept,
      HolderIsKept, LoadedIsStored, ToldTruly, RestoresAreFresh, Live, BeforeRestored
<1>3. CASE RowsLoaded
  <2>1. /\ UNCHANGED <<phase, told, db, leases, removes, loaded, fresh, snap, target, tprof>>
        /\ pc = "boot_rows" /\ pc' = "restore"
    BY <1>3 DEF RowsLoaded
  <2> QED
    BY <2>1 DEF HolderInv, ToldIsHolding, WorkflowsKnow, RemovedIsReleased, HoldersAreKept,
      HolderIsKept, LoadedIsStored, ToldTruly, RestoresAreFresh, Live, BeforeRestored
<1>4. CASE LoadFailed
  BY <1>4, StopHolders DEF LoadFailed
<1>5. ASSUME NEW r \in Requesters, RestoreRow(r) PROVE HolderInv'
  <2>1. /\ UNCHANGED <<phase, told, db, removes, fresh, snap>>
        /\ pc = "restore" /\ leases' = Reserve(leases, r, loaded[r])
        /\ loaded' = [loaded EXCEPT ![r] = None]
        /\ \/ pc' = "restore"
           \/ pc' = "boot_signal" /\ target' = r /\ tprof' = loaded[r]
    BY <1>5 DEF RestoreRow
  <2>2. loaded[r] \in Profiles /\ loaded[r] # None
    BY <1>5, SelectionNoneAssumption DEF RestoreRow, TypeOK, Catalogues
  <2>3. /\ r \in leases'[loaded[r]]
        /\ \A v \in Requesters, p \in Profiles : v \in leases[p] => v \in leases'[p]
    BY <2>1, <2>2 DEF Reserve, TypeOK
  <2>4. loaded'[r] = None /\ \A v \in Requesters : v # r => loaded'[v] = loaded[v]
    BY <2>1 DEF TypeOK, Rows
  <2>5. ToldIsHolding' /\ RemovedIsReleased' /\ RestoresAreFresh' /\ pc' # "evict_save"
    BY <2>1 DEF HolderInv, ToldIsHolding, WorkflowsKnow, RemovedIsReleased, RestoresAreFresh, Live,
                BeforeRestored
  <2>6. LoadedIsStored'
    BY <2>1, <2>4, WorkflowIsNoOwner DEF HolderInv, LoadedIsStored, Live
  <2>7. ToldTruly'
    BY <2>1, <2>2, <2>3 DEF HolderInv, LoadedIsStored, ToldTruly, Live
  <2>8. HoldersAreKept'
    <3> SUFFICES ASSUME NEW w \in Workflows, phase[w] = "holding" PROVE HolderIsKept(w)'
      BY <2>1 DEF HoldersAreKept
    <3>1. /\ told[w] \in Profiles /\ db[w] = told[w]
          /\ w \in leases[told[w]] \/ loaded[w] = told[w]
      BY <2>1 DEF HolderInv, ToldIsHolding, WorkflowsKnow, HoldersAreKept, HolderIsKept
    <3>2. w \in leases'[told[w]] \/ loaded'[w] = told[w]
      BY <2>3, <2>4, <3>1, WorkflowIsNoOwner
    <3> QED
      BY <2>1, <3>1, <3>2 DEF HolderIsKept, BeforeRestored
  <2> QED
    BY <2>5, <2>6, <2>7, <2>8 DEF HolderInv
<1>6. CASE RestoreDone
  <2>1. /\ UNCHANGED <<phase, told, db, leases, removes, loaded, fresh, snap, target, tprof>>
        /\ pc = "restore" /\ pc' \in {"boot_refresh", "top"}
        /\ \A w \in Workflows : loaded[w] = None
    BY <1>6, WorkflowIsNoOwner DEF RestoreDone, NoRows
  <2>2. \A w \in Workflows : phase[w] = "holding" => told[w] # None
    BY SelectionNoneAssumption DEF HolderInv, ToldIsHolding, WorkflowsKnow
  <2> QED
    BY <2>1, <2>2 DEF HolderInv, ToldIsHolding, WorkflowsKnow, RemovedIsReleased, HoldersAreKept,
      HolderIsKept, LoadedIsStored, ToldTruly, RestoresAreFresh, Live, BeforeRestored
<1>7. CASE BootSignalled
  <2>1. /\ UNCHANGED <<db, leases, removes, loaded, fresh, snap>>
        /\ pc = "boot_signal" /\ pc' = "restore"
        /\ UNCHANGED clientVars \/ SlotAssigned(target, tprof)
    BY <1>7 DEF BootSignalled
  <2>2. CASE UNCHANGED clientVars
    BY <2>1, <2>2 DEF HolderInv, ToldIsHolding, WorkflowsKnow, RemovedIsReleased, HoldersAreKept,
      HolderIsKept, LoadedIsStored, ToldTruly, RestoresAreFresh, Live, BeforeRestored
  <2>3. CASE ~UNCHANGED clientVars /\ SlotAssigned(target, tprof)
    <3>1. target \in Workflows
      BY <2>3 DEF SlotAssigned
    <3>2. tprof \in Profiles /\ (Live(target) => target \in leases[tprof] /\ db[target] = tprof)
      BY <2>1, <3>1 DEF HolderInv, ToldTruly
    <3>3. /\ \A w \in Workflows \ {target} : phase'[w] = phase[w] /\ told'[w] = told[w]
          /\ \A o \in Owners : told'[o] = told[o]
          /\ \/ phase'[target] = phase[target] /\ told'[target] = told[target]
                /\ phase[target] # "holding"
             \/ phase[target] \in {"waiting", "holding"} /\ phase'[target] = "holding"
                /\ told'[target] = tprof
          /\ \A w \in Workflows : Live(w)' <=> Live(w)
      BY <2>3, <3>1, <3>2, TellHolders
    <3>4. ToldIsHolding'
      BY <3>1, <3>2, <3>3 DEF HolderInv, ToldIsHolding, WorkflowsKnow
    <3>5. RemovedIsReleased' /\ LoadedIsStored' /\ ToldTruly' /\ RestoresAreFresh'
      BY <2>1, <3>3 DEF HolderInv, RemovedIsReleased, LoadedIsStored, ToldTruly,
                        RestoresAreFresh, BeforeRestored
    <3>6. HoldersAreKept'
      BY <2>1, <3>1, <3>2, <3>3 DEF HolderInv, HoldersAreKept, HolderIsKept, Live, BeforeRestored
    <3> QED
      BY <2>1, <3>4, <3>5, <3>6 DEF HolderInv
  <2> QED
    BY <2>1, <2>2, <2>3
<1>8. CASE BootRefresh
  BY <1>8, QuietStep DEF BootRefresh, BeforeRestored
<1> QED
  BY <1>1, <1>2, <1>3, <1>4, <1>5, <1>6, <1>7, <1>8 DEF Boot

\* A snapshot is taken: it has the holders, and whoever is to be told of a lease.
LEMMA SnapshotHolders ==
    ASSUME TypeOK', LeaseInv', HolderInv, ~BeforeRestored, pc' \in {"save", "reclaim_save"},
           UNCHANGED <<phase, told, db, removes, loaded, fresh>>, snap' = RowsOf(leases'),
           \A w \in Workflows : phase[w] = "holding" => w \in leases'[told[w]],
           pc' = "save" => target' \in Workflows /\ tprof' \in Profiles
                           /\ target' \in leases'[tprof']
    PROVE  HolderInv'
<1>1. leases' \in [Profiles -> SUBSET Requesters] /\ Workflows \subseteq Requesters
  BY WorkflowIsNoOwner DEF TypeOK
<1>2. \A w \in Workflows, p, q \in Profiles : w \in leases'[p] /\ w \in leases'[q] => p = q
  BY <1>1 DEF LeaseInv, WorkflowsOnOne
<1>3. \A w \in Workflows, p \in Profiles : w \in leases'[p] => snap'[w] = p
  BY <1>1, <1>2, RowOfLease
<1>4. \A w \in Workflows : phase[w] = "holding" => told[w] \in Profiles
  BY DEF HolderInv, ToldIsHolding, WorkflowsKnow
<1>5. HoldersAreKept'
  BY <1>3, <1>4 DEF HolderInv, HoldersAreKept, HolderIsKept, BeforeRestored
<1>6. ToldTruly'
  BY <1>3 DEF ToldTruly
<1>7. ToldIsHolding' /\ RemovedIsReleased' /\ LoadedIsStored' /\ RestoresAreFresh'
  BY DEF HolderInv, ToldIsHolding, WorkflowsKnow, RemovedIsReleased, LoadedIsStored, RestoresAreFresh, Live,
         BeforeRestored
<1> QED
  BY <1>5, <1>6, <1>7 DEF HolderInv

\* The save of a snapshot ends, whether it has replaced the table or not.
LEMMA SavedHolders ==
    ASSUME LeaseInv, HolderInv, pc \in {"save", "reclaim_save"},
           pc' \in {"signal", "drain", "prep"}, db' \in {db, snap},
           UNCHANGED <<phase, told, leases, removes, loaded, fresh>>,
           pc' = "signal" => pc = "save" /\ db' = snap /\ UNCHANGED <<target, tprof>>
    PROVE  HolderInv'
<1>1. \A w \in Workflows : loaded[w] = None
  BY WorkflowIsNoOwner DEF LeaseInv, LoadedOnlyAtBoot, NoRows
<1>2. HoldersAreKept'
  BY DEF HolderInv, HoldersAreKept, HolderIsKept, BeforeRestored
<1>3. ToldTruly'
  BY DEF HolderInv, ToldTruly, Live
<1>4. ToldIsHolding' /\ RemovedIsReleased' /\ LoadedIsStored' /\ RestoresAreFresh'
  BY <1>1 DEF HolderInv, ToldIsHolding, WorkflowsKnow, RemovedIsReleased, LoadedIsStored, RestoresAreFresh,
              Live, BeforeRestored
<1> QED
  BY <1>2, <1>3, <1>4 DEF HolderInv

\* The main loop: nothing it does takes a running holder's lease or row.
LEMMA LoopHolders ==
    ASSUME SignalProtocol, TypeOK, TypeOK', LeaseInv, LeaseInv', HolderInv, Loop
    PROVE  HolderInv'
<1> USE DEF mainVars, queueVars, ledgerVars, policyVars, flagVars, callVars, clientVars
<1>1. CASE LoopExit
  BY <1>1, StopHolders DEF LoopExit
<1>2. CASE LoopTop
  BY <1>2, QuietStep DEF LoopTop, BeforeRestored
<1>3. CASE Refreshed
  BY <1>3, QuietStep DEF Refreshed, BeforeRestored
<1>4. CASE RefreshFailed
  BY <1>4, QuietStep DEF RefreshFailed, BeforeRestored
<1>5. CASE Wake
  BY <1>5, QuietStep DEF Wake, BeforeRestored
<1>6. CASE BeginDrain
  BY <1>6, QuietStep DEF BeginDrain, BeforeRestored
<1>7. CASE Ordered
  BY <1>7, QuietStep DEF Ordered, BeforeRestored
<1>8. \A q \in Payloads : q.req \in Workflows
  BY RequestAssumption
<1>9. ~BeforeRestored => \A w \in Workflows : phase[w] = "holding" =>
                            told[w] \in Profiles /\ w \in leases[told[w]]
  BY DEF HolderInv, ToldIsHolding, WorkflowsKnow, HoldersAreKept, HolderIsKept
<1>10. ASSUME NEW q \in Payloads, DrainExisting(q) PROVE HolderInv'
  <2>1. /\ UNCHANGED <<phase, told, db, removes, loaded, fresh, leases>> /\ pc = "drain"
        /\ pc' = "save" /\ snap' = RowsOf(leases')
        /\ target' = q.req /\ tprof' = ProfileIdForLease(q.req)
    BY <1>10 DEF DrainExisting
  <2>2. tprof' \in Profiles /\ target' \in leases'[tprof']
    BY <1>10, <2>1, LeaseFound DEF DrainExisting
  <2> QED
    BY <1>8, <1>9, <2>1, <2>2, SnapshotHolders DEF BeforeRestored
<1>11. ASSUME NEW q \in Payloads, DrainKeep(q) PROVE HolderInv'
  BY <1>11, QuietStep DEF DrainKeep
<1>12. ASSUME NEW q \in Payloads, NEW p \in Profiles, DrainGrant(q, p) PROVE HolderInv'
  <2>1. /\ UNCHANGED <<phase, told, db, removes, loaded, fresh>> /\ pc = "drain"
        /\ pc' = "save" /\ snap' = RowsOf(leases') /\ target' = q.req /\ tprof' = p
        /\ leases' = Reserve(leases, q.req, p)
    BY <1>12 DEF DrainGrant
  <2>2. q.req \in leases'[p] /\ \A w, x : x \in Profiles /\ w \in leases[x] => w \in leases'[x]
    BY <2>1 DEF Reserve, TypeOK
  <2> QED
    BY <1>8, <1>9, <2>1, <2>2, SnapshotHolders DEF BeforeRestored
<1>13. CASE DrainSaved
  BY <1>13, SavedHolders DEF DrainSaved
<1>14. CASE DrainSaveFailed
  BY <1>14, SavedHolders DEF DrainSaveFailed, Visited
<1>15. ASSUME UNCHANGED <<db, leases, removes, loaded, fresh, snap>>,
              pc = "signal", pc' = "drain", SlotAssigned(target, tprof)
       PROVE  HolderInv'
  <2>1. /\ UNCHANGED <<db, leases, removes, loaded, fresh, snap>>
        /\ pc = "signal" /\ pc' = "drain" /\ SlotAssigned(target, tprof)
    BY <1>15
  <2>2. /\ target \in Workflows /\ tprof \in Profiles
        /\ Live(target) => target \in leases[tprof] /\ db[target] = tprof
    BY <2>1 DEF HolderInv, ToldTruly
  <2>3. /\ \A w \in Workflows \ {target} : phase'[w] = phase[w] /\ told'[w] = told[w]
        /\ \A o \in Owners : told'[o] = told[o]
        /\ \/ phase'[target] = phase[target] /\ told'[target] = told[target]
              /\ phase[target] # "holding"
           \/ phase[target] \in {"waiting", "holding"} /\ phase'[target] = "holding"
              /\ told'[target] = tprof
        /\ \A w \in Workflows : Live(w)' <=> Live(w)
    BY <2>1, <2>2, TellHolders
  <2>4. ToldIsHolding'
    BY <2>2, <2>3 DEF HolderInv, ToldIsHolding, WorkflowsKnow
  <2>5. RemovedIsReleased' /\ LoadedIsStored' /\ ToldTruly' /\ RestoresAreFresh'
    BY <2>1, <2>3 DEF HolderInv, RemovedIsReleased, LoadedIsStored, ToldTruly,
                      RestoresAreFresh, BeforeRestored
  <2>6. HoldersAreKept'
    BY <2>1, <2>2, <2>3 DEF HolderInv, HoldersAreKept, HolderIsKept, Live, BeforeRestored
  <2> QED
    BY <2>1, <2>4, <2>5, <2>6 DEF HolderInv
<1>s. CASE DrainSignalled
  BY <1>15, <1>s DEF DrainSignalled, Visited
<1>16. CASE DrainSignalFailed
  <2>1. CASE UNCHANGED clientVars
    BY <1>16, <2>1, QuietStep DEF DrainSignalFailed, Visited, BeforeRestored
  <2>2. CASE SlotAssigned(target, tprof)
    BY <1>15, <1>16, <2>2 DEF DrainSignalFailed, Visited
  <2> QED
    BY <1>16, <2>1, <2>2 DEF DrainSignalFailed
<1>17. CASE FirstDrainEnd
  <2>1. PICK gone \in SUBSET Evictable :
          /\ leases' = ReleaseAll(leases, gone)
          /\ IF gone # {} THEN pc' = "evict_save" ELSE ThenVerify(leases, remaining)
    BY <1>17 DEF FirstDrainEnd
  <2>2. gone = {}
    BY <2>1 DEF SignalProtocol, Evictable
  <2>3. leases' = leases /\ pc' \in {"verify", "prep"}
    BY <2>1, <2>2 DEF ReleaseAll, TypeOK, ThenVerify
  <2> QED
    BY <1>17, <2>3, QuietStep DEF FirstDrainEnd, BeforeRestored
<1>18. CASE EvictionSaved
  BY <1>18 DEF EvictionSaved, HolderInv
<1>19. ASSUME NEW terminal \in SUBSET NotRunning, Verified(terminal) PROVE HolderInv'
  <2>1. /\ UNCHANGED <<phase, told, db, removes, loaded, fresh>> /\ pc = "verify"
        /\ leases' = ReleaseAll(leases, Reclaimable(terminal))
        /\ \/ Reclaimable(terminal) # {} /\ pc' = "reclaim_save" /\ snap' = RowsOf(leases')
           \/ Reclaimable(terminal) = {} /\ pc' = "prep"
    BY <1>19 DEF Verified
  <2>2. CASE Reclaimable(terminal) = {}
    <3>1. leases' = leases
      BY <2>1, <2>2 DEF ReleaseAll, TypeOK
    <3> QED
      BY <2>1, <2>2, <3>1, QuietStep DEF BeforeRestored
  <2>3. CASE Reclaimable(terminal) # {}
    <3>1. \A w \in Workflows : phase[w] = "holding" => w \notin Reclaimable(terminal)
      BY WorkflowIsNoOwner, RequesterAssumption DEF Reclaimable, NotRunning, Dead, Requesters
    <3>2. \A w \in Workflows : phase[w] = "holding" => w \in leases'[told[w]]
      BY <1>9, <2>1, <3>1 DEF ReleaseAll, BeforeRestored
    <3> QED
      BY <2>1, <2>3, <3>2, SnapshotHolders DEF BeforeRestored
  <2> QED
    BY <2>2, <2>3
<1>20. CASE VerifyFailed
  BY <1>20, QuietStep DEF VerifyFailed, BeforeRestored
<1>21. CASE ReclaimSaved
  BY <1>21, SavedHolders DEF ReclaimSaved, Saved
<1>22. CASE SecondDrainEnd
  BY <1>22, QuietStep DEF SecondDrainEnd, BeforeRestored
<1>23. CASE ContinueAsNew
  <2>1. /\ UNCHANGED <<phase, told, leases, removes, loaded, snap, target, tprof>>
        /\ pc = "drain" /\ pc' \in {"boot_refresh", "boot_profiles"} /\ fresh' = FALSE
        /\ db' \in {db} \cup SavesInFlight
    BY <1>23 DEF ContinueAsNew
  <2>2. db' = db
    BY <2>1, StoppedTable
  <2> QED
    BY <2>1, <2>2 DEF HolderInv, ToldIsHolding, WorkflowsKnow, RemovedIsReleased, HoldersAreKept,
      HolderIsKept, LoadedIsStored, ToldTruly, RestoresAreFresh, Live, BeforeRestored
<1> QED
  BY <1>1, <1>2, <1>3, <1>4, <1>5, <1>6, <1>7, <1>10, <1>11, <1>12, <1>13, <1>14, <1>s,
     <1>16, <1>17, <1>18, <1>19, <1>20, <1>21, <1>22, <1>23 DEF Loop

\* HolderInv is inductive relative to TypeOK and LeaseInv.
LEMMA NextHolders ==
    ASSUME SignalProtocol, TypeOK, LeaseInv, HolderInv, [Next]_vars
    PROVE  HolderInv'
<1>1. TypeOK' /\ LeaseInv'
  BY NextType, NextLease
<1>2. CASE UNCHANGED vars
  BY <1>2, QuietStep DEF vars, mainVars, ledgerVars, clientVars
<1>3. CASE \E c \in Calls : Update(c)
  BY <1>3 DEF SignalProtocol
<1> QED
  BY <1>1, <1>2, <1>3, SignalsHolders, OutsideHolders, BootHolders, LoopHolders DEF Next

\* Nobody holds anything before the first execution.
LEMMA InitHolders ==
    ASSUME Init
    PROVE  HolderInv
<1>1. /\ pc = "down" /\ fresh = TRUE /\ loaded = NoRows /\ removes = {}
      /\ told = NoRows /\ phase = [w \in Workflows |-> "new"]
  BY DEF Init
<1>2. /\ \A r \in Requesters : told[r] = None /\ loaded[r] = None
      /\ \A w \in Workflows : w \in Requesters /\ phase[w] = "new"
      /\ Owners \subseteq Requesters
  BY <1>1, WorkflowIsNoOwner DEF NoRows, Requesters
<1> QED
  BY <1>1, <1>2 DEF HolderInv, ToldIsHolding, WorkflowsKnow, RemovedIsReleased, HoldersAreKept,
    HolderIsKept, LoadedIsStored, ToldTruly, RestoresAreFresh, Live, BeforeRestored

\* A workflow that uses a profile is in phase "holding".
LEMMA WorkflowHolds ==
    ASSUME WorkflowsKnow, NEW p \in Profiles, NEW w \in Workflows, w \in HoldersOf(p)
    PROVE  phase[w] = "holding" /\ told[w] = p
<1>1. told[w] = p /\ Alive(w) /\ p # None
  BY SelectionNoneAssumption DEF HoldersOf
<1>2. phase[w] \in {"holding", "dead"}
  BY <1>1 DEF WorkflowsKnow
<1>3. phase[w] # "dead"
  BY <1>1, WorkflowIsNoOwner DEF Alive, Dead
<1> QED
  BY <1>1, <1>2, <1>3

\* The running holders of a profile are workflows in phase "holding".
LEMMA HoldersHold ==
    ASSUME TypeOK, ToldIsHolding, NEW p \in Profiles, NEW r \in HoldersOf(p)
    PROVE  r \in Workflows /\ phase[r] = "holding" /\ told[r] = p
<1>1. r \in Requesters /\ told[r] = p /\ p # None
  BY SelectionNoneAssumption DEF HoldersOf
<1>2. r \in Workflows
  BY <1>1 DEF ToldIsHolding, Requesters
<1> QED
  BY <1>2, WorkflowHolds DEF ToldIsHolding

-----------------------------------------------------------------------------
(* The theorems                                                            *)

\* HolderInv is an invariant where leases are asked for by signals only.
LEMMA HoldersInvariant ==
    ASSUME SignalProtocol
    PROVE  Spec => [](TypeOK /\ LeaseInv /\ HolderInv)
<1>1. Init => TypeOK /\ LeaseInv /\ HolderInv
  BY InitType, InitLease, InitHolders
<1>2. TypeOK /\ LeaseInv /\ HolderInv /\ [Next]_vars => (TypeOK /\ LeaseInv /\ HolderInv)'
  BY NextType, NextLease, NextHolders
<1> QED
  BY <1>1, <1>2, PTL DEF Spec

\* Past startup, whoever uses a profile has its lease in the manager's ledger: a
\* reclaim, a refresh, a restart, a late commit or continue-as-new never gives the slot
\* of a running holder to somebody else.  Where leases are asked for by signals only.
THEOREM HoldersStayInLedger ==
    ASSUME SignalProtocol
    PROVE  Spec => []HoldersInLedger
<1>1. TypeOK /\ LeaseInv /\ HolderInv => HoldersInLedger
  <2> SUFFICES ASSUME TypeOK, HolderInv, pc \notin Booting \cup {"down"},
                      NEW p \in Profiles, NEW r \in HoldersOf(p)
               PROVE  r \in leases[p]
    BY DEF HoldersInLedger
  <2>1. ~BeforeRestored
    BY DEF BeforeRestored, Booting
  <2> QED
    BY <2>1, HoldersHold DEF HolderInv, HoldersAreKept, HolderIsKept
<1> QED
  BY <1>1, HoldersInvariant, PTL

\* "Never signal a consumer before its lease is durable": at every moment, startup and
\* the time between two executions included, the lease table has the row of every
\* running holder.  Where leases are asked for by signals only.
THEOREM HoldersStayDurable ==
    ASSUME SignalProtocol
    PROVE  Spec => []HoldersAreDurable
<1>1. TypeOK /\ LeaseInv /\ HolderInv => HoldersAreDurable
  <2> SUFFICES ASSUME TypeOK, HolderInv, NEW p \in Profiles, NEW r \in HoldersOf(p)
               PROVE  db[r] = p
    BY DEF HoldersAreDurable
  <2> QED
    BY HoldersHold DEF HolderInv, HoldersAreKept, HolderIsKept
<1> QED
  BY <1>1, HoldersInvariant, PTL

\* What the capacity and the holder invariants say together.
LEMMA DurableHoldersFit ==
    TypeOK /\ CapInv /\ HolderInv =>
        \A p \in Profiles : Cardinality(HoldersOf(p)) <= InitialCatalogue.cap[p]
<1> SUFFICES ASSUME TypeOK, CapInv, HolderInv, NEW p \in Profiles
             PROVE  Cardinality(HoldersOf(p)) <= InitialCatalogue.cap[p]
  OBVIOUS
<1>1. HoldersOf(p) \in SUBSET RowsFor(db, p)
  <2> SUFFICES ASSUME NEW r \in HoldersOf(p) PROVE r \in RowsFor(db, p)
    OBVIOUS
  <2>1. r \in Workflows /\ phase[r] = "holding" /\ told[r] = p
    BY HoldersHold DEF HolderInv
  <2>2. db[r] = p
    BY <2>1 DEF HolderInv, HoldersAreKept, HolderIsKept
  <2> QED
    BY <2>1, <2>2, WorkflowIsNoOwner DEF RowsFor
<1>2. RowsFor(db, p) \in SUBSET Requesters
  BY DEF RowsFor
<1>3. Cardinality(RowsFor(db, p)) <= InitialCatalogue.cap[p]
  BY DEF CapInv, TablesFit, Fits
<1> QED
  BY <1>1, <1>2, <1>3, CapType, PartFits

\* The same after a step.
LEMMA DurableHoldersFitNext ==
    (TypeOK /\ CapInv /\ HolderInv =>
        \A p \in Profiles : Cardinality(HoldersOf(p)) <= InitialCatalogue.cap[p])'
BY DurableHoldersFit, PTL

\* The invariants together, where moreover the capacities are not edited.
LEMMA CapacityAndHolders ==
    ASSUME SignalProtocol, SteadyEnvironment
    PROVE  Spec => [](TypeOK /\ LeaseInv /\ CapInv /\ HolderInv)
<1>1. Init => TypeOK /\ LeaseInv /\ CapInv /\ HolderInv
  BY InitType, InitLease, InitCapacity, InitHolders
<1>2. TypeOK /\ LeaseInv /\ CapInv /\ HolderInv /\ [Next]_vars
         => (TypeOK /\ LeaseInv /\ CapInv /\ HolderInv)'
  BY NextType, NextLease, NextCapacity, NextHolders
<1> QED
  BY <1>1, <1>2, PTL DEF Spec

\* A credential is never used by more running holders than its capacity, at any moment
\* and across restarts of the manager.  Where leases are asked for by signals only and
\* the capacities are not edited.
THEOREM UsersStayWithinCapacity ==
    ASSUME SignalProtocol, SteadyEnvironment
    PROVE  Spec => []HoldersWithinCapacity
<1>1. TypeOK /\ LeaseInv /\ CapInv /\ HolderInv => HoldersWithinCapacity
  BY DurableHoldersFit DEF CapInv, CapacitiesKnown, HoldersWithinCapacity
<1> QED
  BY <1>1, CapacityAndHolders, PTL

-----------------------------------------------------------------------------
(* The refinement of the lease contract                                    *)

\* What the contract sees of the manager
Using == [r \in Requesters |-> IF Alive(r) THEN told[r] ELSE None]

\* Who is about to be told of a lease holds nothing, or what it is told.
TellsTruly ==
    pc \in {"signal", "boot_signal"} /\ target \in Workflows /\ phase[target] \in {"waiting", "holding"} =>
        tprof \in Profiles /\ (phase[target] = "holding" => told[target] = tprof)

\* An owner knows of no profile but its target.
OwnersKnow == \A o \in Owners : told[o] \in {None, Target[o]}

\* What the refinement needs of the state: clients know what they were told.
ClientsKnow == WorkflowsKnow /\ OwnersKnow /\ TellsTruly

\* The users fit after the step.
UsersFit == \A p \in Profiles : Cardinality(HoldersOf(p)) <= InitialCatalogue.cap[p]

\* What is used is what is told to a requester whose workflow is not dead, before and
\* after a step.
LEMMA UsingIs ==
    /\ Using = [r \in Requesters |-> Using[r]]
    /\ Using' = [r \in Requesters |-> Using'[r]]
    /\ \A r \in Requesters : /\ Using[r] = IF Alive(r) THEN told[r] ELSE None
                             /\ Using'[r] = IF Alive(r)' THEN told'[r] ELSE None
    /\ \A r \in Requesters :
          /\ Alive(r) <=> (OwnerWorkflow(r) \in Workflows => phase[OwnerWorkflow(r)] # "dead")
          /\ Alive(r)' <=> (OwnerWorkflow(r) \in Workflows => phase'[OwnerWorkflow(r)] # "dead")
<1>1. \A r \in Requesters :
         /\ Alive(r) <=> (OwnerWorkflow(r) \in Workflows => phase[OwnerWorkflow(r)] # "dead")
         /\ Alive(r)' <=> (OwnerWorkflow(r) \in Workflows => phase'[OwnerWorkflow(r)] # "dead")
  BY DEF Alive, Dead, OwnerWorkflow
<1> QED
  BY <1>1 DEF Using

\* A step after which every requester uses what it did is a stutter.
LEMMA SameUse ==
    ASSUME \A r \in Requesters : Using'[r] = Using[r]
    PROVE  [Contract!Next]_Using
<1>1. Using' = Using
  BY UsingIs
<1> QED
  BY <1>1

\* Some requesters use something no more: an End of the contract.
LEMMA UseEnds ==
    ASSUME NEW Out \in SUBSET Requesters,
           \A r \in Requesters : Using'[r] = IF r \in Out THEN None ELSE Using[r]
    PROVE  [Contract!Next]_Using
<1>1. PICK S \in SUBSET Out : S = {r \in Out : Using[r] # None}
  OBVIOUS
<1>2. S \in SUBSET Requesters /\ S \subseteq {r \in Requesters : Using[r] # None}
  BY <1>1
<1>3. \A r \in Requesters : Using'[r] = IF r \in S THEN None ELSE Using[r]
  BY <1>1
<1>4. Using' = [r \in Requesters |-> IF r \in S THEN None ELSE Using[r]]
  BY <1>3, UsingIs
<1>5. Contract!End(S)
  BY <1>2, <1>4 DEF Contract!End, Using
<1> QED
  BY <1>2, <1>5 DEF Contract!Next

\* One requester that used nothing uses p: an Acquire of the contract, for the holders
\* fit also after the step.
LEMMA UseBegins ==
    ASSUME NEW u \in Requesters, NEW p \in Profiles, Using[u] = None,
           \A r \in Requesters : Using'[r] = IF r = u THEN p ELSE Using[r],
           Cardinality(HoldersOf(p)') <= InitialCatalogue.cap[p]
    PROVE  [Contract!Next]_Using
<1>1. Using' = [Using EXCEPT ![u] = p]
  BY UsingIs
<1> DEFINE U == {r \in Requesters : Using[r] = p}
<1>2. HoldersOf(p)' = U \cup {u} /\ u \notin U
  <2>1. p # None
    BY SelectionNoneAssumption
  <2>2. \A r \in Requesters : (told'[r] = p /\ Alive(r)') <=> Using'[r] = p
    BY <2>1, UsingIs
  <2>3. {r \in Requesters : told'[r] = p /\ Alive(r)'} = U \cup {u}
    BY <2>2
  <2> QED
    BY <2>1, <2>3 DEF HoldersOf
<1>3. IsFiniteSet(U) /\ Cardinality(U) \in Nat
  BY FinitelyMany
<1>4. Cardinality(U \cup {u}) = Cardinality(U) + 1
  BY <1>2, <1>3, FS_AddElement
<1>5. Cardinality(U \cup {u}) <= InitialCatalogue.cap[p]
  BY <1>2
<1>6. Contract!UsersOf(p) = U
  BY DEF Contract!UsersOf, Using
<1>7. Contract!Cardinality(U) = Cardinality(U)
  BY DEF Contract!Cardinality, Cardinality
<1>8. Cardinality(U) < InitialCatalogue.cap[p]
  BY <1>3, <1>4, <1>5, CapType
<1>9. Contract!Acquire(u, p)
  BY <1>1, <1>6, <1>7, <1>8 DEF Contract!Acquire, Using
<1> QED
  BY <1>9 DEF Contract!Next

\* A workflow is told of its lease: it acquires it if it waited.
LEMMA TellImplements ==
    ASSUME TypeOK, ClientsKnow, UsersFit', pc \in {"signal", "boot_signal"},
           SlotAssigned(target, tprof)
    PROVE  [Contract!Next]_Using
<1>1. CASE told' = told /\ phase' = phase
  <2>1. \A r \in Requesters : Using'[r] = Using[r]
    BY <1>1, UsingIs
  <2> QED
    BY <2>1, SameUse
<1>2. CASE ~(told' = told /\ phase' = phase)
  <2>1. target \in Workflows /\ phase[target] \in {"waiting", "holding"}
    BY <1>2 DEF SlotAssigned
  <2>2. tprof \in Profiles /\ (phase[target] = "holding" => told[target] = tprof)
    BY <2>1 DEF ClientsKnow, TellsTruly
  <2>3. PICK w \in Workflows, p \in Profiles : w = target /\ p = tprof
    BY <2>1, <2>2
  <2>4. w \in Requesters /\ OwnerWorkflow(w) = w
    BY WorkflowIsNoOwner
  <2>5. told' = [told EXCEPT ![w] = p] /\ phase' = [phase EXCEPT ![w] = "holding"]
    BY <2>1, <2>3 DEF SlotAssigned, TypeOK
  <2>6. /\ \A r \in Requesters : told'[r] = IF r = w THEN p ELSE told[r]
        /\ \A v \in Workflows : phase'[v] = IF v = w THEN "holding" ELSE phase[v]
    BY <2>4, <2>5 DEF TypeOK, Rows
  <2>7. \A r \in Requesters : Alive(r)' <=> Alive(r)
    BY <2>1, <2>3, <2>6, UsingIs
  <2>8. \A r \in Requesters : Using'[r] = IF r = w THEN p ELSE Using[r]
    BY <2>1, <2>3, <2>4, <2>6, <2>7, UsingIs
  <2>9. phase[w] = "waiting" => Using[w] = None
    BY <2>4, UsingIs DEF ClientsKnow, WorkflowsKnow
  <2>10. phase[w] = "holding" => Using[w] = p
    BY <2>2, <2>3, <2>4, UsingIs
  <2>11. CASE phase[w] = "waiting"
    BY <2>4, <2>8, <2>9, <2>11, UseBegins DEF UsersFit
  <2>12. CASE phase[w] = "holding"
    BY <2>8, <2>10, <2>12, SameUse
  <2> QED
    BY <2>1, <2>3, <2>11, <2>12
<1> QED
  BY <1>1, <1>2

\* A step that leaves the clients alone is a stutter of the contract.
LEMMA ClientsAlone ==
    ASSUME UNCHANGED clientVars
    PROVE  [Contract!Next]_Using
<1>1. \A r \in Requesters : Using'[r] = Using[r]
  BY UsingIs DEF clientVars
<1> QED
  BY <1>1, SameUse

\* A signal of the clients: a release is an End.
LEMMA SignalsImplement ==
    ASSUME TypeOK, Signals
    PROVE  [Contract!Next]_Using
<1>1. ASSUME NEW q \in Payloads, RequestSlot(q) PROVE [Contract!Next]_Using
  <2>1. /\ told' = told /\ phase[q.req] # "dead"
        /\ phase' = [phase EXCEPT ![q.req] = IF @ = "holding" THEN @ ELSE "waiting"]
        /\ phase \in [Workflows -> {"new", "waiting", "holding", "released", "dead"}]
    BY <1>1 DEF RequestSlot, MayRequest, TypeOK
  <2>2. \A w \in Workflows : phase'[w] = "dead" <=> phase[w] = "dead"
    BY <2>1
  <2>3. \A r \in Requesters : Using'[r] = Using[r]
    BY <2>1, <2>2, UsingIs
  <2> QED
    BY <2>3, SameUse
<1>2. ASSUME NEW w \in Workflows, NEW handoff \in BOOLEAN, WorkflowRelease(w, handoff)
      PROVE  [Contract!Next]_Using
  <2>1. /\ phase' = [phase EXCEPT ![w] = "released"] /\ told' = [told EXCEPT ![w] = None]
        /\ phase[w] = "holding" /\ w \in Requesters
    BY <1>2, WorkflowIsNoOwner DEF WorkflowRelease
  <2>2. /\ \A r \in Requesters : told'[r] = IF r = w THEN None ELSE told[r]
        /\ \A v \in Workflows : phase'[v] = "dead" <=> phase[v] = "dead"
    BY <2>1 DEF TypeOK, Rows
  <2>3. \A r \in Requesters : Using'[r] = IF r \in {w} THEN None ELSE Using[r]
    BY <2>2, UsingIs
  <2> QED
    BY <2>1, <2>3, UseEnds
<1>3. ASSUME NEW o \in Owners, OwnerRelease(o) PROVE [Contract!Next]_Using
  <2>1. told' = [told EXCEPT ![o] = None] /\ phase' = phase /\ o \in Requesters
    BY <1>3 DEF OwnerRelease, Requesters
  <2>2. \A r \in Requesters : told'[r] = IF r = o THEN None ELSE told[r]
    BY <2>1 DEF TypeOK, Rows
  <2>3. \A r \in Requesters : Using'[r] = IF r \in {o} THEN None ELSE Using[r]
    BY <2>1, <2>2, UsingIs
  <2> QED
    BY <2>1, <2>3, UseEnds
<1>4. ASSUME UNCHANGED clientVars PROVE [Contract!Next]_Using
  BY <1>4, ClientsAlone
<1>5. CASE \E w \in Workflows : Withdraw(w)
  BY <1>4, <1>5 DEF Withdraw
<1>6. CASE \E p \in Profiles : ReportCooldown(p)
  BY <1>4, <1>6 DEF ReportCooldown
<1>7. CASE SyncProfiles \/ Shutdown
  BY <1>4, <1>7 DEF SyncProfiles, Shutdown
<1> QED
  BY <1>1, <1>2, <1>3, <1>5, <1>6, <1>7 DEF Signals

\* Outside, the end of a workflow is an End: its own, and that of its activities.
LEMMA OutsideImplements ==
    ASSUME TypeOK, Outside
    PROVE  [Contract!Next]_Using
<1>1. ASSUME NEW w \in Workflows, ReleaseLost(w) \/ Terminate(w) PROVE [Contract!Next]_Using
  <2>1. told' = told /\ phase' = [phase EXCEPT ![w] = "dead"]
    BY <1>1 DEF ReleaseLost, Terminate
  <2>2. phase'[w] = "dead" /\ \A v \in Workflows \ {w} : phase'[v] = phase[v]
    BY <2>1 DEF TypeOK
  <2>3. PICK Out \in SUBSET Requesters : Out = {r \in Requesters : OwnerWorkflow(r) = w}
    OBVIOUS
  <2>4. \A r \in Requesters : Using'[r] = IF r \in Out THEN None ELSE Using[r]
    BY <2>1, <2>2, <2>3, UsingIs
  <2> QED
    BY <2>4, UseEnds
<1>2. CASE \E r \in Requesters : RemoveRow(r)
  BY <1>2, ClientsAlone DEF RemoveRow
<1>3. CASE EditProfiles \/ Start
  BY <1>3, ClientsAlone DEF EditProfiles, Start
<1>4. CASE Crash
  BY <1>4, ClientsAlone DEF Crash, Stop
<1> QED
  BY <1>1, <1>2, <1>3, <1>4 DEF Outside

\* During startup, who waits for a lease that is restored acquires it.
LEMMA BootImplements ==
    ASSUME TypeOK, ClientsKnow, UsersFit', Boot
    PROVE  [Contract!Next]_Using
<1>1. CASE BootSignalled
  <2>1. pc = "boot_signal" /\ (UNCHANGED clientVars \/ SlotAssigned(target, tprof))
    BY <1>1 DEF BootSignalled
  <2> QED
    BY <2>1, ClientsAlone, TellImplements
<1>2. CASE BootProfiles \/ LoadRows \/ RowsLoaded \/ RestoreDone \/ BootRefresh
  BY <1>2, ClientsAlone DEF BootProfiles, LoadRows, RowsLoaded, RestoreDone, BootRefresh
<1>3. CASE LoadFailed
  BY <1>3, ClientsAlone DEF LoadFailed, Stop
<1>4. CASE \E r \in Requesters : RestoreRow(r)
  BY <1>4, ClientsAlone DEF RestoreRow
<1> QED
  BY <1>1, <1>2, <1>3, <1>4 DEF Boot

\* In the loop, who is told of a granted lease acquires it.
LEMMA LoopImplements ==
    ASSUME TypeOK, ClientsKnow, UsersFit', Loop
    PROVE  [Contract!Next]_Using
<1>1. CASE DrainSignalled
  BY <1>1, TellImplements DEF DrainSignalled
<1>2. CASE LoopExit
  BY <1>2, ClientsAlone DEF LoopExit, Stop
<1>3. CASE LoopTop \/ Refreshed \/ RefreshFailed \/ Wake \/ BeginDrain \/ Ordered
  BY <1>3, ClientsAlone DEF LoopTop, Refreshed, RefreshFailed, Wake, BeginDrain, Ordered
<1>4. CASE \E q \in Payloads : DrainExisting(q) \/ DrainKeep(q)
  BY <1>4, ClientsAlone DEF DrainExisting, DrainKeep
<1>5. CASE \E q \in Payloads, p \in Profiles : DrainGrant(q, p)
  BY <1>5, ClientsAlone DEF DrainGrant
<1>6. CASE DrainSaved \/ DrainSaveFailed
  BY <1>6, ClientsAlone DEF DrainSaved, DrainSaveFailed
<1>f. CASE DrainSignalFailed
  BY <1>f, ClientsAlone, TellImplements DEF DrainSignalFailed
<1>7. CASE FirstDrainEnd \/ SecondDrainEnd \/ EvictionSaved \/ ReclaimSaved
  BY <1>7, ClientsAlone DEF FirstDrainEnd, SecondDrainEnd, EvictionSaved, ReclaimSaved
<1>8. CASE \E terminal \in SUBSET NotRunning : Verified(terminal)
  BY <1>8, ClientsAlone DEF Verified
<1>9. CASE VerifyFailed \/ ContinueAsNew
  BY <1>9, ClientsAlone DEF VerifyFailed, ContinueAsNew
<1> QED
  BY <1>1, <1>2, <1>3, <1>4, <1>5, <1>6, <1>f, <1>7, <1>8, <1>9 DEF Loop

\* An update returns a lease: its owner acquires it, unless it knew of it or is dead.
LEMMA UpdateImplements ==
    ASSUME TypeOK, ClientsKnow, UsersFit', NEW c \in Calls, Update(c)
    PROVE  [Contract!Next]_Using
<1>1. phase' = phase
  BY DEF Update, AcquireSlot, OwnerNotRunning, AcquireHeld, AcquireOrWait, Maintain,
         MaintainHeld, WaitOver, UpdateSaved, UpdateSaveFailed, UpdateFrame
<1>2. told' = told \/ told' = [told EXCEPT ![CallOwner[c]] = Target[CallOwner[c]]]
  BY DEF Update, AcquireSlot, OwnerNotRunning, AcquireHeld, AcquireOrWait, Maintain,
         MaintainHeld, WaitOver, UpdateSaved, UpdateSaveFailed, Return
<1>3. CASE told' = told
  BY <1>1, <1>3, ClientsAlone DEF clientVars
<1>4. CASE told' = [told EXCEPT ![CallOwner[c]] = Target[CallOwner[c]]]
  <2>1. PICK o \in Owners, p \in Profiles : o = CallOwner[c] /\ p = Target[o]
    BY RequesterAssumption
  <2>2. o \in Requesters /\ told[o] \in {None, p}
    BY <2>1 DEF Requesters, ClientsKnow, OwnersKnow
  <2>3. \A r \in Requesters : told'[r] = IF r = o THEN p ELSE told[r]
    BY <1>4, <2>1 DEF TypeOK, Rows
  <2>4. \A r \in Requesters : Alive(r)' <=> Alive(r)
    BY <1>1, UsingIs
  <2>5. CASE told[o] = p \/ ~Alive(o)
    <3>1. \A r \in Requesters : Using'[r] = Using[r]
      BY <2>2, <2>3, <2>4, <2>5, UsingIs
    <3> QED
      BY <3>1, SameUse
  <2>6. CASE told[o] = None /\ Alive(o)
    <3>1. Using[o] = None /\ \A r \in Requesters : Using'[r] = IF r = o THEN p ELSE Using[r]
      BY <2>2, <2>3, <2>4, <2>6, UsingIs
    <3> QED
      BY <2>2, <3>1, UseBegins DEF UsersFit
  <2> QED
    BY <2>2, <2>5, <2>6
<1> QED
  BY <1>2, <1>3, <1>4

\* Every step of the manager is one of the contract.
LEMMA StepImplements ==
    ASSUME TypeOK, ClientsKnow, UsersFit', [Next]_vars
    PROVE  [Contract!Next]_Using
<1>1. CASE UNCHANGED vars
  BY <1>1, ClientsAlone DEF vars
<1> QED
  BY <1>1, SignalsImplement, OutsideImplements, BootImplements, LoopImplements,
     UpdateImplements DEF Next

\* Nobody uses anything before the first execution.
LEMMA InitImplements == Init => Contract!Init
<1> SUFFICES ASSUME Init PROVE Using = [r \in Requesters |-> None]
  BY DEF Contract!Init, Contract!Idle, Using
<1> QED
  BY DEF Init, NoRows, Using

\* Seen by its users the manager with its table, its restarts and its failures is a
\* capacity lease (CredentialLease): a profile is acquired only by who has none and while
\* it has capacity left, and given up only by its user.  Where leases are asked for by
\* signals only and the capacities are not edited.
THEOREM ManagerIsALease ==
    ASSUME SignalProtocol, SteadyEnvironment
    PROVE  Spec => ImplementsCredentialLease
<1> DEFINE Inv == TypeOK /\ LeaseInv /\ CapInv /\ HolderInv
<1>1. Inv /\ Inv' /\ [Next]_vars => [Contract!Next]_Using
  <2> SUFFICES ASSUME Inv, Inv', [Next]_vars PROVE [Contract!Next]_Using
    OBVIOUS
  <2>1. UsersFit'
    BY DurableHoldersFitNext DEF UsersFit
  <2>2. TellsTruly
    BY DEF TellsTruly, HolderInv, ToldTruly, Live, HoldersAreKept, HolderIsKept
  <2>3. ClientsKnow
    BY <2>2 DEF HolderInv, ToldIsHolding, ClientsKnow, OwnersKnow
  <2> QED
    BY <2>1, <2>3, StepImplements
<1> HIDE DEF Inv
<1>2. Spec => []Inv
  BY CapacityAndHolders DEF Inv
<1>3. Spec => Contract!Init /\ [][Contract!Next]_Using
  BY <1>1, <1>2, InitImplements, PTL DEF Spec
<1> QED
  BY <1>3, PTL DEF ImplementsCredentialLease, Contract!Spec, Using

-----------------------------------------------------------------------------
(* Workflows that ask again after they gave a slot back, and activities    *)
(* that ask for leases by updates.  A request, its slot_assigned and the   *)
(* removal of its row are told apart from those of the workflow's next     *)
(* request by their order only.  So here no request is repeated while      *)
(* another is open, no signal is repeated because its failure is ambiguous *)
(* and there is no restart: it tells workflows again, and reads rows that  *)
(* a late removal may have taken.  In the same way the retry of an update  *)
(* shares the lease of the first call, which gives it up when its save     *)
(* fails: here an owner calls once.                                        *)

\* Every owner belongs to a workflow: the lease of an HTTP action names a workflow that
\* does not exist, and the next status check takes it back although the action goes on.
\* Every owner asks once, and a maintained profile is never disabled or deleted: while
\* a call waits for one that is, the profile may be pruned and the lease be taken
\* outside the ledger.
UpdateProtocol ==
    /\ \A o \in Owners : Parent[o] \in Workflows
    /\ \A c, d \in Calls : CallOwner[c] = CallOwner[d] => c = d
    /\ \A c \in Calls, k \in Edits \cup {InitialCatalogue} :
          CallOwner[c] \in Maintenance =>
              Target[CallOwner[c]] \in k.known \cap k.enabled \cap k.ready

ReuseProtocol ==
    /\ UpdateProtocol
    /\ Expirable = {}
    /\ {"rerequest", "withdraw", "signal_failure"} \cap Behaviours = {}
    /\ NoRestart

\* The workflow has a request under way, or had one when it ended.
Asks(w) == phase[w] \in {"waiting", "dead"}

\* A pass over the queue is under way.
Draining == pc \in {"drain", "save", "signal"}

OnePerRequester(queue) == \A x, y \in queue : x.req = y.req => x = y

\* Whoever holds a profile has its lease.
HoldersHaveLeases ==
    \A w \in Workflows : phase[w] = "holding" => ~BeforeRestored /\ w \in leases[told[w]]

\* Whoever is about to be told has not been told yet, and will not be by another visit.
TargetAsks ==
    pc \in {"save", "signal"} =>
        /\ target \in Workflows /\ tprof \in Profiles
        /\ Asks(target)
        /\ phase[target] = "waiting" => target \in leases[tprof]
        /\ \A x \in remaining : x.req # target

\* The requests of a pass are those of waiting or dead workflows, each in one place.
PassAsks ==
    /\ \A x \in todo \cup remaining : Asks(x.req)
    /\ OnePerRequester(todo) /\ OnePerRequester(remaining)
    /\ \A x \in todo, y \in remaining : x.req # y.req
    /\ ~Draining => todo = {} /\ remaining = {}

\* So are those of the queue, but for the time in which a pass works on its copy.
QueueAsks ==
    /\ OnePerRequester(pend)
    /\ ~Draining => \A x \in pend : Asks(x.req)

ReuseInv ==
    /\ pc \notin {"evict_save", "boot_signal"}
    /\ WorkflowsKnow
    /\ HoldersHaveLeases
    /\ TargetAsks
    /\ PassAsks
    /\ QueueAsks

\* A step that moves none of it.
LEMMA QuietReuse ==
    ASSUME ReuseInv, UNCHANGED <<phase, told, leases, pend, todo, remaining>>,
           BeforeRestored' => BeforeRestored,
           \/ UNCHANGED <<pc, target, tprof>>
           \/ pc = "save" /\ pc' = "signal" /\ UNCHANGED <<target, tprof>>
           \/ ~Draining /\ ~Draining' /\ pc' \notin {"evict_save", "boot_signal"}
    PROVE  ReuseInv'
<1>1. WorkflowsKnow' /\ HoldersHaveLeases'
  BY DEF ReuseInv, WorkflowsKnow, HoldersHaveLeases
<1>2. TargetAsks' /\ PassAsks' /\ QueueAsks' /\ pc' \notin {"evict_save", "boot_signal"}
  BY DEF ReuseInv, TargetAsks, PassAsks, QueueAsks, OnePerRequester, Asks, Draining
<1> QED
  BY <1>1, <1>2 DEF ReuseInv

\* A step that moves only what concerns owners.
LEMMA OwnersAside ==
    ASSUME TypeOK, ReuseInv, UNCHANGED <<phase, todo, remaining, pc, fresh, target, tprof>>,
           pend' \subseteq pend,
           \A w \in Workflows : told'[w] = told[w],
           \A w \in Workflows, p \in Profiles : w \in leases[p] => w \in leases'[p],
           \A x \in pend : x \notin pend' => x.req \notin Workflows
    PROVE  ReuseInv'
<1>0. /\ pend \subseteq Payloads /\ \A q \in Payloads : q.req \in Workflows
  BY RequestAssumption DEF TypeOK
<1>1. WorkflowsKnow' /\ HoldersHaveLeases'
  BY DEF ReuseInv, WorkflowsKnow, HoldersHaveLeases, BeforeRestored
<1>2. TargetAsks'
  BY DEF ReuseInv, TargetAsks, Asks
<1>3. PassAsks' /\ QueueAsks'
  BY DEF ReuseInv, PassAsks, QueueAsks, OnePerRequester, Asks, Draining
<1> QED
  BY <1>1, <1>2, <1>3 DEF ReuseInv

\* The queues hold payloads, whose requesters are workflows.
LEMMA QueuesOfPayloads ==
    ASSUME TypeOK
    PROVE  /\ pend \subseteq Payloads /\ todo \subseteq Payloads /\ remaining \subseteq Payloads
           /\ \A q \in Payloads : q.req \in Workflows
BY RequestAssumption DEF TypeOK

\* The signal handlers.
LEMMA SignalsReuse ==
    ASSUME ReuseProtocol, TypeOK, ReuseInv, Signals
    PROVE  ReuseInv'
<1> USE DEF mainVars, queueVars, ledgerVars, policyVars, flagVars, callVars, clientVars
<1>0. /\ pend \subseteq Payloads /\ todo \subseteq Payloads /\ remaining \subseteq Payloads
      /\ \A q \in Payloads : q.req \in Workflows
  BY QueuesOfPayloads
<1>1. ASSUME NEW q \in Payloads, RequestSlot(q) PROVE ReuseInv'
  <2>1. /\ UNCHANGED <<told, leases, todo, remaining, pc, fresh, target, tprof>>
        /\ phase[q.req] \in {"new", "released"}
        /\ phase' = [phase EXCEPT ![q.req] = "waiting"]
        /\ pend' = {x \in pend : x.req # q.req} \cup {q}
    BY <1>1 DEF RequestSlot, MayRequest, ReuseProtocol
  <2>2. /\ phase'[q.req] = "waiting"
        /\ \A w \in Workflows : w # q.req => phase'[w] = phase[w]
    BY <1>0, <2>1 DEF TypeOK
  <2>3. \A w \in Workflows : Asks(w) => w # q.req /\ Asks(w)'
    BY <2>1, <2>2 DEF Asks
  <2>4. WorkflowsKnow' /\ HoldersHaveLeases'
    BY <2>1, <2>2 DEF ReuseInv, WorkflowsKnow, HoldersHaveLeases, BeforeRestored
  <2>5. TargetAsks'
    BY <2>1, <2>2, <2>3 DEF ReuseInv, TargetAsks, Asks
  <2>6. PassAsks'
    BY <1>0, <2>1, <2>3 DEF ReuseInv, PassAsks, OnePerRequester, Draining
  <2>7. QueueAsks'
    BY <1>0, <2>1, <2>2, <2>3 DEF ReuseInv, QueueAsks, OnePerRequester, Draining, Asks
  <2> QED
    BY <2>1, <2>4, <2>5, <2>6, <2>7 DEF ReuseInv
<1>2. ASSUME NEW w \in Workflows, NEW handoff \in BOOLEAN, WorkflowRelease(w, handoff)
      PROVE  ReuseInv'
  <2>1. /\ UNCHANGED <<todo, remaining, pc, fresh, target, tprof>>
        /\ phase[w] = "holding"
        /\ phase' = [phase EXCEPT ![w] = "released"] /\ told' = [told EXCEPT ![w] = None]
        /\ pend' = {x \in pend : x.req # w}
        /\ leases' = IF told[w] = None THEN leases ELSE Release(leases, w, told[w])
    BY <1>2 DEF WorkflowRelease, ReleaseSlot
  <2>2. \A v \in Workflows \ {w}, p \in Profiles : v \in leases[p] => v \in leases'[p]
    BY <2>1 DEF Release, TypeOK
  <2>3. \A v \in Workflows \ {w} : phase'[v] = phase[v] /\ told'[v] = told[v]
    BY <2>1 DEF TypeOK
  <2>4. phase'[w] = "released" /\ told'[w] = None
    BY <2>1, WorkflowIsNoOwner DEF TypeOK, Rows
  <2>5. \A v \in Workflows : Asks(v) => v # w /\ Asks(v)'
    BY <2>1, <2>3 DEF Asks
  <2>6. WorkflowsKnow'
    BY <2>1, <2>3, <2>4, WorkflowIsNoOwner
    DEF ReuseInv, WorkflowsKnow, TypeOK, Rows, Requesters
  <2>7. HoldersHaveLeases'
    BY <2>1, <2>2, <2>3, <2>4 DEF ReuseInv, WorkflowsKnow, HoldersHaveLeases, BeforeRestored
  <2>8. TargetAsks'
    BY <2>1, <2>2, <2>3, <2>5 DEF ReuseInv, TargetAsks
  <2>9. PassAsks'
    BY <1>0, <2>1, <2>5 DEF ReuseInv, PassAsks, OnePerRequester, Draining
  <2>10. QueueAsks'
    BY <1>0, <2>1, <2>5 DEF ReuseInv, QueueAsks, OnePerRequester, Draining
  <2> QED
    BY <2>1, <2>6, <2>7, <2>8, <2>9, <2>10 DEF ReuseInv
<1>3. ASSUME NEW w \in Workflows, Withdraw(w) PROVE ReuseInv'
  BY <1>3 DEF Withdraw, ReuseProtocol
<1>4. ASSUME NEW o \in Owners, OwnerRelease(o) PROVE ReuseInv'
  <2>1. /\ UNCHANGED <<phase, todo, remaining, pc, fresh, target, tprof>>
        /\ pend' = {x \in pend : x.req # o} /\ told' = [told EXCEPT ![o] = None]
        /\ leases' = IF told[o] = None THEN leases ELSE Release(leases, o, told[o])
        /\ told[o] \in Profiles
    BY <1>4 DEF OwnerRelease, ReleaseSlot, TypeOK, Rows, Requesters
  <2>2. \A w \in Workflows : w # o /\ told'[w] = told[w]
    BY <2>1, WorkflowIsNoOwner DEF TypeOK, Rows
  <2>3. \A w \in Workflows, p \in Profiles : w \in leases[p] => w \in leases'[p]
    BY <2>1, <2>2 DEF Release, TypeOK
  <2>4. \A x \in pend : x \notin pend' => x.req \notin Workflows
    BY <2>1, <2>2
  <2> QED
    BY <2>1, <2>2, <2>3, <2>4, OwnersAside
<1>5. ASSUME NEW p \in Profiles, ReportCooldown(p) PROVE ReuseInv'
  BY <1>5, QuietReuse DEF ReportCooldown, BeforeRestored
<1>6. CASE SyncProfiles
  BY <1>6, QuietReuse DEF SyncProfiles, BeforeRestored
<1>7. CASE Shutdown
  BY <1>7 DEF Shutdown, ReuseProtocol, NoRestart
<1> QED
  BY <1>1, <1>2, <1>3, <1>4, <1>5, <1>6, <1>7 DEF Signals

\* The world outside the manager.
LEMMA OutsideReuse ==
    ASSUME ReuseProtocol, TypeOK, ReuseInv, Outside
    PROVE  ReuseInv'
<1> USE DEF mainVars, queueVars, ledgerVars, policyVars, flagVars, callVars, clientVars
<1>0. /\ pend \subseteq Payloads /\ todo \subseteq Payloads /\ remaining \subseteq Payloads
      /\ \A q \in Payloads : q.req \in Workflows
  BY QueuesOfPayloads
<1>1. CASE EditProfiles \/ \E r \in Requesters : RemoveRow(r)
  BY <1>1, QuietReuse DEF EditProfiles, RemoveRow, BeforeRestored
<1>2. ASSUME NEW w \in Workflows, ReleaseLost(w) \/ Terminate(w) PROVE ReuseInv'
  <2>1. /\ UNCHANGED <<told, leases, pend, todo, remaining, pc, fresh, target, tprof>>
        /\ phase' = [phase EXCEPT ![w] = "dead"]
    BY <1>2 DEF ReleaseLost, Terminate
  <2>2. phase'[w] = "dead" /\ \A v \in Workflows \ {w} : phase'[v] = phase[v]
    BY <2>1 DEF TypeOK
  <2>3. \A v \in Workflows : Asks(v) => Asks(v)'
    BY <2>2 DEF Asks
  <2>4. WorkflowsKnow' /\ HoldersHaveLeases'
    BY <2>1, <2>2 DEF ReuseInv, WorkflowsKnow, HoldersHaveLeases, BeforeRestored
  <2>5. TargetAsks'
    BY <2>1, <2>2, <2>3 DEF ReuseInv, TargetAsks
  <2>6. PassAsks' /\ QueueAsks'
    BY <1>0, <2>1, <2>3 DEF ReuseInv, PassAsks, QueueAsks, OnePerRequester, Draining
  <2> QED
    BY <2>1, <2>4, <2>5, <2>6 DEF ReuseInv
<1>3. CASE Crash
  BY <1>3 DEF Crash, ReuseProtocol, NoRestart
<1>4. CASE Start
  BY <1>4, QuietReuse DEF Start, BeforeRestored, Draining
<1> QED
  BY <1>1, <1>2, <1>3, <1>4 DEF Outside

\* Startup, which has nothing to restore.
LEMMA BootReuse ==
    ASSUME ReuseProtocol, TypeOK, NothingToRestore, ReuseInv, Boot
    PROVE  ReuseInv'
<1> USE DEF mainVars, queueVars, ledgerVars, policyVars, flagVars, callVars, clientVars
<1>0. \A r \in Requesters : loaded[r] = None
  BY DEF NothingToRestore, NoRows
<1>1. CASE BootProfiles
  BY <1>1, QuietReuse DEF BootProfiles, AfterBootProfiles, BeforeRestored, Draining
<1>2. CASE LoadRows \/ RowsLoaded
  BY <1>2, QuietReuse DEF LoadRows, RowsLoaded, BeforeRestored, Draining
<1>3. CASE LoadFailed
  BY <1>0, <1>3 DEF LoadFailed, ReuseProtocol, NoRestart
<1>4. ASSUME NEW r \in Requesters, RestoreRow(r) PROVE ReuseInv'
  BY <1>0, <1>4, SelectionNoneAssumption DEF RestoreRow, TypeOK, Catalogues
<1>5. CASE RestoreDone \/ BootRefresh
  BY <1>5, QuietReuse DEF RestoreDone, BootRefresh, BeforeRestored, Draining
<1>6. CASE BootSignalled
  BY <1>6 DEF BootSignalled, ReuseInv
<1> QED
  BY <1>1, <1>2, <1>3, <1>4, <1>5, <1>6 DEF Boot

\* A pass begins with a copy of the queue.
LEMMA CopyReuse ==
    ASSUME ReuseInv, ~Draining, ~BeforeRestored, UNCHANGED <<phase, told, leases, pend>>,
           remaining' = {}, todo' = pend, pc' = "drain"
    PROVE  ReuseInv'
BY DEF ReuseInv, WorkflowsKnow, HoldersHaveLeases, BeforeRestored, TargetAsks, PassAsks,
       QueueAsks, OnePerRequester, Asks, Draining

\* A pass ends: what remained of its copy is the queue.
LEMMA EndReuse ==
    ASSUME ReuseInv, pc = "drain", todo = {}, UNCHANGED <<phase, told, leases, todo>>,
           pend' = remaining, remaining' = {}, ~BeforeRestored', ~Draining',
           pc' \notin {"evict_save", "boot_signal"}
    PROVE  ReuseInv'
BY DEF ReuseInv, WorkflowsKnow, HoldersHaveLeases, TargetAsks, PassAsks,
       QueueAsks, OnePerRequester, Asks, Draining

\* The visit of a request that finds or makes a lease.
LEMMA GrantReuse ==
    ASSUME TypeOK, ReuseInv, pc = "drain", NEW q \in todo, NEW p \in Profiles,
           UNCHANGED <<phase, told, pend, todo, remaining>>,
           \A w, x : x \in Profiles /\ w \in leases[x] => w \in leases'[x],
           pc' = "save", target' = q.req, tprof' = p, q.req \in leases'[p]
    PROVE  ReuseInv'
<1>1. q.req \in Workflows
  BY QueuesOfPayloads
<1>2. WorkflowsKnow' /\ HoldersHaveLeases'
  BY DEF ReuseInv, WorkflowsKnow, HoldersHaveLeases, BeforeRestored
<1>3. TargetAsks'
  BY <1>1 DEF ReuseInv, TargetAsks, PassAsks, Asks
<1>4. PassAsks' /\ QueueAsks'
  BY DEF ReuseInv, PassAsks, QueueAsks, OnePerRequester, Asks, Draining
<1> QED
  BY <1>2, <1>3, <1>4 DEF ReuseInv

\* The end of a visit: the request is kept, or its requester has been told.
LEMMA VisitedReuse ==
    ASSUME TypeOK, ReuseInv, pc \in {"save", "signal"}, NEW kept \in BOOLEAN, Visited(kept),
           UNCHANGED <<leases, pend>>, WorkflowsKnow', HoldersHaveLeases',
           \A w \in Workflows : Asks(w) /\ (kept \/ w # target) => Asks(w)'
    PROVE  ReuseInv'
<1>0. /\ todo \subseteq Payloads /\ remaining \subseteq Payloads
      /\ \A q \in Payloads : q.req \in Workflows
  BY QueuesOfPayloads
<1>1. /\ pc' = "drain" /\ todo' = {q \in todo : q.req # target}
      /\ remaining' = IF kept THEN remaining \cup {q \in todo : q.req = target} ELSE remaining
      /\ \A x \in remaining : x.req # target
  BY DEF Visited, ReuseInv, TargetAsks
<1>2. \A x \in todo' \cup remaining' : Asks(x.req)'
  BY <1>0, <1>1 DEF ReuseInv, PassAsks
<1>3. PassAsks'
  BY <1>1, <1>2 DEF ReuseInv, PassAsks, OnePerRequester, Draining
<1>4. QueueAsks' /\ TargetAsks'
  BY <1>1 DEF ReuseInv, QueueAsks, TargetAsks, OnePerRequester, Draining
<1> QED
  BY <1>1, <1>3, <1>4 DEF ReuseInv

\* The main loop.
LEMMA LoopReuse ==
    ASSUME ReuseProtocol, TypeOK, NothingToRestore, ReuseInv, Loop
    PROVE  ReuseInv'
<1> USE DEF mainVars, queueVars, ledgerVars, policyVars, flagVars, callVars, clientVars
<1>0. /\ pend \subseteq Payloads /\ todo \subseteq Payloads /\ remaining \subseteq Payloads
      /\ \A q \in Payloads : q.req \in Workflows
  BY QueuesOfPayloads
<1>1. CASE LoopExit
  BY <1>1 DEF LoopExit, NothingToRestore
<1>2. CASE LoopTop \/ Refreshed \/ RefreshFailed \/ Wake \/ VerifyFailed \/ ReclaimSaved
  BY <1>2, QuietReuse DEF LoopTop, Refreshed, RefreshFailed, Wake, VerifyFailed, ReclaimSaved,
                          BeforeRestored, Draining
<1>3. CASE BeginDrain
  <2>1. /\ UNCHANGED <<phase, told, leases, pend>> /\ pc = "prep" /\ remaining' = {}
        /\ \/ pc' = "order" /\ todo' = {}
           \/ pc' = "drain" /\ todo' = pend
    BY <1>3 DEF BeginDrain
  <2>2. CASE pc' = "order" /\ todo' = {}
    <3>1. todo = {} /\ remaining = {}
      BY <2>1 DEF ReuseInv, PassAsks, Draining
    <3> QED
      BY <2>1, <2>2, <3>1, QuietReuse DEF BeforeRestored, Draining
  <2>3. CASE pc' = "drain" /\ todo' = pend
    BY <2>1, <2>3, CopyReuse DEF BeforeRestored, Draining
  <2> QED
    BY <2>1, <2>2, <2>3
<1>4. CASE Ordered
  <2>1. /\ UNCHANGED <<phase, told, leases, pend, remaining>> /\ pc = "order" /\ pc' = "drain"
        /\ todo' = pend
    BY <1>4 DEF Ordered
  <2>2. remaining = {}
    BY <2>1 DEF ReuseInv, PassAsks, Draining
  <2> QED
    BY <2>1, <2>2, CopyReuse DEF BeforeRestored, Draining
<1>5. ASSUME NEW q \in Payloads, DrainExisting(q) PROVE ReuseInv'
  <2>1. /\ UNCHANGED <<phase, told, pend, todo, remaining, leases>> /\ pc = "drain"
        /\ q \in todo /\ pc' = "save" /\ target' = q.req /\ tprof' = ProfileIdForLease(q.req)
    BY <1>5 DEF DrainExisting, NextInLine
  <2>2. tprof' \in Profiles /\ q.req \in leases[tprof']
    BY <1>5, <2>1, LeaseFound DEF DrainExisting
  <2>3. PICK p \in Profiles : p = tprof'
    BY <2>2
  <2> QED
    BY <2>1, <2>2, <2>3, GrantReuse
<1>6. ASSUME NEW q \in Payloads, NEW p \in Profiles, DrainGrant(q, p) PROVE ReuseInv'
  <2>1. /\ UNCHANGED <<phase, told, pend, todo, remaining>> /\ pc = "drain"
        /\ q \in todo /\ pc' = "save" /\ target' = q.req /\ tprof' = p
        /\ leases' = Reserve(leases, q.req, p)
    BY <1>6 DEF DrainGrant, NextInLine
  <2>2. q.req \in leases'[p] /\ \A w, x : x \in Profiles /\ w \in leases[x] => w \in leases'[x]
    BY <2>1 DEF Reserve, TypeOK
  <2> QED
    BY <2>1, <2>2, GrantReuse
<1>7. ASSUME NEW q \in Payloads, DrainKeep(q) PROVE ReuseInv'
  <2>1. /\ UNCHANGED <<phase, told, leases, pend, pc, fresh, target, tprof>> /\ pc = "drain"
        /\ q \in todo /\ todo' = todo \ {q} /\ remaining' = remaining \cup {q}
    BY <1>7 DEF DrainKeep, NextInLine
  <2>2. PassAsks'
    BY <2>1 DEF ReuseInv, PassAsks, OnePerRequester, Asks, Draining
  <2> QED
    BY <2>1, <2>2 DEF ReuseInv, WorkflowsKnow, HoldersHaveLeases, BeforeRestored, TargetAsks,
                      QueueAsks, OnePerRequester, Asks, Draining
<1>8. CASE DrainSaved
  BY <1>8, QuietReuse DEF DrainSaved, BeforeRestored
<1>9. CASE DrainSaveFailed \/ DrainSignalFailed
  <2>1. /\ UNCHANGED <<phase, told, leases, pend>> /\ Visited(TRUE) /\ pc \in {"save", "signal"}
        /\ pc' = "drain"
    BY <1>9 DEF DrainSaveFailed, DrainSignalFailed, Visited, ReuseProtocol
  <2>2. WorkflowsKnow' /\ HoldersHaveLeases'
    BY <2>1 DEF ReuseInv, WorkflowsKnow, HoldersHaveLeases, BeforeRestored
  <2>3. \A w \in Workflows : Asks(w) => Asks(w)'
    BY <2>1 DEF Asks
  <2> QED
    BY <2>1, <2>2, <2>3, VisitedReuse
<1>10. CASE DrainSignalled
  <2>1. /\ UNCHANGED <<leases, pend>> /\ Visited(FALSE) /\ pc = "signal" /\ pc' = "drain"
        /\ target \notin Dead /\ SlotAssigned(target, tprof)
    BY <1>10 DEF DrainSignalled, Visited
  <2>2. /\ target \in Workflows /\ tprof \in Profiles
        /\ phase[target] = "waiting" /\ target \in leases[tprof]
    BY <2>1 DEF ReuseInv, TargetAsks, Asks, Dead
  <2>3. /\ \A w \in Workflows \ {target} : phase'[w] = phase[w] /\ told'[w] = told[w]
        /\ \A o \in Owners : told'[o] = told[o]
        /\ \/ phase'[target] = phase[target] /\ told'[target] = told[target]
              /\ phase[target] # "holding"
           \/ phase[target] \in {"waiting", "holding"} /\ phase'[target] = "holding"
              /\ told'[target] = tprof
    BY <2>1, <2>2, TellHolders
  <2>4. WorkflowsKnow'
    BY <2>2, <2>3 DEF ReuseInv, WorkflowsKnow
  <2>5. HoldersHaveLeases'
    BY <2>1, <2>2, <2>3 DEF ReuseInv, HoldersHaveLeases, BeforeRestored
  <2>6. \A w \in Workflows : Asks(w) /\ w # target => Asks(w)'
    BY <2>3 DEF Asks
  <2> QED
    BY <2>1, <2>4, <2>5, <2>6, VisitedReuse
<1>11. CASE FirstDrainEnd
  <2>1. PICK gone \in SUBSET Evictable :
          /\ leases' = ReleaseAll(leases, gone)
          /\ IF gone # {} THEN pc' = "evict_save" ELSE ThenVerify(leases, remaining)
    BY <1>11 DEF FirstDrainEnd
  <2>2. gone = {}
    BY <2>1 DEF ReuseProtocol, Evictable
  <2>3. leases' = leases /\ pc' \in {"verify", "prep"}
    BY <2>1, <2>2 DEF ReleaseAll, TypeOK, ThenVerify
  <2> QED
    BY <1>11, <2>3, EndReuse DEF FirstDrainEnd, BeforeRestored, Draining
<1>12. CASE EvictionSaved
  BY <1>12 DEF EvictionSaved, ReuseInv
<1>13. ASSUME NEW terminal \in SUBSET NotRunning, Verified(terminal) PROVE ReuseInv'
  <2>1. /\ UNCHANGED <<phase, told, todo, remaining>> /\ pc = "verify"
        /\ leases' = ReleaseAll(leases, Reclaimable(terminal))
        /\ pend' = {q \in pend : q.req \notin terminal}
        /\ pc' \in {"reclaim_save", "prep"}
    BY <1>13 DEF Verified
  <2>2. \A w \in Workflows : phase[w] = "holding" => w \notin Reclaimable(terminal)
    BY WorkflowIsNoOwner, RequesterAssumption DEF Reclaimable, NotRunning, Dead, Requesters
  <2>3. HoldersHaveLeases'
    BY <2>1, <2>2 DEF ReuseInv, WorkflowsKnow, HoldersHaveLeases, BeforeRestored, ReleaseAll
  <2>4. WorkflowsKnow' /\ TargetAsks'
    BY <2>1 DEF ReuseInv, WorkflowsKnow, TargetAsks
  <2>5. PassAsks' /\ QueueAsks'
    BY <2>1 DEF ReuseInv, PassAsks, QueueAsks, OnePerRequester, Asks, Draining
  <2> QED
    BY <2>1, <2>3, <2>4, <2>5 DEF ReuseInv
<1>14. CASE SecondDrainEnd
  BY <1>14, EndReuse DEF SecondDrainEnd, BeforeRestored, Draining
<1>15. CASE ContinueAsNew
  BY <1>15, EndReuse DEF ContinueAsNew, BeforeRestored, Draining
<1> QED
  BY <1>1, <1>2, <1>3, <1>4, <1>5, <1>6, <1>7, <1>8, <1>9, <1>10, <1>11, <1>12, <1>13,
     <1>14, <1>15 DEF Loop

\* What an update may change of the ledger: a lease of its owner.
LEMMA UpdateLedger ==
    ASSUME TypeOK, NEW c \in Calls, Update(c)
    PROVE  \/ leases' = leases
           \/ leases' = Reserve(leases, CallOwner[c], Target[CallOwner[c]])
           \/ leases' = Release(leases, CallOwner[c], Target[CallOwner[c]])
BY DEF Update, AcquireSlot, OwnerNotRunning, AcquireHeld, AcquireOrWait, Maintain,
       MaintainOrWait, MaintainHeld, WaitOver, UpdateSaved, UpdateSaveFailed, ledgerVars

\* The updates leave workflows, their requests and their leases alone.
LEMMA UpdateReuse ==
    ASSUME TypeOK, ReuseInv, NEW c \in Calls, Update(c)
    PROVE  ReuseInv'
<1>1. UNCHANGED <<phase, pend, todo, remaining, pc, fresh, target, tprof>>
  BY DEF Update, AcquireSlot, OwnerNotRunning, AcquireHeld, AcquireOrWait, Maintain,
         MaintainHeld, WaitOver, UpdateSaved, UpdateSaveFailed, UpdateFrame, mainVars,
         queueVars
<1>2. told' = told \/ told' = [told EXCEPT ![CallOwner[c]] = Target[CallOwner[c]]]
  BY DEF Update, AcquireSlot, OwnerNotRunning, AcquireHeld, AcquireOrWait, Maintain,
         MaintainHeld, WaitOver, UpdateSaved, UpdateSaveFailed, Return
<1>3. CallOwner[c] \in Owners /\ \A w \in Workflows : w # CallOwner[c]
  BY RequesterAssumption
<1>4. \A w \in Workflows : told'[w] = told[w]
  <2>1. \A w \in Workflows : w \in Requesters
    BY DEF Requesters
  <2>2. told \in [Requesters -> Profiles \cup {None}]
    BY DEF TypeOK, Rows
  <2> QED
    BY <1>2, <1>3, <2>1, <2>2
<1>5. \A w \in Workflows, p \in Profiles : w \in leases[p] => w \in leases'[p]
  BY <1>3, UpdateLedger DEF Reserve, Release, TypeOK
<1> QED
  BY <1>1, <1>4, <1>5, OwnersAside

\* ReuseInv is inductive relative to TypeOK and NothingToRestore.
LEMMA NextReuse ==
    ASSUME ReuseProtocol, TypeOK, NothingToRestore, ReuseInv, [Next]_vars
    PROVE  ReuseInv'
<1>1. CASE UNCHANGED vars
  BY <1>1, QuietReuse DEF vars, mainVars, queueVars, ledgerVars, clientVars, BeforeRestored
<1>2. CASE \E c \in Calls : Update(c)
  BY <1>2, UpdateReuse
<1> QED
  BY <1>1, <1>2, SignalsReuse, OutsideReuse, BootReuse, LoopReuse DEF Next

\* Nobody asks before the first execution, and nothing is in the table.
LEMMA InitReuse ==
    ASSUME Init
    PROVE  NothingToRestore /\ ReuseInv
<1>1. NothingToRestore
  BY DEF Init, NothingToRestore, ActiveCall
<1>2. WorkflowsKnow /\ HoldersHaveLeases
  BY InitHolders DEF Init, HolderInv, ToldIsHolding, HoldersHaveLeases
<1>3. TargetAsks /\ PassAsks /\ QueueAsks
  BY DEF Init, TargetAsks, PassAsks, QueueAsks, OnePerRequester
<1> QED
  BY <1>1, <1>2, <1>3 DEF Init, ReuseInv

-----------------------------------------------------------------------------
(* The owners of activity leases                                           *)

\* A call of o has returned a lease.
Served(o) == \E c \in Calls : CallOwner[c] = o /\ cst[c] \in {"granted", "held"}

\* An owner that was told of a lease was told of its target, by its one call, and has
\* the lease as long as its workflow runs.
OwnersHold ==
    \A o \in Owners : told[o] # None =>
        /\ told[o] = Target[o]
        /\ Served(o)
        /\ Alive(o) => o \in leases[Target[o]]

\* The lease that a call is saving is in the ledger.
SavesLeased ==
    \A c \in Calls : cst[c] = "save" /\ Alive(CallOwner[c]) =>
        CallOwner[c] \in leases[Target[CallOwner[c]]]

\* A profile that a maintenance call waits for is not pruned (a maintenance call
\* verifies nobody; the broader condition is the one a step keeps).
WaitsKnown ==
    \A c \in Calls : cst[c] \in {"verify", "wait"} /\ CallOwner[c] \in Maintenance =>
        Target[CallOwner[c]] \in cat.known

OwnerInv ==
    /\ stored \in Edits \cup {InitialCatalogue}
    /\ OwnersHold
    /\ SavesLeased
    /\ WaitsKnown

\* A step that takes no lease from a living owner and tells none.
LEMMA OwnersKeep ==
    ASSUME OwnerInv, stored' \in Edits \cup {InitialCatalogue},
           \A o \in Owners : told'[o] = told[o],
           \A o \in Owners : Alive(o)' =>
               Alive(o) /\ \A p \in Profiles : o \in leases[p] => o \in leases'[p],
           \A c \in Calls : cst'[c] = cst[c] \/ (cst'[c] = "failed" /\ ActiveCall(c)),
           \A c \in Calls : cst[c] \in {"verify", "wait"} /\ CallOwner[c] \in Maintenance =>
               Target[CallOwner[c]] \in cat'.known
    PROVE  OwnerInv'
<1>1. \A o \in Owners : Target[o] \in Profiles
  BY RequesterAssumption
<1>2. \A c \in Calls : CallOwner[c] \in Owners
  BY RequesterAssumption
<1>3. \A o \in Owners : Served(o) => Served(o)'
  BY DEF Served, ActiveCall
<1>4. OwnersHold'
  BY <1>1, <1>3 DEF OwnerInv, OwnersHold
<1>5. SavesLeased'
  BY <1>1, <1>2 DEF OwnerInv, SavesLeased
<1>6. WaitsKnown'
  BY DEF WaitsKnown
<1> QED
  BY <1>4, <1>5, <1>6 DEF OwnerInv

\* A step that leaves leases, clients and calls alone and forgets no profile.
LEMMA QuietOwners ==
    ASSUME OwnerInv, UNCHANGED <<leases, phase, told, cst>>,
           stored' \in Edits \cup {InitialCatalogue}, cat.known \subseteq cat'.known
    PROVE  OwnerInv'
<1>1. \A o \in Owners : Alive(o)' => Alive(o)
  BY DEF Alive, Dead, OwnerWorkflow
<1>2. \A c \in Calls : cst[c] \in {"verify", "wait"} /\ CallOwner[c] \in Maintenance =>
          Target[CallOwner[c]] \in cat'.known
  BY DEF OwnerInv, WaitsKnown
<1> QED
  BY <1>1, <1>2, OwnersKeep

\* A refresh keeps the profiles that are maintained.
LEMMA RefreshKeepsTargets ==
    ASSUME UpdateProtocol, TypeOK, OwnerInv, NEW c \in Calls, CallOwner[c] \in Maintenance
    PROVE  Target[CallOwner[c]] \in Pruned(AppliedCatalogue).known
<1>1. PICK p \in Profiles : p = Target[CallOwner[c]]
  BY RequesterAssumption
<1>2. p \in stored.known \cap stored.enabled \cap stored.ready
  BY <1>1 DEF UpdateProtocol, OwnerInv
<1>3. p \in ListedProfiles
  BY <1>2 DEF ListedProfiles
<1>4. p \in AppliedCatalogue.known /\ p \in AppliedCatalogue.enabled
  BY <1>2, <1>3 DEF AppliedCatalogue
<1> QED
  BY <1>1, <1>4 DEF Pruned

\* An owner whose call has not returned knows of nothing.
LEMMA UnservedKnowsNothing ==
    ASSUME UpdateProtocol, OwnerInv, NEW c \in Calls, cst[c] \notin {"granted", "held"}
    PROVE  told[CallOwner[c]] = None
<1>1. CallOwner[c] \in Owners
  BY RequesterAssumption
<1>2. ~Served(CallOwner[c])
  BY DEF UpdateProtocol, Served
<1> QED
  BY <1>1, <1>2 DEF OwnerInv, OwnersHold

\* Telling a workflow changes nothing for owners.
LEMMA TellOwners ==
    ASSUME TypeOK, OwnerInv, SlotAssigned(target, tprof), UNCHANGED <<leases, cst, stored, cat>>
    PROVE  OwnerInv'
<1>1. \A w \in Workflows : phase[w] = "dead" => phase'[w] = "dead"
  BY DEF SlotAssigned, TypeOK
<1>2. \A o \in Owners : Alive(o)' => Alive(o)
  BY <1>1, RequesterAssumption DEF Alive, Dead, OwnerWorkflow
<1>3. \A o \in Owners : told'[o] = told[o]
  BY RequesterAssumption DEF SlotAssigned, TypeOK, Rows, Requesters
<1> QED
  BY <1>2, <1>3, OwnersKeep DEF OwnerInv, WaitsKnown

\* The signals: an owner gives up what it was told of.
LEMMA SignalsOwners ==
    ASSUME ReuseProtocol, TypeOK, LeaseInv, OwnerInv, Signals
    PROVE  OwnerInv'
<1> USE DEF mainVars, queueVars, ledgerVars, policyVars, flagVars, callVars, clientVars
<1>0. stored \in Edits \cup {InitialCatalogue}
  BY DEF OwnerInv
<1>w. \A o \in Owners : o \notin Workflows /\ OwnerWorkflow(o) \in Workflows
  BY RequesterAssumption DEF ReuseProtocol, UpdateProtocol, OwnerWorkflow
<1>1. ASSUME NEW q \in Payloads, RequestSlot(q) PROVE OwnerInv'
  <2>1. /\ UNCHANGED <<told, leases, cst, stored, cat>>
        /\ phase[q.req] # "dead"
        /\ phase' = [phase EXCEPT ![q.req] = IF @ = "holding" THEN @ ELSE "waiting"]
    BY <1>1 DEF RequestSlot, MayRequest
  <2>2. \A w \in Workflows : phase'[w] = "dead" <=> phase[w] = "dead"
    BY <2>1 DEF TypeOK
  <2>3. \A o \in Owners : Alive(o)' => Alive(o)
    BY <1>w, <2>2 DEF Alive, Dead, OwnerWorkflow
  <2> QED
    BY <1>0, <2>1, <2>3, OwnersKeep DEF OwnerInv, WaitsKnown
<1>2. ASSUME NEW w \in Workflows, NEW handoff \in BOOLEAN, WorkflowRelease(w, handoff)
      PROVE  OwnerInv'
  <2>1. /\ UNCHANGED <<cst, stored, cat>>
        /\ phase[w] = "holding"
        /\ phase' = [phase EXCEPT ![w] = "released"] /\ told' = [told EXCEPT ![w] = None]
        /\ leases' = IF told[w] = None THEN leases ELSE Release(leases, w, told[w])
    BY <1>2 DEF WorkflowRelease, ReleaseSlot
  <2>2. \A v \in Workflows : phase'[v] = "dead" <=> phase[v] = "dead"
    BY <2>1 DEF TypeOK
  <2>3. \A o \in Owners : Alive(o)' => Alive(o)
    BY <1>w, <2>2 DEF Alive, Dead, OwnerWorkflow
  <2>4. \A o \in Owners : told'[o] = told[o]
    BY <1>w, <2>1 DEF TypeOK, Rows, Requesters
  <2>5. \A o \in Owners, p \in Profiles : o \in leases[p] => o \in leases'[p]
    BY <1>w, <2>1 DEF Release, TypeOK
  <2> QED
    BY <1>0, <2>1, <2>3, <2>4, <2>5, OwnersKeep DEF OwnerInv, WaitsKnown
<1>3. ASSUME NEW w \in Workflows, Withdraw(w) PROVE OwnerInv'
  BY <1>3 DEF Withdraw, ReuseProtocol
<1>4. ASSUME NEW o \in Owners, OwnerRelease(o) PROVE OwnerInv'
  <2>1. /\ UNCHANGED <<phase, cst, stored, cat>> /\ told' = [told EXCEPT ![o] = None]
        /\ leases' = Release(leases, o, told[o]) /\ told[o] # None
    BY <1>4 DEF OwnerRelease, ReleaseSlot
  <2>2. /\ told'[o] = None
        /\ \A x \in Owners : x # o => told'[x] = told[x]
    BY <2>1 DEF TypeOK, Rows, Requesters
  <2>3. \A x \in Owners, p \in Profiles : x # o /\ x \in leases[p] => x \in leases'[p]
    BY <2>1 DEF Release, TypeOK
  <2>4. Served(o)
    BY <2>1 DEF OwnerInv, OwnersHold
  <2>5. \A c \in Calls : cst[c] = "save" => CallOwner[c] # o
    BY <2>4 DEF Served, ReuseProtocol, UpdateProtocol
  <2>6. \A x \in Owners : (Alive(x)' <=> Alive(x)) /\ (Served(x)' <=> Served(x))
    BY <2>1 DEF Alive, Dead, OwnerWorkflow, Served
  <2>7. \A x \in Owners : Target[x] \in Profiles
    BY RequesterAssumption
  <2>8. OwnersHold'
    BY <2>2, <2>3, <2>6, <2>7 DEF OwnerInv, OwnersHold
  <2>9. SavesLeased'
    BY <2>1, <2>3, <2>5, <2>6, <2>7, RequesterAssumption DEF OwnerInv, SavesLeased
  <2>10. WaitsKnown'
    BY <2>1 DEF OwnerInv, WaitsKnown
  <2> QED
    BY <1>0, <2>1, <2>8, <2>9, <2>10 DEF OwnerInv
<1>5. CASE \E p \in Profiles : ReportCooldown(p)
  BY <1>0, <1>5, QuietOwners DEF ReportCooldown
<1>6. CASE SyncProfiles \/ Shutdown
  BY <1>0, <1>6, QuietOwners DEF SyncProfiles, Shutdown
<1> QED
  BY <1>1, <1>2, <1>3, <1>4, <1>5, <1>6 DEF Signals

\* The world outside the manager.
LEMMA OutsideOwners ==
    ASSUME ReuseProtocol, TypeOK, OwnerInv, Outside
    PROVE  OwnerInv'
<1> USE DEF mainVars, queueVars, ledgerVars, policyVars, flagVars, callVars, clientVars
<1>0. stored \in Edits \cup {InitialCatalogue}
  BY DEF OwnerInv
<1>1. CASE EditProfiles \/ Start \/ \E r \in Requesters : RemoveRow(r)
  BY <1>0, <1>1, QuietOwners DEF EditProfiles, RemoveRow, Start
<1>2. ASSUME NEW w \in Workflows, ReleaseLost(w) \/ Terminate(w) PROVE OwnerInv'
  <2>1. /\ UNCHANGED <<told, leases, cst, stored, cat>>
        /\ phase' = [phase EXCEPT ![w] = "dead"]
    BY <1>2 DEF ReleaseLost, Terminate
  <2>2. \A v \in Workflows : phase[v] = "dead" => phase'[v] = "dead"
    BY <2>1 DEF TypeOK
  <2>3. \A o \in Owners : Alive(o)' => Alive(o)
    BY <2>2, RequesterAssumption DEF Alive, Dead, OwnerWorkflow
  <2> QED
    BY <1>0, <2>1, <2>3, OwnersKeep DEF OwnerInv, WaitsKnown
<1>3. CASE Crash
  BY <1>3 DEF Crash, ReuseProtocol, NoRestart
<1> QED
  BY <1>1, <1>2, <1>3 DEF Outside

\* Startup.
LEMMA BootOwners ==
    ASSUME ReuseProtocol, TypeOK, NothingToRestore, OwnerInv, Boot
    PROVE  OwnerInv'
<1> USE DEF mainVars, queueVars, ledgerVars, policyVars, flagVars, callVars, clientVars
<1>0. stored \in Edits \cup {InitialCatalogue} /\ \A r \in Requesters : loaded[r] = None
  BY DEF OwnerInv, NothingToRestore, NoRows
<1>1. CASE BootProfiles \/ BootRefresh
  BY <1>0, <1>1, QuietOwners DEF BootProfiles, BootRefresh, AppliedCatalogue
<1>2. CASE LoadRows \/ RowsLoaded \/ RestoreDone
  BY <1>0, <1>2, QuietOwners DEF LoadRows, RowsLoaded, RestoreDone
<1>3. CASE LoadFailed
  BY <1>0, <1>3 DEF LoadFailed, ReuseProtocol, NoRestart
<1>4. ASSUME NEW r \in Requesters, RestoreRow(r) PROVE OwnerInv'
  BY <1>0, <1>4, SelectionNoneAssumption DEF RestoreRow, TypeOK, Catalogues
<1>5. CASE BootSignalled
  <2>1. /\ pc = "boot_signal" /\ UNCHANGED <<leases, cst, stored, cat>>
        /\ UNCHANGED clientVars \/ SlotAssigned(target, tprof)
    BY <1>5 DEF BootSignalled
  <2>2. CASE UNCHANGED clientVars
    BY <1>0, <2>1, <2>2, QuietOwners
  <2>3. CASE SlotAssigned(target, tprof)
    BY <1>0, <2>1, <2>3, TellOwners
  <2> QED
    BY <2>1, <2>2, <2>3
<1> QED
  BY <1>1, <1>2, <1>3, <1>4, <1>5 DEF Boot

\* The main loop: a lease is taken back only of a requester whose workflow has ended.
LEMMA LoopOwners ==
    ASSUME ReuseProtocol, TypeOK, NothingToRestore, OwnerInv, Loop
    PROVE  OwnerInv'
<1> USE DEF mainVars, queueVars, ledgerVars, policyVars, flagVars, callVars, clientVars
<1>0. stored \in Edits \cup {InitialCatalogue}
  BY DEF OwnerInv
<1>a. \A o \in Owners : phase' = phase => (Alive(o)' <=> Alive(o))
  BY DEF Alive, Dead, OwnerWorkflow
<1>1. CASE LoopExit
  BY <1>1 DEF LoopExit, NothingToRestore
<1>2. CASE LoopTop \/ RefreshFailed \/ Wake \/ VerifyFailed \/ ReclaimSaved \/ EvictionSaved
  BY <1>0, <1>2, QuietOwners DEF LoopTop, RefreshFailed, Wake, VerifyFailed, ReclaimSaved,
                                 EvictionSaved
<1>3. CASE BeginDrain \/ Ordered \/ SecondDrainEnd
  BY <1>0, <1>3, QuietOwners DEF BeginDrain, Ordered, SecondDrainEnd
<1>4. CASE DrainSaved \/ DrainSaveFailed \/ DrainSignalFailed
  BY <1>0, <1>4, QuietOwners DEF DrainSaved, DrainSaveFailed, DrainSignalFailed, ReuseProtocol
<1>5. CASE \E q \in Payloads : DrainExisting(q) \/ DrainKeep(q)
  BY <1>0, <1>5, QuietOwners DEF DrainExisting, DrainKeep
<1>6. CASE Refreshed
  <2>1. /\ UNCHANGED <<leases, phase, told, cst, stored>>
        /\ cat' = Pruned(AppliedCatalogue)
    BY <1>6 DEF Refreshed
  <2>2. \A c \in Calls : CallOwner[c] \in Maintenance => Target[CallOwner[c]] \in cat'.known
    BY <2>1, RefreshKeepsTargets DEF ReuseProtocol
  <2> QED
    BY <1>0, <1>a, <2>1, <2>2, OwnersKeep
<1>7. ASSUME NEW q \in Payloads, NEW p \in Profiles, DrainGrant(q, p) PROVE OwnerInv'
  <2>1. /\ UNCHANGED <<phase, told, cst, stored, cat>> /\ leases' = Reserve(leases, q.req, p)
    BY <1>7 DEF DrainGrant
  <2>2. \A r, x : x \in Profiles /\ r \in leases[x] => r \in leases'[x]
    BY <2>1 DEF Reserve, TypeOK
  <2> QED
    BY <1>0, <1>a, <2>1, <2>2, OwnersKeep DEF OwnerInv, WaitsKnown
<1>8. CASE DrainSignalled
  BY <1>8, TellOwners DEF DrainSignalled
<1>9. CASE FirstDrainEnd
  <2>1. PICK gone \in SUBSET Evictable : leases' = ReleaseAll(leases, gone)
    BY <1>9 DEF FirstDrainEnd
  <2>2. gone = {}
    BY <2>1 DEF ReuseProtocol, Evictable
  <2>3. leases' = leases
    BY <2>1, <2>2 DEF ReleaseAll, TypeOK
  <2> QED
    BY <1>0, <1>9, <2>3, QuietOwners DEF FirstDrainEnd
<1>10. ASSUME NEW terminal \in SUBSET NotRunning, Verified(terminal) PROVE OwnerInv'
  <2>1. /\ UNCHANGED <<phase, told, cst, stored, cat>>
        /\ leases' = ReleaseAll(leases, Reclaimable(terminal))
    BY <1>10 DEF Verified
  <2>2. \A o \in Owners : Alive(o) => o \notin Reclaimable(terminal)
    BY RequesterAssumption
    DEF ReuseProtocol, UpdateProtocol, Reclaimable, Alive, OwnerWorkflow, NotRunning, Requesters
  <2>3. \A o \in Owners, p \in Profiles : Alive(o) /\ o \in leases[p] => o \in leases'[p]
    BY <2>1, <2>2 DEF ReleaseAll
  <2> QED
    BY <1>0, <1>a, <2>1, <2>3, OwnersKeep DEF OwnerInv, WaitsKnown
<1>11. CASE ContinueAsNew
  <2>1. /\ UNCHANGED <<leases, phase, told, stored>>
        /\ cat' = [cat EXCEPT !.ready = cat.known]
        /\ cst' = [c \in Calls |-> IF ActiveCall(c) THEN "failed" ELSE cst[c]]
    BY <1>11 DEF ContinueAsNew
  <2>2. cat'.known = cat.known
    BY <2>1 DEF TypeOK, Catalogues
  <2>3. \A c \in Calls : cst'[c] = cst[c] \/ (cst'[c] = "failed" /\ ActiveCall(c))
    BY <2>1
  <2> QED
    BY <1>0, <1>a, <2>1, <2>2, <2>3, OwnersKeep DEF OwnerInv, WaitsKnown
<1> QED
  BY <1>1, <1>2, <1>3, <1>4, <1>5, <1>6, <1>7, <1>8, <1>9, <1>10, <1>11 DEF Loop

\* A step of one call, judged by what becomes of its owner and of the profile it waits for.
LEMMA CallStep ==
    ASSUME UpdateProtocol, TypeOK, OwnerInv, NEW c \in Calls, NEW s, NEW o \in Owners,
           o = CallOwner[c], cst[c] \notin {"granted", "held"},
           UNCHANGED <<phase, stored>>, cat.known \subseteq cat'.known,
           cst' = [cst EXCEPT ![c] = s],
           \A x \in Owners, p \in Profiles : x # o /\ x \in leases[p] => x \in leases'[p],
           \A x \in Owners : x # o => told'[x] = told[x],
           \/ told'[o] = None
           \/ told'[o] = Target[o] /\ s \in {"granted", "held"}
              /\ (Alive(o) => o \in leases'[Target[o]]),
           s = "save" /\ Alive(o) => o \in leases'[Target[o]],
           s \in {"verify", "wait"} /\ o \in Maintenance => Target[o] \in cat'.known
    PROVE  OwnerInv'
<1>1. \A x \in Owners : Target[x] \in Profiles /\ (Alive(x)' <=> Alive(x))
  BY RequesterAssumption DEF Alive, Dead, OwnerWorkflow
<1>2. \A d \in Calls : CallOwner[d] \in Owners
  BY RequesterAssumption
<1>3. \A d \in Calls : cst'[d] = IF d = c THEN s ELSE cst[d]
  BY DEF TypeOK
<1>4. \A d \in Calls : d # c => CallOwner[d] # o
  BY DEF UpdateProtocol
<1>5. \A x \in Owners : x # o /\ Served(x) => Served(x)'
  BY <1>3 DEF Served
<1>6. s \in {"granted", "held"} => Served(o)'
  BY <1>3 DEF Served
<1>7. OwnersHold'
  BY <1>1, <1>5, <1>6 DEF OwnerInv, OwnersHold
<1>8. SavesLeased'
  BY <1>1, <1>2, <1>3, <1>4 DEF OwnerInv, SavesLeased
<1>9. WaitsKnown'
  BY <1>3, <1>4 DEF OwnerInv, WaitsKnown
<1> QED
  BY <1>7, <1>8, <1>9 DEF OwnerInv

\* The update handlers.
LEMMA UpdateOwners ==
    ASSUME UpdateProtocol, TypeOK, LeaseInv, OwnerInv, NEW c \in Calls, Update(c)
    PROVE  OwnerInv'
<1> USE DEF mainVars, queueVars, ledgerVars, policyVars, flagVars, callVars
<1>1. PICK o \in Owners, p \in Profiles : o = CallOwner[c] /\ p = Target[o]
  BY RequesterAssumption
<1>2. UNCHANGED <<phase, stored>> /\ cat.known \subseteq cat'.known
  <2>1. cat' = cat \/ cat' = MaintainedCatalogue(Target[CallOwner[c]])
    BY DEF Update, AcquireSlot, OwnerNotRunning, AcquireHeld, AcquireOrWait, Maintain,
           MaintainHeld, WaitOver, UpdateSaved, UpdateSaveFailed
  <2>2. cat.known \subseteq cat'.known
    <3>1. ASSUME NEW k \in Profiles
          PROVE  MaintainedCatalogue(k).known \in {cat.known, cat.known \cup {k}}
      BY DEF MaintainedCatalogue, TypeOK, Catalogues
    <3> QED
      BY <1>1, <2>1, <3>1
  <2> QED
    BY <2>2 DEF Update, AcquireSlot, OwnerNotRunning, AcquireHeld, AcquireOrWait, Maintain,
           MaintainHeld, WaitOver, UpdateSaved, UpdateSaveFailed, UpdateFrame
<1>3. cst[c] \in {"free", "verify", "wait", "save"}
  BY DEF Update, AcquireSlot, OwnerNotRunning, AcquireHeld, AcquireOrWait, Maintain,
         MaintainHeld, WaitOver, UpdateSaved, UpdateSaveFailed, Arrives
<1>4. told[o] = None
  BY <1>1, <1>3, UnservedKnowsNothing
<1>5. \A x \in Owners, k \in Profiles : x # o /\ x \in leases[k] => x \in leases'[k]
  BY <1>1, UpdateLedger DEF Reserve, Release, TypeOK
<1>6. ASSUME NEW s, cst' = [cst EXCEPT ![c] = s], told' = told,
             s = "save" /\ Alive(o) => o \in leases'[p],
             s \in {"verify", "wait"} /\ o \in Maintenance => p \in cat'.known
      PROVE  OwnerInv'
  BY <1>1, <1>2, <1>3, <1>4, <1>5, <1>6, CallStep
<1>7. ASSUME NEW s \in {"granted", "held"}, Return(c, s), Alive(o) => o \in leases'[p]
      PROVE  OwnerInv'
  <2>1. cst' = [cst EXCEPT ![c] = s] /\ told' = [told EXCEPT ![o] = p]
    BY <1>1, <1>7 DEF Return
  <2>2. told'[o] = p /\ \A x \in Owners : x # o => told'[x] = told[x]
    BY <2>1 DEF TypeOK, Rows, Requesters
  <2> QED
    BY <1>1, <1>2, <1>3, <1>5, <1>7, <2>1, <2>2, CallStep
<1>8. CASE AcquireSlot(c)
  <2>1. told' = told /\ \E s \in {"failed", "verify"} : cst' = [cst EXCEPT ![c] = s]
    BY <1>8 DEF AcquireSlot, Raise
  <2>2. o \notin Maintenance
    BY <1>1, <1>8 DEF AcquireSlot
  <2> QED
    BY <1>6, <2>1, <2>2
<1>9. CASE OwnerNotRunning(c)
  BY <1>6, <1>9 DEF OwnerNotRunning, Raise
<1>10. CASE AcquireHeld(c) \/ MaintainHeld(c)
  <2>1. leases' = leases /\ Return(c, "held") /\ HasLease(o)
    BY <1>1, <1>10 DEF AcquireHeld, MaintainHeld
  <2>2. o \in leases'[p]
    BY <1>1, <2>1 DEF HasLease, LeaseInv, OwnersOnTarget
  <2> QED
    BY <1>7, <2>1, <2>2
<1>11. CASE AcquireOrWait(c)
  <2>1. told' = told /\ (o \in Maintenance => p \in cat'.known)
    BY <1>1, <1>11 DEF AcquireOrWait, OwnerInv, WaitsKnown
  <2>2. \/ leases' = Reserve(leases, o, p) /\ cst' = [cst EXCEPT ![c] = "save"]
        \/ cst' = [cst EXCEPT ![c] = "wait"]
    BY <1>1, <1>11 DEF AcquireOrWait, AwaitSave, AwaitChange
  <2>3. leases' = Reserve(leases, o, p) => o \in leases'[p]
    BY DEF Reserve, TypeOK
  <2> QED
    BY <1>6, <2>1, <2>2, <2>3
<1>12. CASE Maintain(c)
  <2>1. told' = told /\ cat' = MaintainedCatalogue(p)
    BY <1>1, <1>12 DEF Maintain
  <2>2. p \in cat'.known
    BY <2>1 DEF MaintainedCatalogue, TypeOK, Catalogues
  <2>3. \/ cst' = [cst EXCEPT ![c] = "failed"]
        \/ leases' = Reserve(leases, o, p) /\ cst' = [cst EXCEPT ![c] = "save"]
        \/ cst' = [cst EXCEPT ![c] = "wait"]
    BY <1>1, <1>12, <2>2 DEF Maintain, MaintainOrWait, AwaitSave, AwaitChange, Raise
  <2>4. leases' = Reserve(leases, o, p) => o \in leases'[p]
    BY DEF Reserve, TypeOK
  <2> QED
    BY <1>6, <2>1, <2>2, <2>3, <2>4
<1>13. CASE WaitOver(c)
  <2>1. told' = told /\ cat' = cat /\ cst[c] = "wait"
    BY <1>13 DEF WaitOver
  <2>2. o \in Maintenance => p \in cat'.known
    BY <1>1, <2>1 DEF OwnerInv, WaitsKnown
  <2>3. \/ cst' = [cst EXCEPT ![c] = "failed"]
        \/ cst' = [cst EXCEPT ![c] = "verify"]
        \/ leases' = Reserve(leases, o, p) /\ cst' = [cst EXCEPT ![c] = "save"]
        \/ cst' = [cst EXCEPT ![c] = "wait"]
    BY <1>1, <1>13, <2>2 DEF WaitOver, MaintainOrWait, AwaitSave, AwaitChange, Raise
  <2>4. leases' = Reserve(leases, o, p) => o \in leases'[p]
    BY DEF Reserve, TypeOK
  <2> QED
    BY <1>6, <2>1, <2>2, <2>3, <2>4
<1>14. CASE UpdateSaved(c)
  <2>1. leases' = leases /\ Return(c, "granted") /\ cst[c] = "save"
    BY <1>14 DEF UpdateSaved
  <2>2. Alive(o) => o \in leases'[p]
    BY <1>1, <2>1 DEF OwnerInv, SavesLeased
  <2> QED
    BY <1>7, <2>1, <2>2
<1>15. CASE UpdateSaveFailed(c)
  BY <1>6, <1>15 DEF UpdateSaveFailed, Raise
<1> QED
  BY <1>8, <1>9, <1>10, <1>11, <1>12, <1>13, <1>14, <1>15 DEF Update

\* OwnerInv is inductive relative to the other invariants.
LEMMA NextOwners ==
    ASSUME ReuseProtocol, TypeOK, LeaseInv, NothingToRestore, OwnerInv, [Next]_vars
    PROVE  OwnerInv'
<1>1. CASE UNCHANGED vars
  BY <1>1, QuietOwners DEF vars, ledgerVars, policyVars, callVars, clientVars, OwnerInv
<1>2. CASE \E c \in Calls : Update(c)
  BY <1>2, UpdateOwners DEF ReuseProtocol
<1> QED
  BY <1>1, <1>2, SignalsOwners, OutsideOwners, BootOwners, LoopOwners DEF Next

\* No owner knows of anything before the first execution.
LEMMA InitOwners ==
    ASSUME Init
    PROVE  OwnerInv
BY DEF Init, OwnerInv, OwnersHold, SavesLeased, WaitsKnown, NoRows, Requesters

-----------------------------------------------------------------------------
(* The theorems about users that come back and users that call             *)

\* All of it together.
ReturningInv == TypeOK /\ LeaseInv /\ NothingToRestore /\ ReuseInv /\ OwnerInv

\* ReturningInv is an invariant where slots are used again and owners call once.
LEMMA ReuseInvariant ==
    ASSUME ReuseProtocol
    PROVE  (Init => ReturningInv) /\ (ReturningInv /\ [Next]_vars => ReturningInv')
<1>1. Init => ReturningInv
  BY InitType, InitLease, InitReuse, InitOwners DEF ReturningInv
<1>2. ReturningInv /\ [Next]_vars => ReturningInv'
  BY NextType, NextLease, NextNothing, NextReuse, NextOwners DEF ReuseProtocol, ReturningInv
<1> QED
  BY <1>1, <1>2

\* Every running holder, workflow or owner, has its lease.
LEMMA ReturningHoldersLeased ==
    ReturningInv => \A p \in Profiles : HoldersOf(p) \subseteq leases[p]
<1> SUFFICES ASSUME ReturningInv, NEW p \in Profiles, NEW r \in HoldersOf(p)
             PROVE  r \in leases[p]
  OBVIOUS
<1>1. r \in Requesters /\ told[r] = p /\ Alive(r) /\ p # None
  BY SelectionNoneAssumption DEF HoldersOf
<1>2. CASE r \in Workflows
  BY <1>1, <1>2, WorkflowHolds DEF ReturningInv, ReuseInv, HoldersHaveLeases
<1>3. CASE r \in Owners
  BY <1>1, <1>3 DEF ReturningInv, OwnerInv, OwnersHold
<1> QED
  BY <1>1, <1>2, <1>3 DEF Requesters

\* Past startup, whoever uses a profile has its lease in the manager's ledger, also where
\* workflows give their slots back and ask again, each with one request at a time
\* (release_slot, request_slot and slot_assigned carry no request id), and where
\* activities and OAuth sessions acquire leases by updates, each with one call and on
\* profiles that stay enabled: failing saves and lists, reclaims, refreshes and
\* continue-as-new included, as long as the manager is not restarted.  It does not hold
\* of HTTP actions, whose lease is taken back by the next status check.
THEOREM ReusersStayInLedger ==
    ASSUME ReuseProtocol
    PROVE  Spec => []HoldersInLedger
<1>1. ReturningInv => HoldersInLedger
  BY ReturningHoldersLeased DEF HoldersInLedger
<1> QED
  BY <1>1, ReuseInvariant, PTL DEF Spec

\* The leases fit, and so do their holders.
LEMMA ReusersFit ==
    CapInv /\ ReturningInv => UsersFit
<1> SUFFICES ASSUME CapInv, ReturningInv, NEW p \in Profiles
             PROVE  Cardinality(HoldersOf(p)) <= InitialCatalogue.cap[p]
  BY DEF UsersFit
<1> DEFINE Lent == leases[p] \cup RowsFor(loaded, p)
<1>1. HoldersOf(p) \in SUBSET Lent
  BY ReturningHoldersLeased
<1>2. Lent \in SUBSET Requesters
  BY DEF RowsFor, ReturningInv, TypeOK
<1>3. Cardinality(Lent) <= InitialCatalogue.cap[p]
  BY DEF CapInv, RestoreFits
<1> HIDE DEF Lent
<1> QED
  BY <1>1, <1>2, <1>3, CapType, PartFits

\* The same after a step.
LEMMA ReusersFitNext == (CapInv /\ ReturningInv => UsersFit)'
BY ReusersFit, PTL

\* A credential is never used by more running holders than its capacity: workflows that
\* come back, activities and OAuth sessions together, under the conditions of
\* ReusersStayInLedger (no HTTP actions) and with capacities that are not edited.
THEOREM ReusersStayWithinCapacity ==
    ASSUME ReuseProtocol, SteadyEnvironment
    PROVE  Spec => []HoldersWithinCapacity
<1> DEFINE Inv == CapInv /\ ReturningInv
<1>1. Inv => HoldersWithinCapacity
  BY ReusersFit DEF UsersFit, CapInv, CapacitiesKnown, HoldersWithinCapacity
<1>2. Init => Inv
  BY InitType, InitCapacity, ReuseInvariant
<1>3. Inv /\ [Next]_vars => Inv'
  BY NextType, NextLease, NextCapacity, ReuseInvariant DEF ReturningInv
<1> HIDE DEF Inv
<1> QED
  BY <1>1, <1>2, <1>3, PTL DEF Spec

\* The manager is a capacity lease (CredentialLease) also to users that come back and to
\* activities and OAuth sessions that call, under the same conditions.
THEOREM ManagerIsALeaseToReusers ==
    ASSUME ReuseProtocol, SteadyEnvironment
    PROVE  Spec => ImplementsCredentialLease
<1> DEFINE Inv == CapInv /\ ReturningInv
<1>1. Inv /\ Inv' /\ [Next]_vars => [Contract!Next]_Using
  <2> SUFFICES ASSUME Inv, Inv', [Next]_vars PROVE [Contract!Next]_Using
    OBVIOUS
  <2>1. UsersFit'
    BY ReusersFitNext
  <2>2. TellsTruly
    BY DEF TellsTruly, ReturningInv, ReuseInv, TargetAsks, Asks
  <2>3. ClientsKnow
    BY <2>2 DEF ReturningInv, ReuseInv, OwnerInv, OwnersHold, ClientsKnow, OwnersKnow
  <2>4. TypeOK
    BY DEF ReturningInv
  <2> QED
    BY <2>1, <2>3, <2>4, StepImplements
<1>2. Init => Inv
  BY InitType, InitCapacity, ReuseInvariant
<1>3. Inv /\ [Next]_vars => Inv'
  BY NextType, NextLease, NextCapacity, ReuseInvariant DEF ReturningInv
<1> HIDE DEF Inv
<1>4. Spec => Contract!Init /\ [][Contract!Next]_Using
  BY <1>1, <1>2, <1>3, InitImplements, PTL DEF Spec
<1> QED
  BY <1>4, PTL DEF ImplementsCredentialLease, Contract!Spec, Using
=============================================================================
