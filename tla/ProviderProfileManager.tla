----------------------- MODULE ProviderProfileManager -----------------------
(***************************************************************************)
(* MoonMind.ProviderProfileManager: the per-runtime singleton Temporal     *)
(* workflow that leases provider-profile capacity, together with the lease *)
(* table it persists to and the clients that ask it for leases.            *)
(*                                                                         *)
(* A workflow runs one coroutine at a time and switches only at an await,  *)
(* so an action is everything between two awaits of one coroutine: the     *)
(* main loop (pc), a signal handler, or a step of an update handler        *)
(* (cst[c]).  Between two synchronous steps of the main loop pc is one of  *)
(* Running, and nothing else of the manager may move.                      *)
(*                                                                         *)
(* An activity that writes the lease table carries the snapshot taken when *)
(* it was scheduled; it commits, or fails, at a later step.                *)
(***************************************************************************)
EXTENDS ProfileSelection

CONSTANTS
    Workflows,          \* AgentRun workflows: lease owners that can be signalled
    Owners,             \* owners that ask by update: activities, OAuth sessions and
                        \* the HTTP actions on a profile
    Parent,             \* Parent[o]: the workflow behind o, None for an HTTP action
    Target,             \* Target[o]: the exact profile o is a lease on
    Maintenance,        \* the owners whose purpose is credential maintenance
    Calls,              \* update calls; an activity retry is a second call
    CallOwner,          \* CallOwner[c]: the lease id call c asks for
    GroupOf,            \* GroupOf[w]: the lease group of workflow w, or None
    Payloads,           \* the request_slot payloads the workflows may send
    InitialCatalogue,   \* the profile rows at the start
    Edits,              \* the profile rows an administrator may write
    Expirable,          \* requesters whose lease may outlive its maximum duration
    Behaviours          \* which environment behaviours the instance explores

Requesters == Workflows \cup Owners

Rows == [Requesters -> Profiles \cup {None}]

BehaviourNames ==
    {"cooldown", "handoff", "rerequest", "reuse", "withdraw", "terminate", "sync",
     "early_update", "shutdown", "crash", "continue_as_new", "save_failure",
     "remove_failure", "load_failure", "list_failure", "verify_failure",
     "signal_failure"}

ASSUME RequesterAssumption ==
    /\ Workflows \cap Owners = {}
    /\ None \notin Requesters
    /\ Parent \in [Owners -> Workflows \cup {None}]
    /\ \A o \in Owners \ Maintenance : Parent[o] \in Workflows
    /\ Target \in [Owners -> Profiles]
    /\ Maintenance \subseteq Owners
    /\ CallOwner \in [Calls -> Owners]

ASSUME RequestAssumption ==
    /\ GroupOf \in [Workflows -> Groups \cup {None}]
    /\ Payloads \subseteq [req : Workflows, ref : Profiles \cup {None},
                           constrained : BOOLEAN, match : SUBSET Profiles,
                           fallback : BOOLEAN, group : Groups \cup {None}, prio : Nat]
    /\ \A q \in Payloads : q.group = GroupOf[q.req]

ASSUME CatalogueAssumption ==
    InitialCatalogue \in Catalogues /\ Edits \subseteq Catalogues

ASSUME EnvironmentAssumption ==
    Expirable \subseteq Requesters /\ Behaviours \subseteq BehaviourNames

ASSUME FiniteAssumption ==
    IsFiniteSet(Workflows) /\ IsFiniteSet(Owners) /\ IsFiniteSet(Groups)

VARIABLES
    pc,             \* where the main coroutine is
    pass,           \* which of the two drains of the loop is under way
    fresh,          \* workflow.info().continued_run_id is None
    cat,            \* self._profiles: what is known of each profile
    leases,         \* leases[p]: current_leases of profile p
    cooling,        \* profiles with a cooldown_until
    resv,           \* self._handoff_reservations
    unparented,     \* leases whose metadata has no workflowId although an activity owns them
    pend,           \* self._pending_requests, at most one per requester
    todo,           \* _drain_queue: the sorted copy still to be visited
    remaining,      \* _drain_queue: the requests that stay queued
    target,         \* the requester whose lease is being saved or signalled
    tprof,          \* and its profile
    snap,           \* the snapshot of the main coroutine's save in flight
    loaded,         \* rows read at startup and not yet restored
    refreshAsked,   \* self._profile_refresh_requested
    seenSnapshot,   \* self._has_db_profile_snapshot
    stopping,       \* self._shutdown_requested
    cst,            \* cst[c]: where update call c is
    csnap,          \* csnap[c]: the snapshot of call c's save in flight
    db,             \* the rows of provider_profile_slot_leases
    removes,        \* requesters whose row a release is removing
    stored,         \* the provider-profile rows
    phase,          \* phase[w]: how far workflow w is with its slot
    told            \* told[r]: the profile r was told it holds

mainVars   == <<pc, pass, fresh, target, tprof, snap, loaded>>
queueVars  == <<pend, todo, remaining>>
ledgerVars == <<leases, unparented>>
policyVars == <<cat, cooling>>
flagVars   == <<refreshAsked, seenSnapshot, stopping>>
callVars   == <<cst, csnap>>
clientVars == <<phase, told>>

vars == <<mainVars, queueVars, ledgerVars, policyVars, resv, flagVars, callVars,
          db, removes, stored, clientVars>>

-----------------------------------------------------------------------------

NoLeases == [p \in Profiles |-> {}]

NoRows == [r \in Requesters |-> None]

NoReservations == [g \in Groups |-> None]

NoProfiles == [known |-> {}, enabled |-> {}, ready |-> {}, default |-> {},
               cap |-> [p \in Profiles |-> 1]]

\* The main coroutine is between two awaits
Running == {"top", "prep", "drain", "restore"}

\* Startup, before the main loop
Booting == {"boot_profiles", "boot_leases", "boot_rows", "restore", "boot_signal",
            "boot_refresh"}

MainPCs == {"down", "top", "prep", "drain", "refresh", "backoff", "order", "save",
            "signal", "evict_save", "verify", "reclaim_save", "idle"} \cup Booting

CallStates == {"free", "verify", "wait", "save", "granted", "held", "failed"}

\* A call the manager is working on
ActiveCall(c) == cst[c] \in {"verify", "wait", "save"}

\* Every coroutine is at an await: a signal, an update or a result may come in
Yielded == pc \notin Running \cup {"down"}

Dead == {w \in Workflows : phase[w] = "dead"}

\* The workflow whose status decides about r's lease: the workflowId of its metadata,
\* or the lease id.  An HTTP action (_credential_maintenance_guard) names "http:<id>",
\* an id no workflow has; None stands for it.
OwnerWorkflow(r) == IF r \in Owners THEN Parent[r] ELSE r

\* An OAuth session's lease id is the id of its workflow, and its metadata says so.
OwnerIsWorkflow(r) == r \in Workflows \/ (r \in Maintenance /\ Parent[r] # None)

Alive(r) == OwnerWorkflow(r) \notin Dead

\* provider_profile.verify_lease_holders: the ids it may report as not running.  A
\* workflow that is not found counts as not running, one that cannot be described
\* for another reason as running.
NotRunning == Dead \cup {None}

HasLease(r) == \E p \in Profiles : r \in leases[p]

\* _profile_id_for_lease
ProfileIdForLease(r) == CHOOSE p \in Profiles : r \in leases[p]

\* The snapshot _sync_leases_to_db sends
RowsOf(ls) == [r \in Requesters |->
                 IF \E p \in Profiles : r \in ls[p]
                 THEN CHOOSE p \in Profiles : r \in ls[p]
                 ELSE None]

\* ProfileSlotState.reserve, of a profile that has room
Reserve(ls, r, p) == [ls EXCEPT ![p] = @ \cup {r}]

\* ProfileSlotState.release
Release(ls, r, p) == [ls EXCEPT ![p] = @ \ {r}]

\* ProfileSlotState.release of every lease of the requesters in S
ReleaseAll(ls, S) == [p \in Profiles |-> ls[p] \ S]

\* The request of an update call: an exact profile and no lease group
CallRequest(c) ==
    [req |-> CallOwner[c], ref |-> Target[CallOwner[c]], constrained |-> FALSE,
     match |-> {}, fallback |-> FALSE, group |-> None, prio |-> 0]

\* _lease_holder_workflow_ids: can the holder's status be asked for?
Verifiable(r) == r \notin unparented

\* The snapshots of the saves in flight
SavesInFlight ==
    (IF pc \in {"save", "evict_save", "reclaim_save"} THEN {snap} ELSE {})
        \cup {csnap[c] : c \in {d \in Calls : cst[d] = "save"}}

-----------------------------------------------------------------------------
(* The profile list activity and its merge                                 *)

\* provider_profile.list: a row that is not launch ready is left out unless a
\* persisted lease still refers to it
ListedProfiles ==
    {p \in stored.known : p \in stored.ready \/ \E r \in Requesters : db[r] = p}

\* _apply_profile_sync: listed rows are merged, the others are disabled
AppliedCatalogue ==
    LET L == ListedProfiles IN
    [known   |-> cat.known \cup L,
     enabled |-> L \cap stored.enabled,
     ready   |-> (cat.ready \ L) \cup (L \cap stored.ready),
     default |-> L \cap stored.default,
     cap     |-> [p \in Profiles |-> IF p \in L THEN stored.cap[p] ELSE cat.cap[p]]]

\* Mutant: a disabled profile is pruned although it is leased
PrunedDespiteLease(c) ==
    LET kept == c.known \cap c.enabled IN
    [known |-> kept, enabled |-> c.enabled \cap kept, ready |-> c.ready \cap kept,
     default |-> c.default \cap kept,
     cap |-> [p \in Profiles |-> IF p \in kept THEN c.cap[p] ELSE 1]]

\* _prune_disabled_profiles_without_leases
Pruned(c) ==
    LET kept == {p \in c.known : p \in c.enabled \/ leases[p] # {}} IN
    [known |-> kept, enabled |-> c.enabled \cap kept, ready |-> c.ready \cap kept,
     default |-> c.default \cap kept,
     cap |-> [p \in Profiles |-> IF p \in kept THEN c.cap[p] ELSE 1]]

-----------------------------------------------------------------------------
(* Signals                                                                 *)

\* A workflow asks for a slot the first time, or again: because its slot wait
\* timed out or its selection changed, when slot_assigned may have crossed the new
\* request, or after it gave a slot back.
MayRequest(w) ==
    \/ phase[w] = "new"
    \/ /\ phase[w] \in {"waiting", "holding"}
       /\ {"rerequest", "withdraw"} \cap Behaviours # {}
    \/ phase[w] = "released" /\ "reuse" \in Behaviours

\* request_slot: queue the request, or replace the requester's queued one
RequestSlot(q) ==
    /\ Yielded
    /\ MayRequest(q.req)
    /\ pend' = {x \in pend : x.req # q.req} \cup {q}
    /\ refreshAsked' = TRUE
    /\ phase' = [phase EXCEPT ![q.req] = IF @ = "holding" THEN @ ELSE "waiting"]
    /\ UNCHANGED <<mainVars, todo, remaining, ledgerVars, policyVars, resv, seenSnapshot,
                   stopping, callVars, db, removes, stored, told>>

\* What release_slot does to the manager's state, the removal of the row being
\* scheduled with it; p is None when the client does not know its profile
ReleaseSlot(r, p, group, handoff) ==
    /\ leases' = IF p = None THEN leases ELSE Release(leases, r, p)
    /\ unparented' = IF p # None /\ r \in leases[p] THEN unparented \ {r} ELSE unparented
    /\ pend' = {x \in pend : x.req # r}
    /\ resv' = IF handoff /\ group # None /\ p # None /\ r \in leases[p]
               THEN [resv EXCEPT ![group] = p]
               ELSE resv
    /\ removes' = removes \cup {r}
    /\ UNCHANGED <<mainVars, todo, remaining, policyVars, flagVars, callVars, db, stored>>

\* An AgentRun gives its slot back, keeping it for the next step of its group
\* when it hands off.
WorkflowRelease(w, handoff) ==
    /\ Yielded
    /\ phase[w] = "holding"
    /\ handoff => "handoff" \in Behaviours
    /\ ReleaseSlot(w, told[w], GroupOf[w], handoff)
    /\ phase' = [phase EXCEPT ![w] = "released"]
    /\ told' = [told EXCEPT ![w] = None]

\* _consume_runtime_selection_update_for_slot_wait: an AgentRun that still waits
\* changes its selection and releases a profile it was never told, before it asks again
Withdraw(w) ==
    /\ Yielded
    /\ "withdraw" \in Behaviours
    /\ phase[w] = "waiting"
    /\ ReleaseSlot(w, None, None, FALSE)
    /\ UNCHANGED clientVars

\* ProviderProfileLeaseClient.release_lease
OwnerRelease(o) ==
    /\ Yielded
    /\ told[o] # None
    /\ ReleaseSlot(o, told[o], None, FALSE)
    /\ told' = [told EXCEPT ![o] = None]
    /\ UNCHANGED phase

\* The release finds no manager to signal: the run fails, or ends its cancellation,
\* without having given its slot back.  (release_lease starts a manager first.)
ReleaseLost(w) ==
    /\ pc = "down"
    /\ phase[w] = "holding"
    /\ phase' = [phase EXCEPT ![w] = "dead"]
    /\ UNCHANGED <<mainVars, queueVars, ledgerVars, policyVars, resv, flagVars, callVars,
                   db, removes, stored, told>>

\* report_cooldown
ReportCooldown(p) ==
    /\ Yielded
    /\ "cooldown" \in Behaviours
    /\ p \in cat.known
    /\ cooling' = cooling \cup {p}
    /\ UNCHANGED <<mainVars, queueVars, ledgerVars, cat, resv, flagVars, callVars, db,
                   removes, stored, clientVars>>

\* sync_profiles
SyncProfiles ==
    /\ Yielded
    /\ "sync" \in Behaviours
    /\ refreshAsked' = TRUE
    /\ UNCHANGED <<mainVars, queueVars, ledgerVars, policyVars, resv, seenSnapshot,
                   stopping, callVars, db, removes, stored, clientVars>>

\* shutdown
Shutdown ==
    /\ Yielded
    /\ "shutdown" \in Behaviours
    /\ stopping' = TRUE
    /\ UNCHANGED <<mainVars, queueVars, ledgerVars, policyVars, resv, refreshAsked,
                   seenSnapshot, callVars, db, removes, stored, clientVars>>

-----------------------------------------------------------------------------
(* The lease table and the world outside the manager                       *)

\* sync_slot_leases, action "remove", of a released lease; it gives up after
\* three attempts
RemoveRow(r) ==
    /\ r \in removes
    /\ pc \notin Running
    /\ removes' = removes \ {r}
    /\ \/ db' = [db EXCEPT ![r] = None]
       \/ "remove_failure" \in Behaviours /\ db' = db
    /\ UNCHANGED <<mainVars, queueVars, ledgerVars, policyVars, resv, flagVars, callVars,
                   stored, clientVars>>

\* An administrator edits the profile rows.
EditProfiles ==
    /\ pc \notin Running
    /\ stored' \in Edits
    /\ UNCHANGED <<mainVars, queueVars, ledgerVars, policyVars, resv, flagVars, callVars,
                   db, removes, clientVars>>

\* A workflow reaches a terminal state without releasing anything.
Terminate(w) ==
    /\ pc \notin Running
    /\ "terminate" \in Behaviours
    /\ phase[w] # "dead"
    /\ phase' = [phase EXCEPT ![w] = "dead"]
    /\ UNCHANGED <<mainVars, queueVars, ledgerVars, policyVars, resv, flagVars, callVars,
                   db, removes, stored, told>>

-----------------------------------------------------------------------------
(* Starting and stopping                                                   *)

\* The execution ends: its memory and its handlers are gone.  An activity that
\* was writing the lease table may still have committed.
Stop ==
    /\ pc' = "down"
    /\ pass' = 1
    /\ fresh' = TRUE
    /\ target' = None
    /\ tprof' = None
    /\ snap' = NoRows
    /\ loaded' = NoRows
    /\ pend' = {}
    /\ todo' = {}
    /\ remaining' = {}
    /\ leases' = NoLeases
    /\ unparented' = {}
    /\ cat' = NoProfiles
    /\ cooling' = {}
    /\ resv' = NoReservations
    /\ refreshAsked' = FALSE
    /\ seenSnapshot' = FALSE
    /\ stopping' = FALSE
    /\ db' \in {db} \cup SavesInFlight
    /\ cst' = [c \in Calls |-> IF ActiveCall(c) THEN "failed" ELSE cst[c]]
    /\ csnap' = [c \in Calls |-> NoRows]
    /\ UNCHANGED <<removes, stored, clientVars>>

\* The execution is terminated from outside.
Crash ==
    /\ Yielded
    /\ "crash" \in Behaviours
    /\ Stop

\* ensure_manager starts the singleton; it loads the profiles first.
Start ==
    /\ pc = "down"
    /\ pc' = "boot_profiles"
    /\ UNCHANGED <<pass, fresh, target, tprof, snap, loaded, queueVars, ledgerVars,
                   policyVars, resv, flagVars, callVars, db, removes, stored, clientVars>>

\* Mutant: the rule before FRESH_START_DB_LEASE_RESTORE_PATCH, queued requests
\* count as evidence that the leases were restored
BootUnlessPending(known) ==
    IF pend = {} THEN "boot_leases" ELSE IF known # {} THEN "boot_refresh" ELSE "top"

\* Where startup goes once there are profiles: a fresh execution reads the lease
\* table, a continued one has its leases already.
AfterBootProfiles(known) ==
    IF fresh THEN "boot_leases" ELSE IF known # {} THEN "boot_refresh" ELSE "top"

\* run: the first profile list, taken over or given up
BootProfiles ==
    /\ pc = "boot_profiles"
    /\ \/ /\ cat' = AppliedCatalogue
          /\ seenSnapshot' = TRUE
          /\ refreshAsked' = (refreshAsked /\ AfterBootProfiles(cat'.known) # "boot_refresh")
       \/ /\ "list_failure" \in Behaviours
          /\ refreshAsked' = TRUE
          /\ UNCHANGED <<cat, seenSnapshot>>
    /\ pc' = AfterBootProfiles(cat'.known)
    /\ UNCHANGED <<pass, fresh, target, tprof, snap, loaded, queueVars, ledgerVars, cooling,
                   resv, stopping, callVars, db, removes, stored, clientVars>>

\* Mutant: a failed read counts as an empty table
LoadNothing ==
    /\ pc = "boot_leases"
    /\ loaded' = NoRows
    /\ pc' = "boot_rows"
    /\ UNCHANGED <<pass, fresh, target, tprof, snap, queueVars, ledgerVars, policyVars, resv,
                   flagVars, callVars, db, removes, stored, clientVars>>

\* sync_slot_leases, action "load", reads the table.
LoadRows ==
    /\ pc = "boot_leases"
    /\ loaded' = db
    /\ pc' = "boot_rows"
    /\ UNCHANGED <<pass, fresh, target, tprof, snap, queueVars, ledgerVars, policyVars, resv,
                   flagVars, callVars, db, removes, stored, clientVars>>

\* The rows arrive at the manager.
RowsLoaded ==
    /\ pc = "boot_rows"
    /\ pc' = "restore"
    /\ UNCHANGED <<pass, fresh, target, tprof, snap, loaded, queueVars, ledgerVars,
                   policyVars, resv, flagVars, callVars, db, removes, stored, clientVars>>

\* Startup fails closed when the table cannot be read, or a row names a profile
\* the manager does not know.
LoadFailed ==
    /\ \/ pc \in {"boot_leases", "boot_rows"} /\ "load_failure" \in Behaviours
       \/ pc = "restore" /\ \E r \in Requesters : loaded[r] \notin cat.known \cup {None}
    /\ Stop

\* _load_leases_from_db: take one row back into the ledger; the owner of an
\* execution lease is told again.
RestoreRow(r) ==
    /\ pc = "restore"
    /\ loaded[r] \in cat.known
    /\ leases' = Reserve(leases, r, loaded[r])
    /\ unparented' = IF ~OwnerIsWorkflow(r) /\ r \notin leases[loaded[r]]
                     THEN unparented \cup {r}
                     ELSE unparented
    /\ loaded' = [loaded EXCEPT ![r] = None]
    /\ IF r \in Maintenance
       THEN UNCHANGED <<pc, target, tprof>>
       ELSE pc' = "boot_signal" /\ target' = r /\ tprof' = loaded[r]
    /\ UNCHANGED <<pass, fresh, snap, queueVars, policyVars, resv, flagVars, callVars, db,
                   removes, stored, clientVars>>

\* Every row is restored; the profiles are refreshed if there are any.
RestoreDone ==
    /\ pc = "restore"
    /\ loaded = NoRows
    /\ pc' = IF cat.known # {} THEN "boot_refresh" ELSE "top"
    /\ refreshAsked' = IF cat.known # {} THEN FALSE ELSE refreshAsked
    /\ UNCHANGED <<pass, fresh, target, tprof, snap, loaded, queueVars, ledgerVars,
                   policyVars, resv, seenSnapshot, stopping, callVars, db, removes, stored,
                   clientVars>>

\* run: the restored profiles are refreshed, without pruning.
BootRefresh ==
    /\ pc = "boot_refresh"
    /\ \/ /\ cat' = AppliedCatalogue
          /\ seenSnapshot' = TRUE
          /\ UNCHANGED refreshAsked
       \/ /\ "list_failure" \in Behaviours
          /\ refreshAsked' = TRUE
          /\ UNCHANGED <<cat, seenSnapshot>>
    /\ pc' = "top"
    /\ UNCHANGED <<pass, fresh, target, tprof, snap, loaded, queueVars, ledgerVars, cooling,
                   resv, stopping, callVars, db, removes, stored, clientVars>>

-----------------------------------------------------------------------------
(* The main loop                                                           *)

\* The loop condition: a shut-down manager completes.
LoopExit ==
    /\ pc = "top"
    /\ stopping
    /\ Stop

\* Mutant: the loop goes on although a shutdown was asked for
LoopTopRegardless ==
    /\ pc = "top"
    /\ pass' = 1
    /\ pc' = IF refreshAsked THEN "refresh" ELSE "prep"
    /\ refreshAsked' = FALSE
    /\ UNCHANGED <<fresh, target, tprof, snap, loaded, queueVars, ledgerVars, policyVars,
                   resv, seenSnapshot, stopping, callVars, db, removes, stored, clientVars>>

\* The loop starts with the profile refresh somebody asked for, if any.
LoopTop ==
    /\ pc = "top"
    /\ ~stopping
    /\ pass' = 1
    /\ pc' = IF refreshAsked THEN "refresh" ELSE "prep"
    /\ refreshAsked' = FALSE
    /\ UNCHANGED <<fresh, target, tprof, snap, loaded, queueVars, ledgerVars, policyVars,
                   resv, seenSnapshot, stopping, callVars, db, removes, stored, clientVars>>

\* _load_profiles_from_db with pruning
Refreshed ==
    /\ pc = "refresh"
    /\ cat' = Pruned(AppliedCatalogue)
    /\ cooling' = cooling \cap cat'.known
    /\ seenSnapshot' = TRUE
    /\ pc' = "prep"
    /\ UNCHANGED <<pass, fresh, target, tprof, snap, loaded, queueVars, ledgerVars, resv,
                   refreshAsked, stopping, callVars, db, removes, stored, clientVars>>

\* The refresh fails: without any snapshot the loop backs off and starts over.
RefreshFailed ==
    /\ pc = "refresh"
    /\ "list_failure" \in Behaviours
    /\ refreshAsked' = TRUE
    /\ pc' = IF seenSnapshot THEN "prep" ELSE "backoff"
    /\ UNCHANGED <<pass, fresh, target, tprof, snap, loaded, queueVars, ledgerVars,
                   policyVars, resv, seenSnapshot, stopping, callVars, db, removes, stored,
                   clientVars>>

\* The wait ends: a new event, a shutdown or the 60 s timer.
Wake ==
    /\ pc \in {"idle", "backoff"}
    /\ pc' = "top"
    /\ UNCHANGED <<pass, fresh, target, tprof, snap, loaded, queueVars, ledgerVars,
                   policyVars, resv, flagVars, callVars, db, removes, stored, clientVars>>

\* _clear_expired_handoff_reservations: any reservation may have expired by now
ReservationsLeft == {rs \in [Groups -> Profiles \cup {None}] :
                        \A g \in Groups : rs[g] \in {resv[g], None}}

\* _drain_queue begins; the order of the queued requests is looked up unless
\* every request's order is cached.
BeginDrain ==
    /\ pc = "prep"
    /\ resv' \in ReservationsLeft
    /\ \/ pend # {} /\ pc' = "order" /\ todo' = {}
       \/ pc' = "drain" /\ todo' = pend
    /\ remaining' = {}
    /\ UNCHANGED <<pass, fresh, target, tprof, snap, loaded, pend, ledgerVars, policyVars,
                   flagVars, callVars, db, removes, stored, clientVars>>

\* Mutant: no request is visited when the order lookup was awaited
OrderedNothing ==
    /\ pc = "order"
    /\ pc' = "drain"
    /\ todo' = {}
    /\ remaining' = pend
    /\ UNCHANGED <<pass, fresh, target, tprof, snap, loaded, pend, ledgerVars, policyVars,
                   resv, flagVars, callVars, db, removes, stored, clientVars>>

\* _order_pending_requests_by_schedule returns, with the order it found or with
\* the fallback order: the queue as it is now is copied.
Ordered ==
    /\ pc = "order"
    /\ pc' = "drain"
    /\ todo' = pend
    /\ UNCHANGED <<pass, fresh, target, tprof, snap, loaded, pend, remaining, ledgerVars,
                   policyVars, resv, flagVars, callVars, db, removes, stored, clientVars>>

\* The sorted copy is visited by decreasing priority; the order of equal
\* priorities (schedule, creation, ids) is left open.
NextInLine(q) == q \in todo /\ \A x \in todo : x.prio <= q.prio

\* The requester has a lease already: persist it again, then tell it again.
DrainExisting(q) ==
    /\ pc = "drain"
    /\ NextInLine(q)
    /\ HasLease(q.req)
    /\ pc' = "save"
    /\ target' = q.req
    /\ tprof' = ProfileIdForLease(q.req)
    /\ snap' = RowsOf(leases)
    /\ UNCHANGED <<pass, fresh, loaded, queueVars, ledgerVars, policyVars, resv, flagVars,
                   callVars, db, removes, stored, clientVars>>

\* Mutant: the drain does not look for the lease the requester has already
GrantAnother(q, p) ==
    /\ pc = "drain"
    /\ NextInLine(q)
    /\ p \in FindAvailableProfile(cat, leases, cooling, resv, q)
    /\ leases' = Reserve(leases, q.req, p)
    /\ resv' = ReservationsAfterLookup(resv, q)
    /\ pc' = "save"
    /\ target' = q.req
    /\ tprof' = p
    /\ snap' = RowsOf(leases')
    /\ UNCHANGED <<pass, fresh, loaded, queueVars, unparented, policyVars, flagVars, callVars,
                   db, removes, stored, clientVars>>

\* A profile is available: reserve it, then persist the ledger before telling.
DrainGrant(q, p) ==
    /\ pc = "drain"
    /\ NextInLine(q)
    /\ ~HasLease(q.req)
    /\ p \in FindAvailableProfile(cat, leases, cooling, resv, q)
    /\ leases' = Reserve(leases, q.req, p)
    /\ resv' = ReservationsAfterLookup(resv, q)
    /\ pc' = "save"
    /\ target' = q.req
    /\ tprof' = p
    /\ snap' = RowsOf(leases')
    /\ UNCHANGED <<pass, fresh, loaded, queueVars, unparented, policyVars, flagVars, callVars,
                   db, removes, stored, clientVars>>

\* No profile is available: the request stays queued.
DrainKeep(q) ==
    /\ pc = "drain"
    /\ NextInLine(q)
    /\ ~HasLease(q.req)
    /\ FindAvailableProfile(cat, leases, cooling, resv, q) = {}
    /\ resv' = ReservationsAfterLookup(resv, q)
    /\ todo' = todo \ {q}
    /\ remaining' = remaining \cup {q}
    /\ UNCHANGED <<mainVars, pend, ledgerVars, policyVars, flagVars, callVars, db, removes,
                   stored, clientVars>>

\* The request being served is done with, kept or not; the visit goes on.
Visited(kept) ==
    /\ pc' = "drain"
    /\ todo' = {q \in todo : q.req # target}
    /\ remaining' = IF kept THEN remaining \cup {q \in todo : q.req = target} ELSE remaining
    /\ target' = None
    /\ tprof' = None

\* Mutant: the save adds rows and deletes none
SavedByUpsert ==
    /\ pc = "save"
    /\ db' = [r \in Requesters |-> IF snap[r] # None THEN snap[r] ELSE db[r]]
    /\ pc' = "signal"
    /\ snap' = NoRows
    /\ UNCHANGED <<pass, fresh, target, tprof, loaded, queueVars, ledgerVars, policyVars,
                   resv, flagVars, callVars, removes, stored, clientVars>>

\* _sync_leases_to_db returns True: the snapshot has replaced the table.
DrainSaved ==
    /\ pc = "save"
    /\ db' = snap
    /\ pc' = "signal"
    /\ snap' = NoRows
    /\ UNCHANGED <<pass, fresh, target, tprof, loaded, queueVars, ledgerVars, policyVars,
                   resv, flagVars, callVars, removes, stored, clientVars>>

\* Mutant: the failure of the save is only logged
SaveFailureLogged ==
    /\ pc = "save"
    /\ "save_failure" \in Behaviours
    /\ db' \in {db, snap}
    /\ snap' = NoRows
    /\ pc' = "signal"
    /\ UNCHANGED <<pass, fresh, target, tprof, loaded, queueVars, ledgerVars, policyVars,
                   resv, flagVars, callVars, removes, stored, clientVars>>

\* It returns False, although the last attempt may have committed: the lease is
\* kept and the request is retried at the next drain.
DrainSaveFailed ==
    /\ pc = "save"
    /\ "save_failure" \in Behaviours
    /\ db' \in {db, snap}
    /\ snap' = NoRows
    /\ Visited(TRUE)
    /\ UNCHANGED <<pass, fresh, loaded, pend, ledgerVars, policyVars, resv, flagVars,
                   callVars, removes, stored, clientVars>>

\* slot_assigned reaches an AgentRun: it counts while the run waits for a slot
\* or holds one.
SlotAssigned(r, p) ==
    /\ told' = IF r \in Workflows /\ phase[r] \in {"waiting", "holding"}
               THEN [told EXCEPT ![r] = p]
               ELSE told
    /\ phase' = IF r \in Workflows /\ phase[r] = "waiting"
                THEN [phase EXCEPT ![r] = "holding"]
                ELSE phase

\* _signal_slot_assigned succeeds: the requester's workflow is running.
DrainSignalled ==
    /\ pc = "signal"
    /\ target \notin Dead
    /\ SlotAssigned(target, tprof)
    /\ Visited(FALSE)
    /\ UNCHANGED <<pass, fresh, snap, loaded, pend, ledgerVars, policyVars, resv, flagVars,
                   callVars, db, removes, stored>>

\* It fails: the workflow is gone, or it is not known whether the signal arrived.
\* Lease and request are kept, for the next drain or for verification.
DrainSignalFailed ==
    /\ pc = "signal"
    /\ \/ target \in Dead /\ UNCHANGED clientVars
       \/ "signal_failure" \in Behaviours /\ UNCHANGED clientVars
       \/ "signal_failure" \in Behaviours /\ SlotAssigned(target, tprof)
    /\ Visited(TRUE)
    /\ UNCHANGED <<pass, fresh, snap, loaded, pend, ledgerVars, policyVars, resv, flagVars,
                   callVars, db, removes, stored>>

\* The reconnecting signal of startup, whose failure changes nothing. The owner
\* of an activity lease is no workflow, its signal always fails.
BootSignalled ==
    /\ pc = "boot_signal"
    /\ IF target \in Owners \cup Dead
       THEN UNCHANGED clientVars
       ELSE SlotAssigned(target, tprof)
    /\ pc' = "restore"
    /\ target' = None
    /\ tprof' = None
    /\ UNCHANGED <<pass, fresh, snap, loaded, queueVars, ledgerVars, policyVars, resv,
                   flagVars, callVars, db, removes, stored>>

\* Leases that may have reached their maximum duration: not one whose grant is
\* still being persisted
Evictable == {r \in Expirable : /\ HasLease(r)
                                /\ \A c \in Calls : CallOwner[c] = r => cst[c] # "save"}

\* Mutant: only the queued requesters are verified
QueueToVerify(ls, queue) == queue # {}

\* Is there a status to ask for?
SomethingToVerify(ls, queue) ==
    queue # {} \/ \E p \in Profiles : \E r \in ls[p] : Verifiable(r)

\* After the first drain, or after the evictions are saved
ThenVerify(ls, queue) ==
    IF SomethingToVerify(ls, queue)
    THEN pc' = "verify" /\ pass' = 1
    ELSE pc' = "prep" /\ pass' = 2

\* The first drain ends: the queue becomes what remained of the copy, expired
\* cooldowns are cleared and expired leases evicted.
FirstDrainEnd ==
    /\ pc = "drain"
    /\ pass = 1
    /\ todo = {}
    /\ pend' = remaining
    /\ remaining' = {}
    /\ cooling' \in SUBSET cooling
    /\ \E gone \in SUBSET Evictable :
          /\ leases' = ReleaseAll(leases, gone)
          /\ unparented' = unparented \ gone
          /\ IF gone # {}
             THEN pc' = "evict_save" /\ snap' = RowsOf(leases') /\ UNCHANGED pass
             ELSE ThenVerify(leases, remaining) /\ UNCHANGED snap
    /\ UNCHANGED <<fresh, target, tprof, loaded, todo, cat, resv, flagVars, callVars, db,
                   removes, stored, clientVars>>

\* The save after an eviction or a reclaim returns; a failure is only logged.
Saved ==
    /\ db' = snap \/ ("save_failure" \in Behaviours /\ db' = db)
    /\ snap' = NoRows

EvictionSaved ==
    /\ pc = "evict_save"
    /\ Saved
    /\ ThenVerify(leases, pend)
    /\ UNCHANGED <<fresh, target, tprof, loaded, queueVars, ledgerVars, policyVars, resv,
                   flagVars, callVars, removes, stored, clientVars>>

\* Mutant: a workflow without a reported status counts as terminal
ReclaimableUnlessReported(terminal) == {r \in Requesters : HasLease(r) /\ Verifiable(r)}

\* Mutant: the status asked for is the one of the lease id, which is no workflow
\* when an activity owns the lease
ReclaimableByLeaseId(terminal) ==
    {r \in Requesters : HasLease(r) /\ (r \in Owners \/ r \in terminal)}

\* Mutant: terminal holders keep their leases until these expire
NothingReclaimable(terminal) == {}

\* _reclaim_terminal_leases: the leases whose owner was reported terminal
Reclaimable(terminal) ==
    {r \in Requesters : HasLease(r) /\ Verifiable(r) /\ OwnerWorkflow(r) \in terminal}

\* _verify_active_workflows returns.  A workflow that ended meanwhile may still be
\* reported running.
Verified(terminal) ==
    /\ pc = "verify"
    /\ terminal \subseteq NotRunning
    /\ leases' = ReleaseAll(leases, Reclaimable(terminal))
    /\ pend' = {q \in pend : q.req \notin terminal}
    /\ IF Reclaimable(terminal) # {}
       THEN pc' = "reclaim_save" /\ snap' = RowsOf(leases') /\ UNCHANGED pass
       ELSE pc' = "prep" /\ pass' = 2 /\ UNCHANGED snap
    /\ UNCHANGED <<fresh, target, tprof, loaded, todo, remaining, unparented, policyVars,
                   resv, flagVars, callVars, db, removes, stored, clientVars>>

\* The status activity fails: the cycle's verification is skipped.
VerifyFailed ==
    /\ pc = "verify"
    /\ "verify_failure" \in Behaviours
    /\ pc' = "prep"
    /\ pass' = 2
    /\ UNCHANGED <<fresh, target, tprof, snap, loaded, queueVars, ledgerVars, policyVars,
                   resv, flagVars, callVars, db, removes, stored, clientVars>>

ReclaimSaved ==
    /\ pc = "reclaim_save"
    /\ Saved
    /\ pc' = "prep"
    /\ pass' = 2
    /\ UNCHANGED <<fresh, target, tprof, loaded, queueVars, ledgerVars, policyVars, resv,
                   flagVars, callVars, removes, stored, clientVars>>

\* The second drain ends and the loop waits.
SecondDrainEnd ==
    /\ pc = "drain"
    /\ pass = 2
    /\ todo = {}
    /\ pend' = remaining
    /\ remaining' = {}
    /\ pc' = "idle"
    /\ UNCHANGED <<pass, fresh, target, tprof, snap, loaded, todo, ledgerVars, policyVars,
                   resv, flagVars, callVars, db, removes, stored, clientVars>>

\* _build_continue_as_new_input and _restore_state: the ledger, the queue, the
\* cooldowns and the reservations are carried over; launch_ready and the flags
\* are not.  The handlers of the old execution are gone.
ContinueAsNew ==
    /\ pc = "drain"
    /\ pass = 2
    /\ todo = {}
    /\ "continue_as_new" \in Behaviours
    /\ pend' = remaining
    /\ remaining' = {}
    /\ cat' = [cat EXCEPT !.ready = cat.known]
    /\ fresh' = FALSE
    /\ pass' = 1
    /\ pc' = IF cat.known # {} THEN "boot_refresh" ELSE "boot_profiles"
    /\ refreshAsked' = FALSE
    /\ seenSnapshot' = FALSE
    /\ stopping' = FALSE
    /\ db' \in {db} \cup SavesInFlight
    /\ cst' = [c \in Calls |-> IF ActiveCall(c) THEN "failed" ELSE cst[c]]
    /\ csnap' = [c \in Calls |-> NoRows]
    /\ UNCHANGED <<target, tprof, snap, loaded, todo, ledgerVars, cooling, resv, removes,
                   stored, clientVars>>

-----------------------------------------------------------------------------
(* Updates: AcquireSlotV2 and AcquireCredentialMaintenanceLease            *)

\* What an update leaves alone
UpdateFrame == UNCHANGED <<mainVars, queueVars, flagVars, removes, stored, phase>>

\* The update raises.
Raise(c) ==
    /\ cst' = [cst EXCEPT ![c] = "failed"]
    /\ csnap' = [csnap EXCEPT ![c] = NoRows]

\* The update returns the owner's lease.
Return(c, how) ==
    /\ cst' = [cst EXCEPT ![c] = how]
    /\ csnap' = [csnap EXCEPT ![c] = NoRows]
    /\ told' = [told EXCEPT ![CallOwner[c]] = Target[CallOwner[c]]]

\* The lease is reserved; its persistence is awaited.
AwaitSave(c) ==
    /\ cst' = [cst EXCEPT ![c] = "save"]
    /\ csnap' = [csnap EXCEPT ![c] = RowsOf(leases')]

AwaitChange(c) == cst' = [cst EXCEPT ![c] = "wait"] /\ UNCHANGED csnap

\* An update arrives.  The manager accepts updates while it starts up; whether
\* the clients send any then is up to the instance.
Arrives(c) ==
    /\ Yielded
    /\ cst[c] = "free"
    /\ pc \in Booting => "early_update" \in Behaviours

\* AcquireSlotV2 arrives: it asks first whether the owner's workflow still runs.
AcquireSlot(c) ==
    /\ Arrives(c)
    /\ CallOwner[c] \notin Maintenance
    /\ IF stopping THEN Raise(c)
       ELSE cst' = [cst EXCEPT ![c] = "verify"] /\ UNCHANGED csnap
    /\ UpdateFrame
    /\ UNCHANGED <<ledgerVars, policyVars, resv, db, told>>

\* _assert_activity_lease_owner_running raises: the owner is terminal, or its
\* status could not be asked for.
OwnerNotRunning(c) ==
    /\ Yielded
    /\ cst[c] = "verify"
    /\ Parent[CallOwner[c]] \in Dead \/ "verify_failure" \in Behaviours
    /\ Raise(c)
    /\ UpdateFrame
    /\ UNCHANGED <<ledgerVars, policyVars, resv, db, told>>

\* The owner runs, and has its lease already.
AcquireHeld(c) ==
    /\ Yielded
    /\ cst[c] = "verify"
    /\ HasLease(CallOwner[c])
    /\ Return(c, "held")
    /\ UpdateFrame
    /\ UNCHANGED <<ledgerVars, policyVars, resv, db>>

\* The owner runs and has no lease: reserve its profile, or wait.  Expired
\* reservations and cooldowns are cleared first.
AcquireOrWait(c) ==
    /\ Yielded
    /\ cst[c] = "verify"
    /\ ~HasLease(CallOwner[c])
    /\ resv' \in ReservationsLeft
    /\ cooling' \in SUBSET cooling
    /\ LET o == CallOwner[c]
           p == Target[o]
       IN  IF p \in FindAvailableProfile(cat, leases, cooling', resv', CallRequest(c))
           THEN /\ leases' = Reserve(leases, o, p)
                /\ unparented' = unparented \ {o}
                /\ AwaitSave(c)
           ELSE AwaitChange(c) /\ UNCHANGED ledgerVars
    /\ UpdateFrame
    /\ UNCHANGED <<cat, db, told>>

\* AcquireCredentialMaintenanceLease arrives.  An unknown profile gets a disabled
\* placeholder of capacity 1.
MaintainedCatalogue(p) ==
    IF p \in cat.known THEN cat
    ELSE [cat EXCEPT !.known = @ \cup {p}, !.cap[p] = 1]

\* reserve(allow_unready=True): only capacity counts.  A profile object that was
\* pruned while the handler waited takes the lease without the ledger.
MaintainOrWait(c, p) ==
    IF Cardinality(leases[p]) >= cat'.cap[p]
    THEN AwaitChange(c) /\ UNCHANGED ledgerVars
    ELSE /\ leases' = IF p \in cat'.known THEN Reserve(leases, CallOwner[c], p) ELSE leases
         /\ unparented' = unparented \ {CallOwner[c]}
         /\ AwaitSave(c)

Maintain(c) ==
    /\ Arrives(c)
    /\ CallOwner[c] \in Maintenance
    /\ ~HasLease(CallOwner[c])
    /\ LET p == Target[CallOwner[c]] IN
       /\ cat' = MaintainedCatalogue(p)
       /\ IF cat'.cap[p] # 1 \/ stopping
          THEN Raise(c) /\ UNCHANGED ledgerVars
          ELSE MaintainOrWait(c, p)
    /\ UpdateFrame
    /\ UNCHANGED <<cooling, resv, db, told>>

\* The maintenance owner has its lease already.
MaintainHeld(c) ==
    /\ Arrives(c)
    /\ CallOwner[c] \in Maintenance
    /\ HasLease(CallOwner[c])
    /\ Return(c, "held")
    /\ UpdateFrame
    /\ UNCHANGED <<ledgerVars, policyVars, resv, db>>

\* Mutant: a maintenance call that has waited takes the slot without a second look
WaitOverUnchecked(c) ==
    /\ Yielded
    /\ cst[c] = "wait"
    /\ LET p == Target[CallOwner[c]] IN
       IF stopping THEN Raise(c) /\ UNCHANGED ledgerVars
       ELSE IF CallOwner[c] \in Maintenance
       THEN /\ leases' = Reserve(leases, CallOwner[c], p)
            /\ unparented' = unparented \ {CallOwner[c]}
            /\ AwaitSave(c)
       ELSE /\ cst' = [cst EXCEPT ![c] = "verify"]
            /\ UNCHANGED <<csnap, ledgerVars>>
    /\ UpdateFrame
    /\ UNCHANGED <<policyVars, resv, db, told>>

\* The wait condition of a waiting update (or its 60 s timer) starts the loop
\* over; a shutdown ends it.
WaitOver(c) ==
    /\ Yielded
    /\ cst[c] = "wait"
    /\ LET p == Target[CallOwner[c]] IN
       IF stopping THEN Raise(c) /\ UNCHANGED ledgerVars
       ELSE IF CallOwner[c] \in Maintenance
       THEN UNCHANGED cat /\ MaintainOrWait(c, p)
       ELSE /\ cst' = [cst EXCEPT ![c] = "verify"]
            /\ UNCHANGED <<csnap, ledgerVars>>
    /\ UpdateFrame
    /\ UNCHANGED <<policyVars, resv, db, told>>

\* The lease of the update is persisted: it is returned to the caller.
UpdateSaved(c) ==
    /\ Yielded
    /\ cst[c] = "save"
    /\ db' = csnap[c]
    /\ Return(c, "granted")
    /\ UpdateFrame
    /\ UNCHANGED <<ledgerVars, policyVars, resv>>

\* Persistence failed, although the last attempt may have committed: the lease is
\* given up and the update raises.
UpdateSaveFailed(c) ==
    /\ Yielded
    /\ cst[c] = "save"
    /\ "save_failure" \in Behaviours
    /\ db' \in {db, csnap[c]}
    /\ leases' = Release(leases, CallOwner[c], Target[CallOwner[c]])
    /\ unparented' = unparented \ {CallOwner[c]}
    /\ Raise(c)
    /\ UpdateFrame
    /\ UNCHANGED <<policyVars, resv, told>>

-----------------------------------------------------------------------------

Init ==
    /\ pc = "down"
    /\ pass = 1
    /\ fresh = TRUE
    /\ target = None
    /\ tprof = None
    /\ snap = NoRows
    /\ loaded = NoRows
    /\ pend = {}
    /\ todo = {}
    /\ remaining = {}
    /\ leases = NoLeases
    /\ unparented = {}
    /\ cat = NoProfiles
    /\ cooling = {}
    /\ resv = NoReservations
    /\ refreshAsked = FALSE
    /\ seenSnapshot = FALSE
    /\ stopping = FALSE
    /\ cst = [c \in Calls |-> "free"]
    /\ csnap = [c \in Calls |-> NoRows]
    /\ db = NoRows
    /\ removes = {}
    /\ stored = InitialCatalogue
    /\ phase = [w \in Workflows |-> "new"]
    /\ told = NoRows

\* The signal handlers
Signals ==
    \/ \E q \in Payloads : RequestSlot(q)
    \/ \E w \in Workflows, handoff \in BOOLEAN : WorkflowRelease(w, handoff)
    \/ \E w \in Workflows : Withdraw(w)
    \/ \E o \in Owners : OwnerRelease(o)
    \/ \E p \in Profiles : ReportCooldown(p)
    \/ SyncProfiles
    \/ Shutdown

\* What happens outside the manager
Outside ==
    \/ \E r \in Requesters : RemoveRow(r)
    \/ EditProfiles
    \/ \E w \in Workflows : ReleaseLost(w) \/ Terminate(w)
    \/ Crash
    \/ Start

\* Startup
Boot ==
    \/ BootProfiles
    \/ LoadRows
    \/ RowsLoaded
    \/ LoadFailed
    \/ \E r \in Requesters : RestoreRow(r)
    \/ RestoreDone
    \/ BootSignalled
    \/ BootRefresh

\* The main loop
Loop ==
    \/ LoopExit
    \/ LoopTop
    \/ Refreshed
    \/ RefreshFailed
    \/ Wake
    \/ BeginDrain
    \/ Ordered
    \/ \E q \in Payloads : DrainExisting(q) \/ DrainKeep(q)
    \/ \E q \in Payloads, p \in Profiles : DrainGrant(q, p)
    \/ DrainSaved
    \/ DrainSaveFailed
    \/ DrainSignalled
    \/ DrainSignalFailed
    \/ FirstDrainEnd
    \/ EvictionSaved
    \/ \E terminal \in SUBSET NotRunning : Verified(terminal)
    \/ VerifyFailed
    \/ ReclaimSaved
    \/ SecondDrainEnd
    \/ ContinueAsNew

\* The update handlers
Update(c) ==
    \/ AcquireSlot(c)
    \/ OwnerNotRunning(c)
    \/ AcquireHeld(c)
    \/ AcquireOrWait(c)
    \/ Maintain(c)
    \/ MaintainHeld(c)
    \/ WaitOver(c)
    \/ UpdateSaved(c)
    \/ UpdateSaveFailed(c)

Next == Signals \/ Outside \/ Boot \/ Loop \/ \E c \in Calls : Update(c)

Spec == Init /\ [][Next]_vars

\* The slot wait of w timed out and the manager's state does not show its request
\* any more: AgentRun asks again.
RequestAgain(w) ==
    /\ phase[w] = "waiting"
    /\ \A x \in pend : x.req # w
    /\ \E q \in Payloads : q.req = w /\ RequestSlot(q)

\* Temporal runs what is runnable: the manager is started and its coroutines go
\* on, activities return.  A dead workflow is reported sooner or later, a timed
\* out wait is repeated, no AgentRun keeps its slot for ever, and one that has
\* given its slot back ends.
Fairness ==
    /\ WF_vars(Start \/ Boot \/ Loop)
    /\ SF_vars(Verified(NotRunning))
    /\ \A c \in Calls : WF_vars(Update(c))
    /\ \A w \in Workflows :
          /\ SF_vars(RequestAgain(w))
          /\ SF_vars(WorkflowRelease(w, FALSE))
          /\ SF_vars(phase[w] = "released" /\ Terminate(w))

FairSpec == Spec /\ Fairness

-----------------------------------------------------------------------------
(* Properties                                                              *)

\* The types of the state variables
TypeOK ==
    /\ pc \in MainPCs
    /\ pass \in {1, 2}
    /\ fresh \in BOOLEAN
    /\ cat \in Catalogues
    /\ leases \in [Profiles -> SUBSET Requesters]
    /\ cooling \subseteq Profiles
    /\ resv \in [Groups -> Profiles \cup {None}]
    /\ unparented \subseteq Owners
    /\ pend \subseteq Payloads
    /\ todo \subseteq Payloads
    /\ remaining \subseteq Payloads
    /\ target \in Requesters \cup {None}
    /\ tprof \in Profiles \cup {None}
    /\ snap \in Rows
    /\ loaded \in Rows
    /\ refreshAsked \in BOOLEAN
    /\ seenSnapshot \in BOOLEAN
    /\ stopping \in BOOLEAN
    /\ cst \in [Calls -> CallStates]
    /\ csnap \in [Calls -> Rows]
    /\ db \in Rows
    /\ removes \subseteq Requesters
    /\ stored \in Catalogues
    /\ phase \in [Workflows -> {"new", "waiting", "holding", "released", "dead"}]
    /\ told \in Rows

\* The requesters that were told they hold p and whose workflow still runs: the
\* processes that use the credential of p
HoldersOf(p) == {r \in Requesters : told[r] = p /\ Alive(r)}

\* The manager's ledger never leases more of a profile than its capacity, whatever
\* the order of grants, retried updates, releases, evictions, refreshes, restarts
\* and continue-as-new.
LedgerWithinCapacity ==
    \A p \in Profiles : Cardinality(leases[p]) <= cat.cap[p]

\* A capacity that an administrator lowers below the number of leases takes none of
\* them back, but nothing is leased beyond it: a profile that has its capacity or more
\* in use gets no further lease (available_slots, reserve).
ShrunkCapacityIsHonoured ==
    [][\A p \in Profiles :
          \/ leases'[p] \subseteq leases[p]
          \/ Cardinality(leases'[p]) <= cat'.cap[p]]_vars

\* The slots kept for a handoff fit into what the leases leave: a slot that was
\* released for the next step of a group is not given to another group meanwhile.
HandoffFits ==
    \A p \in cat.known :
        Cardinality(leases[p]) + Cardinality({g \in Groups : resv[g] = p}) <= cat.cap[p]

\* A profile that is leased is known: a refresh that finds it disabled, not launch ready
\* or deleted does not prune it, so that its lease can be released and is counted
\* (_prune_disabled_profiles_without_leases).
LeasedIsKnown == \A p \in Profiles : leases[p] # {} => p \in cat.known

\* No requester has leases on two profiles: the drain, the updates and the
\* restored rows never lease a second profile to the same id.
OneLeasePerRequester ==
    \A p1, p2 \in Profiles : leases[p1] \cap leases[p2] # {} => p1 = p2

\* Past startup, whoever uses a profile has its lease in the ledger.  The slot a
\* holder was told about is not given up behind its back.
HoldersInLedger ==
    pc \notin Booting \cup {"down"} =>
        \A p \in Profiles : HoldersOf(p) \subseteq leases[p]

\* What a credential may be used for at the same time: no more running holders
\* than its capacity, at any moment and across restarts of the manager.
HoldersWithinCapacity ==
    \A p \in Profiles : Cardinality(HoldersOf(p)) <= stored.cap[p]

\* "Never signal a consumer before its lease is durable" (_drain_queue): the lease
\* table has a row for every running holder.
HoldersAreDurable ==
    \A p \in Profiles : \A r \in HoldersOf(p) : db[r] = p

\* The lease table never holds more rows of a profile than its capacity, so that a
\* restart cannot restore an overcommitted ledger.
TableWithinCapacity ==
    \A p \in Profiles : Cardinality({r \in Requesters : db[r] = p}) <= stored.cap[p]

\* A shutdown is obeyed, whatever the loop is doing when it arrives, as long as the
\* execution is not continued as new meanwhile (shutdown, the loop's exit).
ShutdownHonoured == stopping ~> pc = "down"

\* The manager is not restarted for ever.
Settles == <>[](pc \notin Booting \cup {"down"})

\* A lease of a requester whose workflow has ended is taken back for good, without
\* anybody releasing it and before it expires (provider_profile.verify_lease_holders),
\* restarts of the manager included as long as they come to an end.  The one exception
\* is a lease restored without the workflow that owns it, which only expires.
TerminalLeaseReclaimed ==
    Settles => \A r \in Requesters : ~Alive(r) ~> [](HasLease(r) => ~Verifiable(r))

\* Every AgentRun that waits for a slot gets one or ends, although the manager may
\* lose its request in a drain or in a restart: the repeated request makes up for it.
WaiterServed ==
    Settles => \A w \in Workflows : phase[w] = "waiting" ~> phase[w] # "waiting"
=============================================================================
