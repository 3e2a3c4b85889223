-------------------- MODULE ProviderProfileManagerProofs --------------------
(***************************************************************************)
(* Proofs about ProviderProfileManager, for every set of profiles,         *)
(* workflows, owners and calls, every catalogue and every combination of   *)
(* environment behaviours.                                                 *)
(***************************************************************************)
EXTENDS ProviderProfileManager, FiniteSetTheorems, TLAPS

-----------------------------------------------------------------------------
(* The operators the actions are built from                                *)

\* A snapshot of a ledger is a table.
LEMMA RowsOfType ==
    ASSUME NEW ls \in [Profiles -> SUBSET Requesters]
    PROVE  RowsOf(ls) \in Rows
<1>1. ASSUME NEW r \in Requesters, \E p \in Profiles : r \in ls[p]
      PROVE  (CHOOSE p \in Profiles : r \in ls[p]) \in Profiles
  BY <1>1
<1> QED
  BY <1>1 DEF RowsOf, Rows

\* The values of an execution that has not begun are of their types.
LEMMA EmptyTypes ==
    /\ NoRows \in Rows
    /\ NoLeases \in [Profiles -> SUBSET Requesters]
    /\ NoReservations \in [Groups -> Profiles \cup {None}]
    /\ NoProfiles \in Catalogues
  BY DEF NoRows, Rows, NoLeases, NoReservations, NoProfiles, Catalogues

\* ProfileSlotState.reserve and release keep a ledger a ledger.
LEMMA ReserveType ==
    ASSUME NEW ls \in [Profiles -> SUBSET Requesters], NEW r \in Requesters, NEW p \in Profiles
    PROVE  /\ Reserve(ls, r, p) \in [Profiles -> SUBSET Requesters]
           /\ Release(ls, r, p) \in [Profiles -> SUBSET Requesters]
  BY DEF Reserve, Release

\* So does releasing a set of requesters (evictions, reclaims).
LEMMA ReleaseAllType ==
    ASSUME NEW ls \in [Profiles -> SUBSET Requesters], NEW S
    PROVE  ReleaseAll(ls, S) \in [Profiles -> SUBSET Requesters]
  BY DEF ReleaseAll

\* Merging the listed rows (_apply_profile_sync) yields a catalogue.
LEMMA AppliedCatalogueType ==
    ASSUME TypeOK
    PROVE  AppliedCatalogue \in Catalogues
<1>1. cat \in Catalogues /\ stored \in Catalogues /\ ListedProfiles \subseteq Profiles
  BY DEF TypeOK, ListedProfiles, Catalogues
<1> QED
  BY <1>1 DEF AppliedCatalogue, Catalogues

\* Pruning disabled profiles without leases leaves a catalogue.
LEMMA PrunedType ==
    ASSUME NEW k \in Catalogues
    PROVE  Pruned(k) \in Catalogues
  BY DEF Pruned, Catalogues

\* The placeholder of an unknown profile leaves a catalogue.
LEMMA MaintainedCatalogueType ==
    ASSUME TypeOK, NEW p \in Profiles
    PROVE  MaintainedCatalogue(p) \in Catalogues
<1>1. cat \in Catalogues /\ cat.cap \in [Profiles -> Nat \ {0}]
  BY DEF TypeOK, Catalogues
<1>2. [cat.cap EXCEPT ![p] = 1] \in [Profiles -> Nat \ {0}]
  BY <1>1
<1> QED
  BY <1>1, <1>2 DEF MaintainedCatalogue, Catalogues

\* _find_available_profile answers with profiles.
LEMMA FindAvailableProfileType ==
    ASSUME NEW k \in Catalogues, NEW ls, NEW cool, NEW q,
           NEW rs \in [Groups -> Profiles \cup {None}], q.group \in Groups \cup {None},
           NEW p \in FindAvailableProfile(k, ls, cool, rs, q)
    PROVE  p \in Profiles /\ IsAvailable(k, ls, cool, p)
<1> DEFINE own      == OwnReservation(rs, q)
           eligible == EligibleProfiles(k, ls, cool, rs, q)
<1>1. \A S, x : x \in BestOf(k, ls, S) => x \in S
  BY DEF BestOf
<1>2. \A x \in eligible : x \in Profiles /\ IsAvailable(k, ls, cool, x)
  BY DEF EligibleProfiles, ProfileMatchesRequest, Catalogues
<1>3. CASE own # None /\ ProfileMatchesRequest(k, ls, cool, q, own)
  <2>1. p = own
    BY <1>3 DEF FindAvailableProfile
  <2>2. own \in Profiles
    BY <1>3 DEF OwnReservation
  <2> QED
    BY <2>1, <2>2, <1>3 DEF ProfileMatchesRequest
<1>4. CASE ~(own # None /\ ProfileMatchesRequest(k, ls, cool, q, own))
  <2>1. p \in eligible
    BY <1>4, <1>1 DEF FindAvailableProfile
  <2> QED
    BY <2>1, <1>2
<1> QED
  BY <1>3, <1>4

\* Using up a reservation leaves reservations.
LEMMA ReservationsAfterLookupType ==
    ASSUME NEW rs \in [Groups -> Profiles \cup {None}], NEW q
    PROVE  ReservationsAfterLookup(rs, q) \in [Groups -> Profiles \cup {None}]
  BY DEF ReservationsAfterLookup

-----------------------------------------------------------------------------
(* Type correctness                                                        *)

\* The state before the first execution is of its type.
LEMMA InitType == Init => TypeOK
  BY EmptyTypes, CatalogueAssumption DEF Init, TypeOK, MainPCs, CallStates

\* The end of an execution keeps the types.
LEMMA StopType == TypeOK /\ Stop => TypeOK'
<1> SUFFICES ASSUME TypeOK, Stop PROVE TypeOK'
  OBVIOUS
<1>1. SavesInFlight \subseteq Rows
  BY DEF SavesInFlight, TypeOK
<1>2. db' \in Rows
  BY <1>1 DEF Stop, TypeOK
<1>3. cst' \in [Calls -> CallStates] /\ csnap' \in [Calls -> Rows]
  BY EmptyTypes DEF Stop, TypeOK, CallStates
<1> QED
  BY <1>2, <1>3, EmptyTypes DEF Stop, TypeOK, MainPCs, clientVars

\* What the release_slot handler does keeps the types.
LEMMA ReleaseSlotType ==
    ASSUME TypeOK, NEW r \in Requesters, NEW p \in Profiles \cup {None},
           NEW group \in Groups \cup {None}, NEW handoff \in BOOLEAN,
           ReleaseSlot(r, p, group, handoff),
           phase' \in [Workflows -> {"new", "waiting", "holding", "released", "dead"}],
           told' \in Rows
    PROVE  TypeOK'
<1>1. leases' \in [Profiles -> SUBSET Requesters]
  BY ReserveType DEF ReleaseSlot, TypeOK
<1>2. resv' \in [Groups -> Profiles \cup {None}]
  BY DEF ReleaseSlot, TypeOK
<1> QED
  BY <1>1, <1>2 DEF ReleaseSlot, TypeOK, mainVars, policyVars, flagVars, callVars

\* The signal handlers keep the types.
LEMMA SignalsType == TypeOK /\ Signals => TypeOK'
<1> SUFFICES ASSUME TypeOK, Signals PROVE TypeOK'
  OBVIOUS
<1> USE DEF mainVars, queueVars, ledgerVars, policyVars, flagVars, callVars, clientVars
<1>1. ASSUME NEW q \in Payloads, RequestSlot(q) PROVE TypeOK'
  <2>1. q.req \in Workflows
    BY RequestAssumption
  <2> QED
    BY <1>1, <2>1 DEF RequestSlot, TypeOK
<1>2. ASSUME NEW w \in Workflows, NEW handoff \in BOOLEAN, WorkflowRelease(w, handoff)
      PROVE  TypeOK'
  <2>1. w \in Requesters /\ told[w] \in Profiles \cup {None} /\ GroupOf[w] \in Groups \cup {None}
    BY RequestAssumption DEF TypeOK, Requesters, Rows
  <2>2. /\ phase' \in [Workflows -> {"new", "waiting", "holding", "released", "dead"}]
        /\ told' \in Rows
    BY <1>2 DEF WorkflowRelease, TypeOK, Rows
  <2> QED
    BY <1>2, <2>1, <2>2, ReleaseSlotType DEF WorkflowRelease
<1>3. ASSUME NEW w \in Workflows, Withdraw(w) PROVE TypeOK'
  <2>1. w \in Requesters
    BY DEF Requesters
  <2>2. /\ phase' \in [Workflows -> {"new", "waiting", "holding", "released", "dead"}]
        /\ told' \in Rows
    BY <1>3 DEF Withdraw, TypeOK
  <2> QED
    BY <1>3, <2>1, <2>2, ReleaseSlotType DEF Withdraw
<1>4. ASSUME NEW o \in Owners, OwnerRelease(o) PROVE TypeOK'
  <2>1. o \in Requesters /\ told[o] \in Profiles \cup {None}
    BY DEF TypeOK, Requesters, Rows
  <2>2. /\ phase' \in [Workflows -> {"new", "waiting", "holding", "released", "dead"}]
        /\ told' \in Rows
    BY <1>4 DEF OwnerRelease, TypeOK, Rows
  <2> QED
    BY <1>4, <2>1, <2>2, ReleaseSlotType DEF OwnerRelease
<1>5. ASSUME NEW p \in Profiles, ReportCooldown(p) PROVE TypeOK'
  BY <1>5 DEF ReportCooldown, TypeOK
<1>6. CASE SyncProfiles
  BY <1>6 DEF SyncProfiles, TypeOK
<1>7. CASE Shutdown
  BY <1>7 DEF Shutdown, TypeOK
<1> QED
  BY <1>1, <1>2, <1>3, <1>4, <1>5, <1>6, <1>7 DEF Signals

\* Table removals, edits, ending workflows, crashes and starts keep the types.
LEMMA OutsideType == TypeOK /\ Outside => TypeOK'
<1> SUFFICES ASSUME TypeOK, Outside PROVE TypeOK'
  OBVIOUS
<1> USE DEF mainVars, queueVars, ledgerVars, policyVars, flagVars, callVars, clientVars
<1>1. ASSUME NEW w \in Workflows, ReleaseLost(w) PROVE TypeOK'
  BY <1>1 DEF ReleaseLost, TypeOK
<1>2. ASSUME NEW r \in Requesters, RemoveRow(r) PROVE TypeOK'
  <2>1. db' \in Rows
    BY <1>2 DEF RemoveRow, TypeOK, Rows
  <2> QED
    BY <1>2, <2>1 DEF RemoveRow, TypeOK
<1>3. CASE EditProfiles
  BY <1>3, CatalogueAssumption DEF EditProfiles, TypeOK
<1>4. ASSUME NEW w \in Workflows, Terminate(w) PROVE TypeOK'
  BY <1>4 DEF Terminate, TypeOK
<1>5. CASE Crash
  BY <1>5, StopType DEF Crash
<1>6. CASE Start
  BY <1>6 DEF Start, TypeOK, MainPCs, Booting
<1> QED
  BY <1>1, <1>2, <1>3, <1>4, <1>5, <1>6 DEF Outside

\* Startup and lease recovery keep the types.
LEMMA BootType == TypeOK /\ Boot => TypeOK'
<1> SUFFICES ASSUME TypeOK, Boot PROVE TypeOK'
  OBVIOUS
<1> USE DEF mainVars, queueVars, ledgerVars, policyVars, flagVars, callVars, clientVars
<1>1. CASE BootProfiles
  BY <1>1, AppliedCatalogueType DEF BootProfiles, AfterBootProfiles, TypeOK, MainPCs, Booting
<1>2. CASE LoadRows
  BY <1>2 DEF LoadRows, TypeOK, MainPCs, Booting
<1>3. CASE RowsLoaded
  BY <1>3 DEF RowsLoaded, TypeOK, MainPCs, Booting
<1>4. CASE LoadFailed
  BY <1>4, StopType DEF LoadFailed
<1>5. ASSUME NEW r \in Requesters, RestoreRow(r) PROVE TypeOK'
  <2>1. loaded[r] \in Profiles
    BY <1>5 DEF RestoreRow, TypeOK, Catalogues
  <2>2. leases' \in [Profiles -> SUBSET Requesters]
    BY <1>5, <2>1, ReserveType DEF RestoreRow, TypeOK
  <2>3. loaded' \in Rows
    BY <1>5 DEF RestoreRow, TypeOK, Rows
  <2>4. unparented' \subseteq Owners
    BY <1>5 DEF RestoreRow, OwnerIsWorkflow, TypeOK, Requesters
  <2> QED
    BY <1>5, <2>1, <2>2, <2>3, <2>4 DEF RestoreRow, TypeOK, MainPCs, Booting
<1>6. CASE RestoreDone
  BY <1>6 DEF RestoreDone, TypeOK, MainPCs, Booting
<1>7. CASE BootSignalled
  <2>1. /\ phase' \in [Workflows -> {"new", "waiting", "holding", "released", "dead"}]
        /\ told' \in Rows
    BY <1>7 DEF BootSignalled, SlotAssigned, TypeOK, Rows
  <2> QED
    BY <1>7, <2>1 DEF BootSignalled, TypeOK, MainPCs, Booting
<1>8. CASE BootRefresh
  BY <1>8, AppliedCatalogueType DEF BootRefresh, TypeOK, MainPCs
<1> QED
  BY <1>1, <1>2, <1>3, <1>4, <1>5, <1>6, <1>7, <1>8 DEF Boot

\* The main loop keeps the types.
LEMMA LoopType == TypeOK /\ Loop => TypeOK'
<1> SUFFICES ASSUME TypeOK, Loop PROVE TypeOK'
  OBVIOUS
<1> USE DEF mainVars, queueVars, ledgerVars, policyVars, flagVars, callVars, clientVars
<1>1. CASE LoopExit
  BY <1>1, StopType DEF LoopExit
<1>2. CASE LoopTop
  BY <1>2 DEF LoopTop, TypeOK, MainPCs
<1>3. CASE Refreshed
  <2>1. cat' \in Catalogues
    BY <1>3, AppliedCatalogueType, PrunedType DEF Refreshed
  <2> QED
    BY <1>3, <2>1 DEF Refreshed, TypeOK, MainPCs
<1>4. CASE RefreshFailed
  BY <1>4 DEF RefreshFailed, TypeOK, MainPCs
<1>5. CASE Wake
  BY <1>5 DEF Wake, TypeOK, MainPCs
<1>6. CASE BeginDrain
  BY <1>6 DEF BeginDrain, ReservationsLeft, TypeOK, MainPCs
<1>7. CASE Ordered
  BY <1>7 DEF Ordered, TypeOK, MainPCs
<1>8. ASSUME NEW q \in Payloads, DrainExisting(q) PROVE TypeOK'
  <2>1. q.req \in Requesters
    BY RequestAssumption DEF Requesters
  <2>2. tprof' \in Profiles
    BY <1>8 DEF DrainExisting, HasLease, ProfileIdForLease
  <2>3. snap' \in Rows
    BY <1>8, RowsOfType DEF DrainExisting, TypeOK
  <2> QED
    BY <1>8, <2>1, <2>2, <2>3 DEF DrainExisting, TypeOK, MainPCs
<1>9. ASSUME NEW q \in Payloads, DrainKeep(q) PROVE TypeOK'
  BY <1>9, ReservationsAfterLookupType DEF DrainKeep, TypeOK
<1>10. ASSUME NEW q \in Payloads, NEW p \in Profiles, DrainGrant(q, p) PROVE TypeOK'
  <2>1. q.req \in Requesters
    BY RequestAssumption DEF Requesters
  <2>2. leases' \in [Profiles -> SUBSET Requesters]
    BY <1>10, <2>1, ReserveType DEF DrainGrant, TypeOK
  <2>3. snap' \in Rows
    BY <1>10, <2>2, RowsOfType DEF DrainGrant
  <2>4. resv' \in [Groups -> Profiles \cup {None}]
    BY <1>10, ReservationsAfterLookupType DEF DrainGrant, TypeOK
  <2> QED
    BY <1>10, <2>1, <2>2, <2>3, <2>4 DEF DrainGrant, TypeOK, MainPCs
<1>11. CASE DrainSaved
  BY <1>11, EmptyTypes DEF DrainSaved, TypeOK, MainPCs
<1>12. CASE DrainSaveFailed
  BY <1>12, EmptyTypes DEF DrainSaveFailed, Visited, TypeOK, MainPCs
<1>13. CASE DrainSignalled
  <2>1. /\ phase' \in [Workflows -> {"new", "waiting", "holding", "released", "dead"}]
        /\ told' \in Rows
    BY <1>13 DEF DrainSignalled, SlotAssigned, TypeOK, Rows
  <2> QED
    BY <1>13, <2>1 DEF DrainSignalled, Visited, TypeOK, MainPCs
<1>14. CASE DrainSignalFailed
  <2>1. /\ phase' \in [Workflows -> {"new", "waiting", "holding", "released", "dead"}]
        /\ told' \in Rows
    BY <1>14 DEF DrainSignalFailed, SlotAssigned, TypeOK, Rows
  <2> QED
    BY <1>14, <2>1 DEF DrainSignalFailed, Visited, TypeOK, MainPCs
<1>15. CASE FirstDrainEnd
  <2>1. PICK gone \in SUBSET Evictable :
          /\ leases' = ReleaseAll(leases, gone)
          /\ unparented' = unparented \ gone
          /\ IF gone # {}
             THEN pc' = "evict_save" /\ snap' = RowsOf(leases') /\ UNCHANGED pass
             ELSE ThenVerify(leases, remaining) /\ UNCHANGED snap
    BY <1>15 DEF FirstDrainEnd
  <2>2. leases' \in [Profiles -> SUBSET Requesters]
    BY <2>1, ReleaseAllType DEF TypeOK
  <2>3. snap' \in Rows /\ pc' \in MainPCs /\ pass' \in {1, 2}
    BY <2>1, <2>2, RowsOfType DEF ThenVerify, TypeOK, MainPCs
  <2> QED
    BY <1>15, <2>1, <2>2, <2>3 DEF FirstDrainEnd, TypeOK
<1>16. CASE EvictionSaved
  BY <1>16, EmptyTypes DEF EvictionSaved, Saved, ThenVerify, TypeOK, MainPCs
<1>17. ASSUME NEW terminal \in SUBSET NotRunning, Verified(terminal) PROVE TypeOK'
  <2>1. leases' \in [Profiles -> SUBSET Requesters]
    BY <1>17, ReleaseAllType DEF Verified, TypeOK
  <2>2. snap' \in Rows /\ pc' \in MainPCs /\ pass' \in {1, 2}
    BY <1>17, <2>1, RowsOfType DEF Verified, TypeOK, MainPCs
  <2> QED
    BY <1>17, <2>1, <2>2 DEF Verified, TypeOK
<1>18. CASE VerifyFailed
  BY <1>18 DEF VerifyFailed, TypeOK, MainPCs
<1>19. CASE ReclaimSaved
  BY <1>19, EmptyTypes DEF ReclaimSaved, Saved, TypeOK, MainPCs
<1>20. CASE SecondDrainEnd
  BY <1>20 DEF SecondDrainEnd, TypeOK, MainPCs
<1>21. CASE ContinueAsNew
  <2>1. SavesInFlight \subseteq Rows
    BY DEF SavesInFlight, TypeOK
  <2>2. db' \in Rows
    BY <1>21, <2>1 DEF ContinueAsNew, TypeOK
  <2>3. cst' \in [Calls -> CallStates] /\ csnap' \in [Calls -> Rows]
    BY <1>21, EmptyTypes DEF ContinueAsNew, TypeOK, CallStates
  <2>4. cat' \in Catalogues
    BY <1>21 DEF ContinueAsNew, TypeOK, Catalogues
  <2> QED
    BY <1>21, <2>2, <2>3, <2>4 DEF ContinueAsNew, TypeOK, MainPCs, Booting
<1> QED
  BY <1>1, <1>2, <1>3, <1>4, <1>5, <1>6, <1>7, <1>8, <1>9, <1>10, <1>11, <1>12, <1>13, <1>14,
     <1>15, <1>16, <1>17, <1>18, <1>19, <1>20, <1>21 DEF Loop

\* The update handlers keep the types.
LEMMA UpdateType ==
    ASSUME TypeOK, NEW c \in Calls, Update(c)
    PROVE  TypeOK'
<1> USE DEF mainVars, queueVars, ledgerVars, policyVars, flagVars, callVars, clientVars,
            UpdateFrame
<1>1. CallOwner[c] \in Owners /\ CallOwner[c] \in Requesters /\ Target[CallOwner[c]] \in Profiles
  BY RequesterAssumption DEF Requesters
<1>2. CASE AcquireSlot(c)
  BY <1>2, EmptyTypes DEF AcquireSlot, Raise, TypeOK, CallStates
<1>3. CASE OwnerNotRunning(c)
  BY <1>3, EmptyTypes DEF OwnerNotRunning, Raise, TypeOK, CallStates
<1>4. ASSUME NEW how \in {"held", "granted"}, Return(c, how)
      PROVE  /\ cst' \in [Calls -> CallStates]
             /\ csnap' \in [Calls -> Rows]
             /\ told' \in Rows
  <2>1. told' \in Rows
    BY <1>1, <1>4 DEF Return, TypeOK, Rows
  <2> QED
    BY <1>4, <2>1, EmptyTypes DEF Return, TypeOK, CallStates
<1>5. CASE AcquireHeld(c)
  BY <1>4, <1>5 DEF AcquireHeld, TypeOK
<1>6. CASE AcquireOrWait(c)
  <2>1. leases' \in [Profiles -> SUBSET Requesters] /\ unparented' \subseteq Owners
    BY <1>1, <1>6, ReserveType DEF AcquireOrWait, TypeOK
  <2>2. cst' \in [Calls -> CallStates] /\ csnap' \in [Calls -> Rows]
    BY <1>6, <2>1, RowsOfType DEF AcquireOrWait, AwaitSave, AwaitChange, TypeOK, CallStates
  <2> QED
    BY <1>6, <2>1, <2>2 DEF AcquireOrWait, ReservationsLeft, TypeOK
<1>7. ASSUME MaintainOrWait(c, Target[CallOwner[c]])
      PROVE  /\ leases' \in [Profiles -> SUBSET Requesters]
             /\ unparented' \subseteq Owners
             /\ cst' \in [Calls -> CallStates]
             /\ csnap' \in [Calls -> Rows]
  <2>1. leases' \in [Profiles -> SUBSET Requesters] /\ unparented' \subseteq Owners
    BY <1>1, <1>7, ReserveType DEF MaintainOrWait, TypeOK
  <2> QED
    BY <1>7, <2>1, RowsOfType DEF MaintainOrWait, AwaitSave, AwaitChange, TypeOK, CallStates
<1>8. CASE Maintain(c)
  <2>1. cat' \in Catalogues
    BY <1>1, <1>8, MaintainedCatalogueType DEF Maintain
  <2>2. /\ leases' \in [Profiles -> SUBSET Requesters]
        /\ unparented' \subseteq Owners
        /\ cst' \in [Calls -> CallStates]
        /\ csnap' \in [Calls -> Rows]
    BY <1>7, <1>8, EmptyTypes DEF Maintain, Raise, TypeOK, CallStates
  <2> QED
    BY <1>8, <2>1, <2>2 DEF Maintain, TypeOK
<1>9. CASE MaintainHeld(c)
  BY <1>4, <1>9 DEF MaintainHeld, TypeOK
<1>10. CASE WaitOver(c)
  <2>1. /\ leases' \in [Profiles -> SUBSET Requesters]
        /\ unparented' \subseteq Owners
        /\ cst' \in [Calls -> CallStates]
        /\ csnap' \in [Calls -> Rows]
    BY <1>7, <1>10, EmptyTypes DEF WaitOver, Raise, TypeOK, CallStates
  <2> QED
    BY <1>10, <2>1 DEF WaitOver, TypeOK
<1>11. CASE UpdateSaved(c)
  <2>1. db' \in Rows
    BY <1>11 DEF UpdateSaved, TypeOK
  <2> QED
    BY <1>4, <1>11, <2>1 DEF UpdateSaved, TypeOK
<1>12. CASE UpdateSaveFailed(c)
  <2>1. leases' \in [Profiles -> SUBSET Requesters] /\ db' \in Rows
    BY <1>1, <1>12, ReserveType DEF UpdateSaveFailed, TypeOK
  <2>2. cst' \in [Calls -> CallStates] /\ csnap' \in [Calls -> Rows]
    BY <1>12, EmptyTypes DEF UpdateSaveFailed, Raise, TypeOK, CallStates
  <2> QED
    BY <1>12, <2>1, <2>2 DEF UpdateSaveFailed, TypeOK
<1> QED
  BY <1>2, <1>3, <1>5, <1>6, <1>8, <1>9, <1>10, <1>11, <1>12 DEF Update

\* TypeOK is inductive.
LEMMA NextType == TypeOK /\ [Next]_vars => TypeOK'
<1> SUFFICES ASSUME TypeOK, [Next]_vars PROVE TypeOK'
  OBVIOUS
<1>1. CASE UNCHANGED vars
  BY <1>1 DEF TypeOK, vars, mainVars, queueVars, ledgerVars, policyVars, flagVars, callVars,
              clientVars
<1> QED
  BY <1>1, SignalsType, OutsideType, BootType, LoopType, UpdateType DEF Next

\* The state always has its type: no interleaving of signals, updates, restarts and
\* failures leaves a variable of the manager outside the values its code expects.
THEOREM TypeCorrect == Spec => []TypeOK
<1> QED
  BY InitType, NextType, PTL DEF Spec

-----------------------------------------------------------------------------
(* One lease per requester.  The drain looks for the requester's lease      *)
(* before it grants one, so the workflows are easy once the main loop runs. *)
(* The difficulty is in startup, which adds leases without looking, and in  *)
(* the table, which carries leases from one execution to the next: the      *)
(* inductive invariant says where the rows of an owner may point and which  *)
(* workflows can have a lease while rows wait to be restored.               *)

OwnerRows(rows) == \A o \in Owners : rows[o] \in {Target[o], None}

\* An activity lease is on the owner's exact profile, wherever it is recorded.
OwnersOnTarget ==
    /\ \A p \in Profiles, o \in Owners : o \in leases[p] => p = Target[o]
    /\ OwnerRows(db) /\ OwnerRows(snap) /\ OwnerRows(loaded)
    /\ \A c \in Calls : OwnerRows(csnap[c])

\* No workflow has two leases.
WorkflowsOnOne ==
    \A w \in Workflows, p, q \in Profiles : w \in leases[p] /\ w \in leases[q] => p = q

\* A workflow whose row is still to be restored has no lease.
UnrestoredHasNone ==
    \A w \in Workflows, p \in Profiles : loaded[w] # None => w \notin leases[p]

\* Before the rows are read no workflow has a lease.
NoneBeforeLoad ==
    pc \in {"down", "boot_leases"} \/ (pc = "boot_profiles" /\ fresh) =>
        \A w \in Workflows, p \in Profiles : w \notin leases[p]

\* Rows wait to be restored only while startup restores.
LoadedOnlyAtBoot == pc \notin {"boot_rows", "restore", "boot_signal"} => loaded = NoRows

LeaseInv ==
    /\ OwnersOnTarget
    /\ WorkflowsOnOne
    /\ UnrestoredHasNone
    /\ NoneBeforeLoad
    /\ LoadedOnlyAtBoot

\* The inductive invariant gives the property.
LEMMA LeaseInvImpliesOneLease == TypeOK /\ LeaseInv => OneLeasePerRequester
  BY DEF TypeOK, LeaseInv, OwnersOnTarget, WorkflowsOnOne, OneLeasePerRequester, Requesters

\* The empty table has every owner on its target.
LEMMA NoOwnerRows == OwnerRows(NoRows)
  BY DEF OwnerRows, NoRows, Requesters

\* A snapshot of a ledger with the owners on their targets has them there, too.
LEMMA SnapshotOwnerRows ==
    ASSUME NEW ls \in [Profiles -> SUBSET Requesters],
           \A p \in Profiles, o \in Owners : o \in ls[p] => p = Target[o]
    PROVE  OwnerRows(RowsOf(ls))
<1> SUFFICES ASSUME NEW o \in Owners PROVE RowsOf(ls)[o] \in {Target[o], None}
  BY DEF OwnerRows
<1>1. CASE \E p \in Profiles : o \in ls[p]
  <2>1. RowsOf(ls)[o] = CHOOSE p \in Profiles : o \in ls[p]
    BY <1>1 DEF RowsOf, Requesters
  <2>2. (CHOOSE p \in Profiles : o \in ls[p]) \in Profiles
        /\ o \in ls[CHOOSE p \in Profiles : o \in ls[p]]
    BY <1>1
  <2> QED
    BY <2>1, <2>2
<1>2. CASE ~ \E p \in Profiles : o \in ls[p]
  BY <1>2 DEF RowsOf, Requesters
<1> QED
  BY <1>1, <1>2

\* Steps that only take leases away, and leave the rows and the place of the main
\* coroutine alone, keep the invariant.
LEMMA ShrinkKeepsLeaseInv ==
    ASSUME TypeOK, LeaseInv, \A p \in Profiles : leases'[p] \subseteq leases[p],
           UNCHANGED <<pc, fresh, loaded>>,
           OwnerRows(db)', OwnerRows(snap)', (\A c \in Calls : OwnerRows(csnap[c]))'
    PROVE  LeaseInv'
  BY DEF LeaseInv, OwnersOnTarget, WorkflowsOnOne, UnrestoredHasNone, NoneBeforeLoad,
         LoadedOnlyAtBoot, OwnerRows

\* Before the first execution there are no leases and no rows.
LEMMA InitLease == Init => LeaseInv
  BY NoOwnerRows DEF Init, LeaseInv, OwnersOnTarget, WorkflowsOnOne, UnrestoredHasNone,
     NoneBeforeLoad, LoadedOnlyAtBoot, NoLeases, NoRows, Requesters

\* After the execution has stopped there is no lease left, and the table holds
\* either what it did or a snapshot that was being saved.
LEMMA StopLease == TypeOK /\ LeaseInv /\ Stop => LeaseInv'
<1> SUFFICES ASSUME TypeOK, LeaseInv, Stop PROVE LeaseInv'
  OBVIOUS
<1>1. \A rows \in SavesInFlight \cup {db} : OwnerRows(rows)
  BY DEF SavesInFlight, LeaseInv, OwnersOnTarget
<1>2. OwnerRows(db) /\ OwnerRows(db)'
  BY <1>1 DEF Stop, OwnerRows
<1>3. \A p \in Profiles : leases'[p] = {}
  BY DEF Stop, NoLeases
<1>4. snap' = NoRows /\ loaded' = NoRows /\ \A c \in Calls : csnap'[c] = NoRows
  BY DEF Stop
<1>5. OwnerRows(snap)' /\ OwnerRows(loaded)' /\ (\A c \in Calls : OwnerRows(csnap[c]))'
  BY <1>4, NoOwnerRows DEF OwnerRows, NoRows
<1>6. \A w \in Workflows : loaded'[w] = None
  BY <1>4 DEF NoRows, Requesters
<1> QED
  BY <1>2, <1>3, <1>4, <1>5, <1>6
  DEF LeaseInv, OwnersOnTarget, WorkflowsOnOne, UnrestoredHasNone, NoneBeforeLoad,
      LoadedOnlyAtBoot

\* Signals only take leases away.
LEMMA SignalsLease == TypeOK /\ LeaseInv /\ Signals => LeaseInv'
<1> SUFFICES ASSUME TypeOK, LeaseInv, Signals PROVE LeaseInv'
  OBVIOUS
<1> USE DEF mainVars, queueVars, ledgerVars, policyVars, flagVars, callVars
<1>1. ASSUME UNCHANGED <<leases, pc, fresh, loaded, db, snap, csnap>> PROVE LeaseInv'
  <2>1. OwnerRows(db)' /\ OwnerRows(snap)' /\ (\A c \in Calls : OwnerRows(csnap[c]))'
    BY <1>1 DEF LeaseInv, OwnersOnTarget, OwnerRows
  <2> QED
    BY <1>1, <2>1, ShrinkKeepsLeaseInv
<1>2. ASSUME NEW r, NEW p \in Profiles \cup {None}, NEW group, NEW handoff,
             ReleaseSlot(r, p, group, handoff)
      PROVE  LeaseInv'
  <2>1. \A x \in Profiles : leases'[x] \subseteq leases[x]
    BY <1>2 DEF ReleaseSlot, Release, TypeOK
  <2>2. UNCHANGED <<pc, fresh, loaded, db, snap, csnap>>
    BY <1>2 DEF ReleaseSlot
  <2>3. OwnerRows(db)' /\ OwnerRows(snap)' /\ (\A c \in Calls : OwnerRows(csnap[c]))'
    BY <2>2 DEF LeaseInv, OwnersOnTarget, OwnerRows
  <2> QED
    BY <2>1, <2>2, <2>3, ShrinkKeepsLeaseInv
<1>3. \A r \in Requesters : told[r] \in Profiles \cup {None}
  BY DEF TypeOK, Rows
<1>4. ASSUME NEW q \in Payloads, RequestSlot(q) PROVE LeaseInv'
  BY <1>1, <1>4 DEF RequestSlot
<1>5. ASSUME NEW w \in Workflows, NEW handoff \in BOOLEAN, WorkflowRelease(w, handoff)
      PROVE  LeaseInv'
  BY <1>2, <1>3, <1>5 DEF WorkflowRelease, Requesters
<1>6. ASSUME NEW w \in Workflows, Withdraw(w) PROVE LeaseInv'
  BY <1>2, <1>6 DEF Withdraw
<1>7. ASSUME NEW o \in Owners, OwnerRelease(o) PROVE LeaseInv'
  BY <1>2, <1>3, <1>7 DEF OwnerRelease, Requesters
<1>8. ASSUME NEW p \in Profiles, ReportCooldown(p) PROVE LeaseInv'
  BY <1>1, <1>8 DEF ReportCooldown
<1>9. CASE SyncProfiles
  BY <1>1, <1>9 DEF SyncProfiles
<1>10. CASE Shutdown
  BY <1>1, <1>10 DEF Shutdown
<1> QED
  BY <1>4, <1>5, <1>6, <1>7, <1>8, <1>9, <1>10 DEF Signals

\* What happens outside touches the ledger only by ending the execution.
LEMMA OutsideLease == TypeOK /\ LeaseInv /\ Outside => LeaseInv'
<1> SUFFICES ASSUME TypeOK, LeaseInv, Outside PROVE LeaseInv'
  OBVIOUS
<1> USE DEF mainVars, queueVars, ledgerVars, policyVars, flagVars, callVars
<1>1. ASSUME UNCHANGED <<leases, pc, fresh, loaded, snap, csnap>>, OwnerRows(db)'
      PROVE  LeaseInv'
  <2>1. OwnerRows(snap)' /\ (\A c \in Calls : OwnerRows(csnap[c]))'
    BY <1>1 DEF LeaseInv, OwnersOnTarget, OwnerRows
  <2> QED
    BY <1>1, <2>1, ShrinkKeepsLeaseInv
<1>2. db' = db => OwnerRows(db)'
  BY DEF LeaseInv, OwnersOnTarget, OwnerRows
<1>3. ASSUME NEW w \in Workflows, ReleaseLost(w) PROVE LeaseInv'
  BY <1>1, <1>2, <1>3 DEF ReleaseLost
<1>4. ASSUME NEW r \in Requesters, RemoveRow(r) PROVE LeaseInv'
  <2>1. OwnerRows(db)'
    BY <1>4 DEF RemoveRow, LeaseInv, OwnersOnTarget, OwnerRows, TypeOK, Rows, Requesters
  <2> QED
    BY <1>1, <1>4, <2>1 DEF RemoveRow
<1>5. CASE EditProfiles
  BY <1>1, <1>2, <1>5 DEF EditProfiles
<1>6. ASSUME NEW w \in Workflows, Terminate(w) PROVE LeaseInv'
  BY <1>1, <1>2, <1>6 DEF Terminate
<1>7. CASE Crash
  BY <1>7, StopLease DEF Crash
<1>8. CASE Start
  <2>1. /\ UNCHANGED <<leases, fresh, loaded, snap, csnap, db>>
        /\ pc = "down" /\ pc' = "boot_profiles"
    BY <1>8 DEF Start
  <2> QED
    BY <2>1 DEF LeaseInv, OwnersOnTarget, WorkflowsOnOne, UnrestoredHasNone, NoneBeforeLoad,
                LoadedOnlyAtBoot, OwnerRows
<1> QED
  BY <1>3, <1>4, <1>5, <1>6, <1>7, <1>8 DEF Outside

\* Recovery restores each row once, and no workflow has a lease before.
LEMMA BootLease == TypeOK /\ LeaseInv /\ Boot => LeaseInv'
<1> SUFFICES ASSUME TypeOK, LeaseInv, Boot PROVE LeaseInv'
  OBVIOUS
<1> USE DEF mainVars, queueVars, ledgerVars, policyVars, flagVars, callVars
<1>1. CASE BootProfiles
  <2>1. /\ UNCHANGED <<leases, fresh, loaded, snap, csnap, db>>
        /\ pc = "boot_profiles"
        /\ pc' \in {"boot_leases", "boot_refresh", "top"}
        /\ pc' = "boot_leases" => fresh
    BY <1>1 DEF BootProfiles, AfterBootProfiles
  <2> QED
    BY <2>1 DEF LeaseInv, OwnersOnTarget, WorkflowsOnOne, UnrestoredHasNone, NoneBeforeLoad,
                LoadedOnlyAtBoot, OwnerRows
<1>2. CASE LoadRows
  <2>1. /\ UNCHANGED <<leases, fresh, snap, csnap, db>>
        /\ pc = "boot_leases" /\ pc' = "boot_rows" /\ loaded' = db
    BY <1>2 DEF LoadRows
  <2> QED
    BY <2>1 DEF LeaseInv, OwnersOnTarget, WorkflowsOnOne, UnrestoredHasNone, NoneBeforeLoad,
                LoadedOnlyAtBoot, OwnerRows
<1>3. CASE RowsLoaded
  <2>1. /\ UNCHANGED <<leases, fresh, loaded, snap, csnap, db>>
        /\ pc = "boot_rows" /\ pc' = "restore"
    BY <1>3 DEF RowsLoaded
  <2> QED
    BY <2>1 DEF LeaseInv, OwnersOnTarget, WorkflowsOnOne, UnrestoredHasNone, NoneBeforeLoad,
                LoadedOnlyAtBoot, OwnerRows
<1>4. CASE LoadFailed
  BY <1>4, StopLease DEF LoadFailed
<1>5. ASSUME NEW r \in Requesters, RestoreRow(r) PROVE LeaseInv'
  <2>1. /\ UNCHANGED <<fresh, snap, csnap, db>>
        /\ pc = "restore" /\ pc' \in {"restore", "boot_signal"}
        /\ leases' = [leases EXCEPT ![loaded[r]] = @ \cup {r}]
        /\ loaded' = [loaded EXCEPT ![r] = None]
    BY <1>5 DEF RestoreRow, Reserve
  <2>2. loaded[r] \in Profiles /\ loaded[r] # None
    BY <1>5, SelectionNoneAssumption DEF RestoreRow, TypeOK, Catalogues
  <2>3. \A p \in Profiles : \A x : x \in leases'[p] <=> x \in leases[p] \/ (x = r /\ p = loaded[r])
    BY <2>1, <2>2 DEF TypeOK
  <2>4. \A x \in Requesters : loaded'[x] = IF x = r THEN None ELSE loaded[x]
    BY <2>1 DEF TypeOK, Rows
  <2>5. /\ \A p \in Profiles, o \in Owners : o \in leases'[p] => p = Target[o]
        /\ OwnerRows(loaded')
    BY <2>2, <2>3, <2>4 DEF LeaseInv, OwnersOnTarget, OwnerRows, Requesters
  <2>6. WorkflowsOnOne' /\ UnrestoredHasNone'
    BY <2>2, <2>3, <2>4 DEF LeaseInv, WorkflowsOnOne, UnrestoredHasNone, Requesters
  <2> QED
    BY <2>1, <2>5, <2>6 DEF LeaseInv, OwnersOnTarget, NoneBeforeLoad, LoadedOnlyAtBoot, OwnerRows
<1>6. CASE RestoreDone
  <2>1. /\ UNCHANGED <<leases, fresh, loaded, snap, csnap, db>>
        /\ pc' \in {"boot_refresh", "top"} /\ loaded = NoRows
    BY <1>6 DEF RestoreDone
  <2> QED
    BY <2>1 DEF LeaseInv, OwnersOnTarget, WorkflowsOnOne, UnrestoredHasNone, NoneBeforeLoad,
                LoadedOnlyAtBoot, OwnerRows
<1>7. CASE BootSignalled
  <2>1. /\ UNCHANGED <<leases, fresh, loaded, snap, csnap, db>>
        /\ pc = "boot_signal" /\ pc' = "restore"
    BY <1>7 DEF BootSignalled
  <2> QED
    BY <2>1 DEF LeaseInv, OwnersOnTarget, WorkflowsOnOne, UnrestoredHasNone, NoneBeforeLoad,
                LoadedOnlyAtBoot, OwnerRows
<1>8. CASE BootRefresh
  <2>1. /\ UNCHANGED <<leases, fresh, loaded, snap, csnap, db>>
        /\ pc = "boot_refresh" /\ pc' = "top"
    BY <1>8 DEF BootRefresh
  <2> QED
    BY <2>1 DEF LeaseInv, OwnersOnTarget, WorkflowsOnOne, UnrestoredHasNone, NoneBeforeLoad,
                LoadedOnlyAtBoot, OwnerRows
<1> QED
  BY <1>1, <1>2, <1>3, <1>4, <1>5, <1>6, <1>7, <1>8 DEF Boot

\* Outside of the restoring part of startup only the two statements about the
\* ledger itself have to be shown.
LEMMA LoopKeepsLeaseInv ==
    ASSUME LeaseInv, pc \notin {"boot_rows", "restore", "boot_signal"},
           pc' \notin {"down", "boot_leases"}, pc' = "boot_profiles" => ~fresh',
           UNCHANGED loaded, OwnersOnTarget', WorkflowsOnOne'
    PROVE  LeaseInv'
<1>1. \A w \in Workflows : loaded'[w] = None
  BY DEF LeaseInv, LoadedOnlyAtBoot, NoRows, Requesters
<1> QED
  BY <1>1 DEF LeaseInv, UnrestoredHasNone, NoneBeforeLoad, LoadedOnlyAtBoot

\* The drain reserves only for a workflow that has no lease yet.
LEMMA LoopLease == TypeOK /\ TypeOK' /\ LeaseInv /\ Loop => LeaseInv'
<1> SUFFICES ASSUME TypeOK, TypeOK', LeaseInv, Loop PROVE LeaseInv'
  OBVIOUS
<1> USE DEF mainVars, queueVars, ledgerVars, policyVars, flagVars, callVars
<1> DEFINE Away(place) == place \notin Booting \cup {"down"}
\* steps that leave the ledger alone and save or load a snapshot at most
<1>1. ASSUME Away(pc), Away(pc'), UNCHANGED <<leases, loaded, csnap>>,
             OwnerRows(db)', OwnerRows(snap)'
      PROVE  LeaseInv'
  <2>1. OwnersOnTarget' /\ WorkflowsOnOne'
    BY <1>1 DEF LeaseInv, OwnersOnTarget, WorkflowsOnOne, OwnerRows
  <2> QED
    BY <1>1, <2>1, LoopKeepsLeaseInv DEF Booting
\* steps that take leases away
<1>2. ASSUME Away(pc), Away(pc'), \A p \in Profiles : leases'[p] \subseteq leases[p],
             UNCHANGED <<loaded, csnap, db>>, snap' = snap \/ snap' = RowsOf(leases')
      PROVE  LeaseInv'
  <2>1. \A p \in Profiles, o \in Owners : o \in leases'[p] => p = Target[o]
    BY <1>2 DEF LeaseInv, OwnersOnTarget
  <2>2. OwnerRows(RowsOf(leases'))
    BY <2>1, SnapshotOwnerRows DEF TypeOK
  <2>3. OwnersOnTarget' /\ WorkflowsOnOne'
    BY <1>2, <2>1, <2>2 DEF LeaseInv, OwnersOnTarget, WorkflowsOnOne, OwnerRows
  <2> QED
    BY <1>2, <2>3, LoopKeepsLeaseInv DEF Booting
<1>3. OwnerRows(db) /\ OwnerRows(snap) /\ OwnerRows(NoRows)
  BY NoOwnerRows DEF LeaseInv, OwnersOnTarget
<1>4. CASE LoopExit
  BY <1>4, StopLease DEF LoopExit
<1>5. CASE LoopTop
  BY <1>1, <1>3, <1>5 DEF LoopTop, Booting, OwnerRows
<1>6. CASE Refreshed
  BY <1>1, <1>3, <1>6 DEF Refreshed, Booting, OwnerRows
<1>7. CASE RefreshFailed
  BY <1>1, <1>3, <1>7 DEF RefreshFailed, Booting, OwnerRows
<1>8. CASE Wake
  BY <1>1, <1>3, <1>8 DEF Wake, Booting, OwnerRows
<1>9. CASE BeginDrain
  BY <1>1, <1>3, <1>9 DEF BeginDrain, Booting, OwnerRows
<1>10. CASE Ordered
  BY <1>1, <1>3, <1>10 DEF Ordered, Booting, OwnerRows
<1>11. ASSUME NEW q \in Payloads, DrainExisting(q) PROVE LeaseInv'
  <2>1. /\ pc = "drain" /\ pc' = "save"
        /\ UNCHANGED <<leases, loaded, csnap, db>>
        /\ snap' = RowsOf(leases')
    BY <1>11 DEF DrainExisting
  <2> QED
    BY <1>2, <2>1 DEF Booting
<1>12. ASSUME NEW q \in Payloads, DrainKeep(q) PROVE LeaseInv'
  BY <1>1, <1>3, <1>12 DEF DrainKeep, Booting, OwnerRows
<1>13. ASSUME NEW q \in Payloads, NEW p \in Profiles, DrainGrant(q, p) PROVE LeaseInv'
  <2>1. /\ pc = "drain" /\ pc' = "save"
        /\ UNCHANGED <<loaded, csnap, db>>
        /\ leases' = [leases EXCEPT ![p] = @ \cup {q.req}]
        /\ snap' = RowsOf(leases')
        /\ \A x \in Profiles : q.req \notin leases[x]
    BY <1>13 DEF DrainGrant, Reserve, HasLease
  <2>2. q.req \in Workflows /\ q.req \notin Owners
    BY RequestAssumption, RequesterAssumption
  <2>3. \A x \in Profiles : \A r : r \in leases'[x] <=> r \in leases[x] \/ (r = q.req /\ x = p)
    BY <2>1 DEF TypeOK
  <2>4. \A x \in Profiles, o \in Owners : o \in leases'[x] => x = Target[o]
    BY <2>2, <2>3 DEF LeaseInv, OwnersOnTarget
  <2>5. OwnerRows(snap)'
    BY <2>1, <2>4, SnapshotOwnerRows DEF TypeOK, OwnerRows
  <2>6. OwnersOnTarget'
    <3>1. OwnerRows(db)' /\ OwnerRows(loaded)' /\ (\A c \in Calls : OwnerRows(csnap[c]))'
      BY <2>1 DEF LeaseInv, OwnersOnTarget, OwnerRows
    <3> QED
      BY <2>4, <2>5, <3>1 DEF OwnersOnTarget
  <2>7. WorkflowsOnOne'
    <3>1. SUFFICES ASSUME NEW w \in Workflows, NEW x \in Profiles, NEW y \in Profiles,
                          w \in leases'[x], w \in leases'[y]
                   PROVE  x = y
      BY DEF WorkflowsOnOne
    <3>2. CASE w = q.req
      <4>1. \A z \in Profiles : w \notin leases[z]
        BY <2>1, <3>2
      <4> QED
        BY <2>3, <3>1, <4>1
    <3>3. CASE w # q.req
      BY <2>3, <3>1, <3>3 DEF LeaseInv, WorkflowsOnOne
    <3> QED
      BY <3>2, <3>3
  <2> QED
    BY <2>1, <2>6, <2>7, LoopKeepsLeaseInv
<1>14. CASE DrainSaved
  BY <1>1, <1>3, <1>14 DEF DrainSaved, Booting, OwnerRows
<1>15. CASE DrainSaveFailed
  BY <1>1, <1>3, <1>15 DEF DrainSaveFailed, Visited, Booting, OwnerRows
<1>16. CASE DrainSignalled
  BY <1>1, <1>3, <1>16 DEF DrainSignalled, Visited, Booting, OwnerRows
<1>17. CASE DrainSignalFailed
  BY <1>1, <1>3, <1>17 DEF DrainSignalFailed, Visited, Booting, OwnerRows
<1>18. CASE FirstDrainEnd
  <2>1. /\ pc = "drain" /\ pc' \in {"evict_save", "verify", "prep"}
        /\ \A p \in Profiles : leases'[p] \subseteq leases[p]
        /\ UNCHANGED <<loaded, csnap, db>>
        /\ snap' = snap \/ snap' = RowsOf(leases')
    BY <1>18 DEF FirstDrainEnd, ReleaseAll, ThenVerify
  <2> QED
    BY <1>2, <2>1 DEF Booting
<1>19. CASE EvictionSaved
  BY <1>1, <1>3, <1>19 DEF EvictionSaved, Saved, ThenVerify, Booting, OwnerRows
<1>20. ASSUME NEW terminal \in SUBSET NotRunning, Verified(terminal) PROVE LeaseInv'
  <2>1. /\ pc = "verify" /\ pc' \in {"reclaim_save", "prep"}
        /\ \A p \in Profiles : leases'[p] \subseteq leases[p]
        /\ UNCHANGED <<loaded, csnap, db>>
        /\ snap' = snap \/ snap' = RowsOf(leases')
    BY <1>20 DEF Verified, ReleaseAll
  <2> QED
    BY <1>2, <2>1 DEF Booting
<1>21. CASE VerifyFailed
  BY <1>1, <1>3, <1>21 DEF VerifyFailed, Booting, OwnerRows
<1>22. CASE ReclaimSaved
  BY <1>1, <1>3, <1>22 DEF ReclaimSaved, Saved, Booting, OwnerRows
<1>23. CASE SecondDrainEnd
  BY <1>1, <1>3, <1>23 DEF SecondDrainEnd, Booting, OwnerRows
<1>24. CASE ContinueAsNew
  <2>1. /\ pc = "drain" /\ pc' \in {"boot_refresh", "boot_profiles"} /\ ~fresh'
        /\ UNCHANGED <<leases, loaded, snap>>
        /\ db' \in {db} \cup SavesInFlight
        /\ \A c \in Calls : csnap'[c] = NoRows
    BY <1>24 DEF ContinueAsNew
  <2>2. OwnerRows(db)'
    BY <2>1 DEF SavesInFlight, LeaseInv, OwnersOnTarget, OwnerRows
  <2>3. OwnersOnTarget' /\ WorkflowsOnOne'
    BY <1>3, <2>1, <2>2 DEF LeaseInv, OwnersOnTarget, WorkflowsOnOne, OwnerRows
  <2> QED
    BY <2>1, <2>3, LoopKeepsLeaseInv
<1> QED
  BY <1>4, <1>5, <1>6, <1>7, <1>8, <1>9, <1>10, <1>11, <1>12, <1>13, <1>14, <1>15, <1>16,
     <1>17, <1>18, <1>19, <1>20, <1>21, <1>22, <1>23, <1>24 DEF Loop

\* An update reserves nothing but its owner's target.
LEMMA UpdateLease ==
    ASSUME TypeOK, TypeOK', LeaseInv, NEW c \in Calls, Update(c)
    PROVE  LeaseInv'
<1> USE DEF mainVars, queueVars, ledgerVars, policyVars, flagVars, callVars, UpdateFrame
<1> DEFINE o == CallOwner[c]
<1>1. o \in Owners /\ o \notin Workflows /\ Target[o] \in Profiles
  BY RequesterAssumption
<1>2. OwnerRows(db) /\ OwnerRows(snap) /\ OwnerRows(NoRows) /\ \A d \in Calls : OwnerRows(csnap[d])
  BY NoOwnerRows DEF LeaseInv, OwnersOnTarget
\* an update adds no lease but the owner's on its target, and its save carries a
\* snapshot of the new ledger
<1>3. ASSUME UNCHANGED <<pc, fresh, loaded, snap>>,
             \A p \in Profiles, r \in Requesters :
                r \in leases'[p] => r \in leases[p] \/ (r = o /\ p = Target[o]),
             OwnerRows(db)',
             \A d \in Calls : csnap'[d] \in {csnap[d], NoRows, RowsOf(leases')}
      PROVE  LeaseInv'
  <2>1. \A p \in Profiles, x \in Owners : x \in leases'[p] => p = Target[x]
    BY <1>3 DEF LeaseInv, OwnersOnTarget, Requesters
  <2>2. OwnerRows(RowsOf(leases'))
    BY <2>1, SnapshotOwnerRows DEF TypeOK
  <2>3. \A d \in Calls : OwnerRows(csnap'[d])
    BY <1>2, <1>3, <2>2 DEF OwnerRows
  <2>4. OwnersOnTarget'
    BY <1>2, <1>3, <2>1, <2>3 DEF LeaseInv, OwnersOnTarget, OwnerRows
  <2>5. \A p \in Profiles, w \in Workflows : w \in leases'[p] => w \in leases[p]
    BY <1>1, <1>3 DEF Requesters
  <2> QED
    BY <1>3, <2>4, <2>5 DEF LeaseInv, WorkflowsOnOne, UnrestoredHasNone, NoneBeforeLoad,
                           LoadedOnlyAtBoot
<1>4. db' = db => OwnerRows(db)'
  BY <1>2 DEF OwnerRows
<1>5. ASSUME leases' = leases PROVE \A p \in Profiles, r \in Requesters :
                r \in leases'[p] => r \in leases[p] \/ (r = o /\ p = Target[o])
  BY <1>5
<1>6. ASSUME leases' = Reserve(leases, o, Target[o]) PROVE \A p \in Profiles, r \in Requesters :
                r \in leases'[p] => r \in leases[p] \/ (r = o /\ p = Target[o])
  BY <1>1, <1>6 DEF Reserve, TypeOK
<1>7. Raise(c) => \A d \in Calls : csnap'[d] \in {csnap[d], NoRows, RowsOf(leases')}
  BY DEF Raise, TypeOK
<1>8. AwaitSave(c) => \A d \in Calls : csnap'[d] \in {csnap[d], NoRows, RowsOf(leases')}
  BY DEF AwaitSave, TypeOK
<1>9. CASE AcquireSlot(c)
  BY <1>3, <1>4, <1>5, <1>7, <1>9 DEF AcquireSlot
<1>10. CASE OwnerNotRunning(c)
  BY <1>3, <1>4, <1>5, <1>7, <1>10 DEF OwnerNotRunning
<1>11. CASE AcquireHeld(c)
  BY <1>3, <1>4, <1>5, <1>11 DEF AcquireHeld, Return, TypeOK
<1>12. CASE AcquireOrWait(c)
  BY <1>3, <1>4, <1>5, <1>6, <1>8, <1>12 DEF AcquireOrWait, AwaitChange
<1>13. CASE Maintain(c)
  BY <1>3, <1>4, <1>5, <1>6, <1>7, <1>8, <1>13 DEF Maintain, MaintainOrWait, AwaitChange
<1>14. CASE MaintainHeld(c)
  BY <1>3, <1>4, <1>5, <1>14 DEF MaintainHeld, Return, TypeOK
<1>15. CASE WaitOver(c)
  BY <1>3, <1>4, <1>5, <1>6, <1>7, <1>8, <1>15 DEF WaitOver, MaintainOrWait, AwaitChange
<1>16. CASE UpdateSaved(c)
  <2>1. OwnerRows(db)'
    BY <1>2, <1>16 DEF UpdateSaved, OwnerRows
  <2> QED
    BY <1>3, <1>5, <1>16, <2>1 DEF UpdateSaved, Return, TypeOK
<1>17. CASE UpdateSaveFailed(c)
  <2>1. OwnerRows(db)'
    BY <1>2, <1>17 DEF UpdateSaveFailed, OwnerRows
  <2>2. \A p \in Profiles : leases'[p] \subseteq leases[p]
    BY <1>17 DEF UpdateSaveFailed, Release, TypeOK
  <2> QED
    BY <1>3, <1>7, <1>17, <2>1, <2>2 DEF UpdateSaveFailed
<1> QED
  BY <1>9, <1>10, <1>11, <1>12, <1>13, <1>14, <1>15, <1>16, <1>17 DEF Update

\* LeaseInv is inductive relative to TypeOK.
LEMMA NextLease == TypeOK /\ LeaseInv /\ [Next]_vars => LeaseInv'
<1> SUFFICES ASSUME TypeOK, LeaseInv, [Next]_vars PROVE LeaseInv'
  OBVIOUS
<1>1. TypeOK'
  BY NextType
<1>2. CASE UNCHANGED vars
  BY <1>2 DEF vars, mainVars, queueVars, ledgerVars, policyVars, flagVars, callVars, clientVars,
              LeaseInv, OwnersOnTarget, WorkflowsOnOne, UnrestoredHasNone, NoneBeforeLoad,
              LoadedOnlyAtBoot, OwnerRows
<1> QED
  BY <1>1, <1>2, SignalsLease, OutsideLease, BootLease, LoopLease, UpdateLease DEF Next

\* No requester ever has two leases, under every behaviour of the environment:
\* repeated requests, retried updates, updates during startup, late commits of a
\* stopped execution's saves, restarts and continue-as-new.
THEOREM OneLeaseEach == Spec => []OneLeasePerRequester
<1>1. Init => TypeOK /\ LeaseInv
  BY InitType, InitLease
<1>2. TypeOK /\ LeaseInv /\ [Next]_vars => (TypeOK /\ LeaseInv)'
  BY NextType, NextLease
<1> QED
  BY <1>1, <1>2, LeaseInvImpliesOneLease, PTL DEF Spec
-----------------------------------------------------------------------------
(* A leased profile is known                                               *)

\* A step that forgets no profile and adds leases on known profiles only.
LEMMA KnownKept ==
    ASSUME LeasedIsKnown, cat.known \subseteq cat'.known,
           \A p \in Profiles : leases'[p] \subseteq leases[p] \/ p \in cat'.known
    PROVE  LeasedIsKnown'
BY DEF LeasedIsKnown

\* At the end of an execution nothing is leased.
LEMMA StopKnown == Stop => LeasedIsKnown'
BY DEF Stop, LeasedIsKnown, NoLeases

\* The signal handlers take leases back.
LEMMA SignalsKnown == TypeOK /\ LeasedIsKnown /\ Signals => LeasedIsKnown'
<1> SUFFICES ASSUME TypeOK, LeasedIsKnown, Signals PROVE LeasedIsKnown'
  OBVIOUS
<1> USE DEF ledgerVars, policyVars
<1>1. ASSUME NEW r, NEW p, NEW group, NEW handoff, ReleaseSlot(r, p, group, handoff)
      PROVE  LeasedIsKnown'
  <2>1. cat' = cat /\ \A x \in Profiles : leases'[x] \subseteq leases[x]
    BY <1>1 DEF ReleaseSlot, Release, TypeOK
  <2> QED
    BY <2>1, KnownKept
<1>2. ASSUME NEW q \in Payloads, RequestSlot(q) PROVE LeasedIsKnown'
  BY <1>2 DEF RequestSlot, LeasedIsKnown
<1>3. ASSUME NEW w \in Workflows, NEW handoff \in BOOLEAN, WorkflowRelease(w, handoff)
      PROVE  LeasedIsKnown'
  BY <1>1, <1>3 DEF WorkflowRelease
<1>4. ASSUME NEW w \in Workflows, Withdraw(w) PROVE LeasedIsKnown'
  BY <1>1, <1>4 DEF Withdraw
<1>5. ASSUME NEW o \in Owners, OwnerRelease(o) PROVE LeasedIsKnown'
  BY <1>1, <1>5 DEF OwnerRelease
<1>6. CASE (\E p \in Profiles : ReportCooldown(p)) \/ SyncProfiles \/ Shutdown
  BY <1>6 DEF ReportCooldown, SyncProfiles, Shutdown, LeasedIsKnown
<1> QED
  BY <1>2, <1>3, <1>4, <1>5, <1>6 DEF Signals

\* What happens outside the manager leaves the ledger and the profiles alone, or ends
\* the execution.
LEMMA OutsideKnown == LeasedIsKnown /\ Outside => LeasedIsKnown'
<1> SUFFICES ASSUME LeasedIsKnown, Outside PROVE LeasedIsKnown'
  OBVIOUS
<1>1. CASE Crash
  BY <1>1, StopKnown DEF Crash
<1>2. CASE \/ \E r \in Requesters : RemoveRow(r)
           \/ EditProfiles
           \/ \E w \in Workflows : ReleaseLost(w) \/ Terminate(w)
           \/ Start
  BY <1>2 DEF RemoveRow, EditProfiles, ReleaseLost, Terminate, Start, ledgerVars, policyVars,
              LeasedIsKnown
<1> QED
  BY <1>1, <1>2 DEF Outside

\* A row is restored only of a known profile.
LEMMA BootKnown == TypeOK /\ LeasedIsKnown /\ Boot => LeasedIsKnown'
<1> SUFFICES ASSUME TypeOK, LeasedIsKnown, Boot PROVE LeasedIsKnown'
  OBVIOUS
<1> USE DEF ledgerVars, policyVars
<1>1. CASE BootProfiles \/ BootRefresh
  BY <1>1, KnownKept DEF BootProfiles, BootRefresh, AppliedCatalogue
<1>2. CASE LoadFailed
  BY <1>2, StopKnown DEF LoadFailed
<1>3. ASSUME NEW r \in Requesters, RestoreRow(r) PROVE LeasedIsKnown'
  <2>1. /\ loaded[r] \in cat.known /\ cat' = cat
        /\ leases' = [leases EXCEPT ![loaded[r]] = @ \cup {r}]
    BY <1>3 DEF RestoreRow, Reserve
  <2>2. \A p \in Profiles : leases'[p] \subseteq leases[p] \/ p \in cat'.known
    BY <2>1 DEF TypeOK
  <2> QED
    BY <2>1, <2>2, KnownKept
<1>4. CASE LoadRows \/ RowsLoaded \/ RestoreDone \/ BootSignalled
  BY <1>4 DEF LoadRows, RowsLoaded, RestoreDone, BootSignalled, LeasedIsKnown
<1> QED
  BY <1>1, <1>2, <1>3, <1>4 DEF Boot

\* The main loop: only a known profile is granted, and only an unleased one is pruned.
LEMMA LoopKnown == TypeOK /\ LeasedIsKnown /\ Loop => LeasedIsKnown'
<1> SUFFICES ASSUME TypeOK, LeasedIsKnown, Loop PROVE LeasedIsKnown'
  OBVIOUS
<1> USE DEF ledgerVars, policyVars
<1>1. CASE LoopExit
  BY <1>1, StopKnown DEF LoopExit
<1>2. CASE Refreshed
  <2>1. leases' = leases /\ cat' = Pruned(AppliedCatalogue)
    BY <1>2 DEF Refreshed
  <2>2. \A p \in Profiles : leases[p] # {} => p \in AppliedCatalogue.known
    BY DEF LeasedIsKnown, AppliedCatalogue
  <2>3. \A p \in Profiles : leases[p] # {} => p \in Pruned(AppliedCatalogue).known
    BY <2>2 DEF Pruned
  <2> QED
    BY <2>1, <2>3 DEF LeasedIsKnown
<1>3. ASSUME NEW q \in Payloads, NEW p \in Profiles, DrainGrant(q, p) PROVE LeasedIsKnown'
  <2>1. /\ cat' = cat /\ leases' = [leases EXCEPT ![p] = @ \cup {q.req}]
        /\ p \in FindAvailableProfile(cat, leases, cooling, resv, q)
    BY <1>3 DEF DrainGrant, Reserve
  <2>2. p \in cat.known
    BY <2>1, FindAvailableProfileType, RequestAssumption DEF TypeOK, IsAvailable
  <2>3. \A x \in Profiles : leases'[x] \subseteq leases[x] \/ x \in cat'.known
    BY <2>1, <2>2 DEF TypeOK
  <2> QED
    BY <2>1, <2>3, KnownKept
<1>4. CASE FirstDrainEnd
  BY <1>4, KnownKept DEF FirstDrainEnd, ReleaseAll
<1>5. CASE \E terminal \in SUBSET NotRunning : Verified(terminal)
  BY <1>5, KnownKept DEF Verified, ReleaseAll
<1>6. CASE ContinueAsNew
  BY <1>6 DEF ContinueAsNew, LeasedIsKnown, TypeOK, Catalogues
<1>7. CASE \/ LoopTop \/ RefreshFailed \/ Wake \/ BeginDrain \/ Ordered
           \/ \E q \in Payloads : DrainExisting(q) \/ DrainKeep(q)
  BY <1>7 DEF LoopTop, RefreshFailed, Wake, BeginDrain, Ordered, DrainExisting, DrainKeep,
              LeasedIsKnown
<1>8. CASE DrainSaved \/ DrainSaveFailed \/ DrainSignalled \/ DrainSignalFailed
  BY <1>8 DEF DrainSaved, DrainSaveFailed, DrainSignalled, DrainSignalFailed, LeasedIsKnown
<1>9. CASE EvictionSaved \/ VerifyFailed \/ ReclaimSaved \/ SecondDrainEnd
  BY <1>9 DEF EvictionSaved, VerifyFailed, ReclaimSaved, SecondDrainEnd, LeasedIsKnown
<1> QED
  BY <1>1, <1>2, <1>3, <1>4, <1>5, <1>6, <1>7, <1>8, <1>9 DEF Loop

\* The update handlers: a profile object that was pruned while a maintenance call waited
\* takes no lease into the ledger.
LEMMA UpdateKnown ==
    ASSUME TypeOK, LeasedIsKnown, NEW c \in Calls, Update(c)
    PROVE  LeasedIsKnown'
<1> USE DEF ledgerVars, policyVars
<1> DEFINE o == CallOwner[c]
           t == Target[o]
<1>1. t \in Profiles
  BY RequesterAssumption
<1>2. ASSUME cat.known \subseteq cat'.known, t \in cat'.known, leases' = Reserve(leases, o, t)
      PROVE  LeasedIsKnown'
  <2>1. \A x \in Profiles : leases'[x] \subseteq leases[x] \/ x \in cat'.known
    BY <1>1, <1>2 DEF Reserve, TypeOK
  <2> QED
    BY <1>2, <2>1, KnownKept
<1>3. ASSUME cat.known \subseteq cat'.known, leases' = leases PROVE LeasedIsKnown'
  BY <1>3, KnownKept
<1>4. CASE AcquireSlot(c) \/ OwnerNotRunning(c) \/ AcquireHeld(c) \/ MaintainHeld(c) \/ UpdateSaved(c)
  BY <1>3, <1>4 DEF AcquireSlot, OwnerNotRunning, AcquireHeld, MaintainHeld, UpdateSaved
<1>5. CASE AcquireOrWait(c)
  <2>1. cat' = cat
    BY <1>5 DEF AcquireOrWait
  <2>2. CASE leases' = leases
    BY <1>3, <2>1, <2>2
  <2>3. CASE /\ t \in FindAvailableProfile(cat, leases, cooling', resv', CallRequest(c))
             /\ leases' = Reserve(leases, o, t)
    <3>1. resv' \in [Groups -> Profiles \cup {None}] /\ CallRequest(c).group = None
      BY <1>5 DEF AcquireOrWait, ReservationsLeft, CallRequest
    <3>2. t \in cat.known
      BY <2>3, <3>1, FindAvailableProfileType DEF TypeOK, IsAvailable
    <3> QED
      BY <1>2, <2>1, <2>3, <3>2
  <2> QED
    BY <1>5, <2>2, <2>3 DEF AcquireOrWait
<1>6. ASSUME cat.known \subseteq cat'.known, MaintainOrWait(c, t) PROVE LeasedIsKnown'
  BY <1>2, <1>3, <1>6 DEF MaintainOrWait
<1>7. CASE Maintain(c)
  <2>1. cat.known \subseteq cat'.known
    BY <1>7, <1>1 DEF Maintain, MaintainedCatalogue, TypeOK, Catalogues
  <2> QED
    BY <1>3, <1>6, <1>7, <2>1 DEF Maintain
<1>8. CASE WaitOver(c)
  BY <1>3, <1>6, <1>8 DEF WaitOver
<1>9. CASE UpdateSaveFailed(c)
  <2>1. cat' = cat /\ \A x \in Profiles : leases'[x] \subseteq leases[x]
    BY <1>9 DEF UpdateSaveFailed, Release, TypeOK
  <2> QED
    BY <2>1, KnownKept
<1> QED
  BY <1>4, <1>5, <1>7, <1>8, <1>9 DEF Update

\* A leased profile is never pruned, under every behaviour of the environment: edits of
\* the profile rows, refreshes while a grant is being saved, restored rows, maintenance
\* calls that wait across a refresh, restarts and continue-as-new.
THEOREM LeasedStaysKnown == Spec => []LeasedIsKnown
<1>1. Init => LeasedIsKnown
  BY DEF Init, LeasedIsKnown, NoLeases
<1>2. TypeOK /\ LeasedIsKnown /\ [Next]_vars => LeasedIsKnown'
  <2>1. CASE UNCHANGED vars
    BY <2>1 DEF vars, ledgerVars, policyVars, LeasedIsKnown
  <2> QED
    BY <2>1, SignalsKnown, OutsideKnown, BootKnown, LoopKnown, UpdateKnown DEF Next
<1> QED
  BY <1>1, <1>2, InitType, NextType, PTL DEF Spec
=============================================================================
