--------------------------- MODULE CapacityProofs ---------------------------
(***************************************************************************)
(* Three statements about capacities, for every instance.                  *)
(*                                                                         *)
(* The ledger and the lease table stay within the capacities, as long as   *)
(* no update is sent to a manager that is starting up and no administrator *)
(* changes a capacity.  Without the first condition it is false (run       *)
(* early_update); without the second it is not meant to hold.              *)
(*                                                                         *)
(* The slots reserved for a handoff stay free for it, where moreover there *)
(* are no maintenance leases.                                              *)
(*                                                                         *)
(* A capacity that is edited is honoured by every grant, where there is    *)
(* nothing to restore.                                                     *)
(***************************************************************************)
EXTENDS ProviderProfileManagerProofs

\* What the theorems of this module assume of the environment
SteadyEnvironment ==
    /\ "early_update" \notin Behaviours
    /\ \A e \in Edits : e.cap = InitialCatalogue.cap

\* The requesters that have a row for p
RowsFor(rows, p) == {r \in Requesters : rows[r] = p}

Fits(rows) == \A p \in Profiles : Cardinality(RowsFor(rows, p)) <= InitialCatalogue.cap[p]

\* The manager never overestimates a capacity.
CapacitiesKnown ==
    /\ stored.cap = InitialCatalogue.cap
    /\ \A p \in Profiles : cat.cap[p] <= InitialCatalogue.cap[p]

\* The table and whatever may become the table fit.
TablesFit == Fits(db) /\ Fits(snap) /\ \A c \in Calls : Fits(csnap[c])

\* The ledger together with the rows that are still to be restored fits.
RestoreFits ==
    \A p \in Profiles :
        Cardinality(leases[p] \cup RowsFor(loaded, p)) <= InitialCatalogue.cap[p]

\* The places of startup up to the end of the restore, in a fresh execution
BeforeRestored ==
    \/ pc \in {"down", "boot_leases", "boot_rows", "restore", "boot_signal"}
    \/ pc = "boot_profiles" /\ fresh

\* Until the rows are restored the known capacities are the stored ones.
RestoreKnowsCapacities ==
    BeforeRestored => \A p \in cat.known : cat.cap[p] = InitialCatalogue.cap[p]

\* The ledger is empty when the rows are read.
EmptyBeforeLoad ==
    pc \in {"down", "boot_leases"} \/ (pc = "boot_profiles" /\ fresh) => leases = NoLeases

\* No update is being served during startup.
NoCallAtBoot == pc \in Booting \cup {"down"} => \A c \in Calls : ~ActiveCall(c)

CapInv ==
    /\ CapacitiesKnown
    /\ LeasedIsKnown
    /\ LedgerWithinCapacity
    /\ TablesFit
    /\ RestoreFits
    /\ RestoreKnowsCapacities
    /\ EmptyBeforeLoad
    /\ NoCallAtBoot

-----------------------------------------------------------------------------
(* Cardinalities of sets of requesters                                     *)

\* Capacities are positive numbers.
LEMMA CapType ==
    /\ InitialCatalogue.cap \in [Profiles -> Nat \ {0}]
    /\ \A p \in Profiles : InitialCatalogue.cap[p] \in Nat /\ InitialCatalogue.cap[p] >= 1
  BY CatalogueAssumption DEF Catalogues

\* Sets of requesters are finite.
LEMMA FinitelyMany ==
    ASSUME NEW S \in SUBSET Requesters
    PROVE  IsFiniteSet(S) /\ Cardinality(S) \in Nat
<1>1. IsFiniteSet(Requesters)
  BY FiniteAssumption, FS_Union DEF Requesters
<1> QED
  BY <1>1, FS_Subset, FS_CardinalityType

\* A part of what fits fits.
LEMMA PartFits ==
    ASSUME NEW T \in SUBSET Requesters, NEW S \in SUBSET T, NEW n \in Nat, Cardinality(T) <= n
    PROVE  Cardinality(S) <= n
<1>1. S \in SUBSET Requesters
  OBVIOUS
<1>2. IsFiniteSet(T) /\ Cardinality(T) \in Nat /\ Cardinality(S) \in Nat
  BY <1>1, FinitelyMany
<1>3. Cardinality(S) <= Cardinality(T)
  BY <1>2, FS_Subset
<1> QED
  BY <1>2, <1>3

\* One more fits where there was room.
LEMMA OneMoreFits ==
    ASSUME NEW S \in SUBSET Requesters, NEW r, NEW n \in Nat, Cardinality(S) < n
    PROVE  Cardinality(S \cup {r}) <= n
<1>1. IsFiniteSet(S) /\ Cardinality(S) \in Nat
  BY FinitelyMany
<1>2. Cardinality(S \cup {r}) = IF r \in S THEN Cardinality(S) ELSE Cardinality(S) + 1
  BY <1>1, FS_AddElement
<1> QED
  BY <1>1, <1>2

\* An empty table fits.
LEMMA NoRowsFit ==
    /\ \A p \in Profiles : RowsFor(NoRows, p) = {}
    /\ Fits(NoRows)
<1>1. \A p \in Profiles : RowsFor(NoRows, p) = {}
  BY SelectionNoneAssumption DEF RowsFor, NoRows
<1> QED
  BY <1>1, FS_EmptySet, CapType DEF Fits

\* The snapshot of a ledger that fits is a table that fits.
LEMMA SnapshotFits ==
    ASSUME NEW ls \in [Profiles -> SUBSET Requesters],
           \A p \in Profiles : Cardinality(ls[p]) <= InitialCatalogue.cap[p]
    PROVE  Fits(RowsOf(ls))
<1> SUFFICES ASSUME NEW p \in Profiles
             PROVE  Cardinality(RowsFor(RowsOf(ls), p)) <= InitialCatalogue.cap[p]
  BY DEF Fits
<1>1. RowsFor(RowsOf(ls), p) \subseteq ls[p]
  <2> SUFFICES ASSUME NEW r \in Requesters, RowsOf(ls)[r] = p PROVE r \in ls[p]
    BY DEF RowsFor
  <2>1. \E x \in Profiles : r \in ls[x]
    BY SelectionNoneAssumption DEF RowsOf
  <2>2. p = CHOOSE x \in Profiles : r \in ls[x]
    BY <2>1 DEF RowsOf
  <2>3. r \in ls[CHOOSE x \in Profiles : r \in ls[x]]
    BY <2>1
  <2> QED
    BY <2>2, <2>3
<1> QED
  BY <1>1, CapType, PartFits

-----------------------------------------------------------------------------
(* Steps of one shape                                                      *)

\* A step after the restore has to keep the ledger and the tables.
LEMMA LaterStep ==
    ASSUME TypeOK', LeaseInv', CapInv, ~BeforeRestored',
           CapacitiesKnown', LeasedIsKnown', LedgerWithinCapacity', TablesFit', NoCallAtBoot'
    PROVE  CapInv'
<1>1. loaded' = NoRows
  BY DEF LeaseInv, LoadedOnlyAtBoot, BeforeRestored
<1>2. RestoreFits'
  <2> SUFFICES ASSUME NEW p \in Profiles
               PROVE  Cardinality(leases'[p] \cup RowsFor(loaded', p)) <= InitialCatalogue.cap[p]
    BY DEF RestoreFits, RowsFor
  <2>1. leases'[p] \cup RowsFor(loaded', p) = leases'[p]
    BY <1>1, NoRowsFit
  <2>2. leases'[p] \in SUBSET Requesters /\ cat'.cap[p] \in Nat
    BY DEF TypeOK, Catalogues
  <2>3. Cardinality(leases'[p]) <= cat'.cap[p] /\ cat'.cap[p] <= InitialCatalogue.cap[p]
    BY DEF LedgerWithinCapacity, CapacitiesKnown
  <2> QED
    BY <2>1, <2>2, <2>3, CapType, FinitelyMany
<1>3. EmptyBeforeLoad' /\ RestoreKnowsCapacities'
  BY DEF EmptyBeforeLoad, RestoreKnowsCapacities, BeforeRestored
<1> QED
  BY <1>2, <1>3 DEF CapInv

\* A step that takes leases away and leaves the catalogue, the capacities and the
\* place of every coroutine alone has to keep the tables.
LEMMA ShrinkingStep ==
    ASSUME TypeOK, TypeOK', CapInv, \A p \in Profiles : leases'[p] \subseteq leases[p],
           UNCHANGED <<cat, pc, fresh, loaded, cst>>, stored'.cap = stored.cap, TablesFit'
    PROVE  CapInv'
<1>1. CapacitiesKnown' /\ LeasedIsKnown' /\ RestoreKnowsCapacities' /\ NoCallAtBoot'
  BY DEF CapInv, CapacitiesKnown, LeasedIsKnown, RestoreKnowsCapacities, BeforeRestored,
         NoCallAtBoot, ActiveCall
<1>2. LedgerWithinCapacity'
  <2> SUFFICES ASSUME NEW p \in Profiles PROVE Cardinality(leases'[p]) <= cat.cap[p]
    BY DEF LedgerWithinCapacity
  <2>1. leases[p] \in SUBSET Requesters /\ cat.cap[p] \in Nat
    BY DEF TypeOK, Catalogues
  <2>2. Cardinality(leases[p]) <= cat.cap[p]
    BY DEF CapInv, LedgerWithinCapacity
  <2> QED
    BY <2>1, <2>2, PartFits
<1>3. RestoreFits'
  <2> SUFFICES ASSUME NEW p \in Profiles
               PROVE  Cardinality(leases'[p] \cup RowsFor(loaded, p)) <= InitialCatalogue.cap[p]
    BY DEF RestoreFits, RowsFor
  <2>1. leases[p] \cup RowsFor(loaded, p) \in SUBSET Requesters
    BY DEF TypeOK, RowsFor
  <2>2. Cardinality(leases[p] \cup RowsFor(loaded, p)) <= InitialCatalogue.cap[p]
    BY DEF CapInv, RestoreFits
  <2>3. leases'[p] \cup RowsFor(loaded, p) \in SUBSET (leases[p] \cup RowsFor(loaded, p))
    OBVIOUS
  <2> QED
    BY <2>1, <2>2, <2>3, CapType, PartFits
<1>4. EmptyBeforeLoad'
  <2>1. leases = NoLeases => leases' = NoLeases
    BY DEF NoLeases, TypeOK
  <2> QED
    BY <2>1 DEF CapInv, EmptyBeforeLoad
<1> QED
  BY <1>1, <1>2, <1>3, <1>4 DEF CapInv

\* When the execution ends everything but the table is empty, and the table is what
\* it was or a snapshot that was being saved.
LEMMA StopCapacity == TypeOK /\ CapInv /\ Stop => CapInv'
<1> SUFFICES ASSUME TypeOK, CapInv, Stop PROVE CapInv'
  OBVIOUS
<1>1. Fits(db')
  <2>1. \A rows \in {db} \cup SavesInFlight : Fits(rows)
    BY DEF SavesInFlight, CapInv, TablesFit
  <2>2. db' \in {db} \cup SavesInFlight
    BY DEF Stop
  <2> QED
    BY <2>1, <2>2
<1>2. /\ snap' = NoRows /\ loaded' = NoRows /\ pc' = "down" /\ cat' = NoProfiles
      /\ leases' = NoLeases /\ stored' = stored
      /\ \A c \in Calls : csnap'[c] = NoRows
      /\ \A c \in Calls : cst'[c] = IF ActiveCall(c) THEN "failed" ELSE cst[c]
    BY DEF Stop
<1>3. TablesFit'
  BY <1>1, <1>2, NoRowsFit DEF TablesFit, Fits, RowsFor
<1>4. CapacitiesKnown' /\ LeasedIsKnown' /\ RestoreKnowsCapacities' /\ EmptyBeforeLoad'
  BY <1>2, CapType DEF CapInv, CapacitiesKnown, LeasedIsKnown, RestoreKnowsCapacities,
                       EmptyBeforeLoad, NoProfiles, NoLeases
<1>5. LedgerWithinCapacity'
  BY <1>2, FS_EmptySet DEF LedgerWithinCapacity, NoLeases, NoProfiles
<1>6. RestoreFits'
  <2> SUFFICES ASSUME NEW p \in Profiles
               PROVE  Cardinality(leases'[p] \cup RowsFor(loaded', p)) <= InitialCatalogue.cap[p]
    BY DEF RestoreFits, RowsFor
  <2>1. leases'[p] \cup RowsFor(loaded', p) = {}
    BY <1>2, NoRowsFit DEF NoLeases
  <2> QED
    BY <2>1, FS_EmptySet, CapType
<1>7. NoCallAtBoot'
  BY <1>2 DEF NoCallAtBoot, ActiveCall
<1> QED
  BY <1>3, <1>4, <1>5, <1>6, <1>7 DEF CapInv

\* Before the first execution everything is empty.
LEMMA InitCapacity == Init => CapInv
<1> SUFFICES ASSUME Init PROVE CapInv
  OBVIOUS
<1>1. /\ snap = NoRows /\ loaded = NoRows /\ db = NoRows /\ pc = "down" /\ cat = NoProfiles
      /\ leases = NoLeases /\ stored = InitialCatalogue
      /\ \A c \in Calls : csnap[c] = NoRows /\ cst[c] = "free"
  BY DEF Init
<1>2. TablesFit
  BY <1>1, NoRowsFit DEF TablesFit
<1>3. CapacitiesKnown /\ LeasedIsKnown /\ RestoreKnowsCapacities /\ EmptyBeforeLoad
  BY <1>1, CapType DEF CapacitiesKnown, LeasedIsKnown, RestoreKnowsCapacities,
                       EmptyBeforeLoad, NoProfiles, NoLeases
<1>4. LedgerWithinCapacity
  BY <1>1, FS_EmptySet DEF LedgerWithinCapacity, NoLeases, NoProfiles
<1>5. RestoreFits
  <2> SUFFICES ASSUME NEW p \in Profiles
               PROVE  Cardinality(leases[p] \cup RowsFor(loaded, p)) <= InitialCatalogue.cap[p]
    BY DEF RestoreFits
  <2>1. leases[p] \cup RowsFor(loaded, p) = {}
    BY <1>1, NoRowsFit DEF NoLeases
  <2> QED
    BY <2>1, FS_EmptySet, CapType
<1>6. NoCallAtBoot
  BY <1>1 DEF NoCallAtBoot, ActiveCall
<1> QED
  BY <1>2, <1>3, <1>4, <1>5, <1>6 DEF CapInv

-----------------------------------------------------------------------------
(* The catalogue                                                           *)

\* A merge never lowers a capacity, forgets no profile, and gives the listed
\* profiles their stored capacities.
LEMMA AppliedCapacities ==
    ASSUME TypeOK, CapInv
    PROVE  /\ cat.known \subseteq AppliedCatalogue.known
           /\ \A p \in Profiles : /\ cat.cap[p] <= AppliedCatalogue.cap[p]
                                  /\ AppliedCatalogue.cap[p] <= InitialCatalogue.cap[p]
           /\ (\A p \in cat.known : cat.cap[p] = InitialCatalogue.cap[p])
              => \A p \in AppliedCatalogue.known :
                    AppliedCatalogue.cap[p] = InitialCatalogue.cap[p]
<1>1. \A p \in Profiles : /\ cat.cap[p] \in Nat /\ cat.cap[p] <= InitialCatalogue.cap[p]
                          /\ stored.cap[p] = InitialCatalogue.cap[p]
  BY DEF TypeOK, Catalogues, CapInv, CapacitiesKnown
<1>2. \A p \in Profiles : AppliedCatalogue.cap[p] =
                             IF p \in ListedProfiles THEN stored.cap[p] ELSE cat.cap[p]
  BY DEF AppliedCatalogue
<1>3. AppliedCatalogue.known = cat.known \cup ListedProfiles
  BY DEF AppliedCatalogue
<1>4. cat.known \subseteq Profiles /\ ListedProfiles \subseteq Profiles
  BY DEF TypeOK, Catalogues, ListedProfiles
<1> QED
  BY <1>1, <1>2, <1>3, <1>4, CapType

\* Pruning touches no leased profile, and what it forgets has capacity one.
LEMMA PrunedCapacities ==
    ASSUME TypeOK, NEW c \in Catalogues
    PROVE  \A p \in Profiles :
              /\ Pruned(c).cap[p] \in {c.cap[p], 1}
              /\ leases[p] # {} /\ p \in c.known =>
                    p \in Pruned(c).known /\ Pruned(c).cap[p] = c.cap[p]
  BY DEF Pruned, Catalogues, TypeOK

\* A profile that may be given to a request is known and has a slot left.
LEMMA FoundHasRoom ==
    ASSUME NEW c \in Catalogues, NEW ls \in [Profiles -> SUBSET Requesters], NEW cool, NEW rs, NEW q,
           NEW p \in Profiles, p \in FindAvailableProfile(c, ls, cool, rs, q)
    PROVE  p \in c.known /\ Cardinality(ls[p]) < c.cap[p]
<1>1. \A x : ProfileMatchesRequest(c, ls, cool, q, x) => IsAvailable(c, ls, cool, x)
  BY DEF ProfileMatchesRequest
<1>2. IsAvailable(c, ls, cool, p)
  BY <1>1 DEF FindAvailableProfile, BestOf, EligibleProfiles
<1>3. p \in c.known /\ AvailableSlots(c, ls, p) > 0
  BY <1>2 DEF IsAvailable
<1> QED
  BY <1>3 DEF AvailableSlots

-----------------------------------------------------------------------------
(* The actions                                                             *)

\* Signals only take leases away.
LEMMA SignalsCapacity == TypeOK /\ TypeOK' /\ CapInv /\ Signals => CapInv'
<1> SUFFICES ASSUME TypeOK, TypeOK', CapInv, Signals PROVE CapInv'
  OBVIOUS
<1> USE DEF mainVars, queueVars, ledgerVars, policyVars, flagVars, callVars
<1>1. ASSUME \A p \in Profiles : leases'[p] \subseteq leases[p],
             UNCHANGED <<cat, pc, fresh, loaded, cst, stored, db, snap, csnap>>
      PROVE  CapInv'
  <2>1. TablesFit'
    BY <1>1 DEF CapInv, TablesFit, Fits, RowsFor
  <2> QED
    BY <1>1, <2>1, ShrinkingStep
<1>2. ASSUME NEW r, NEW p \in Profiles \cup {None}, NEW group, NEW handoff,
             ReleaseSlot(r, p, group, handoff)
      PROVE  CapInv'
  <2>1. \A x \in Profiles : leases'[x] \subseteq leases[x]
    BY <1>2 DEF ReleaseSlot, Release, TypeOK
  <2> QED
    BY <1>1, <1>2, <2>1 DEF ReleaseSlot
<1>3. \A r \in Requesters : told[r] \in Profiles \cup {None}
  BY DEF TypeOK, Rows
<1>4. ASSUME NEW q \in Payloads, RequestSlot(q) PROVE CapInv'
  BY <1>1, <1>4 DEF RequestSlot
<1>5. ASSUME NEW w \in Workflows, NEW handoff \in BOOLEAN, WorkflowRelease(w, handoff)
      PROVE  CapInv'
  BY <1>2, <1>3, <1>5 DEF WorkflowRelease, Requesters
<1>6. ASSUME NEW w \in Workflows, Withdraw(w) PROVE CapInv'
  BY <1>2, <1>6 DEF Withdraw
<1>7. ASSUME NEW o \in Owners, OwnerRelease(o) PROVE CapInv'
  BY <1>2, <1>3, <1>7 DEF OwnerRelease, Requesters
<1>8. ASSUME NEW p \in Profiles, ReportCooldown(p) PROVE CapInv'
  BY <1>1, <1>8 DEF ReportCooldown
<1>9. CASE SyncProfiles
  BY <1>1, <1>9 DEF SyncProfiles
<1>10. CASE Shutdown
  BY <1>1, <1>10 DEF Shutdown
<1> QED
  BY <1>4, <1>5, <1>6, <1>7, <1>8, <1>9, <1>10 DEF Signals

\* What happens outside removes rows, leaves the capacities, or ends the execution.
LEMMA OutsideCapacity ==
    SteadyEnvironment /\ TypeOK /\ TypeOK' /\ CapInv /\ Outside => CapInv'
<1> SUFFICES ASSUME SteadyEnvironment, TypeOK, TypeOK', CapInv, Outside PROVE CapInv'
  OBVIOUS
<1> USE DEF mainVars, queueVars, ledgerVars, policyVars, flagVars, callVars
<1>1. ASSUME UNCHANGED <<leases, cat, pc, fresh, loaded, cst, snap, csnap>>,
             stored'.cap = stored.cap, Fits(db')
      PROVE  CapInv'
  <2>1. TablesFit'
    BY <1>1 DEF CapInv, TablesFit, Fits, RowsFor
  <2> QED
    BY <1>1, <2>1, ShrinkingStep
<1>2. Fits(db)
  BY DEF CapInv, TablesFit
<1>3. ASSUME NEW w \in Workflows, ReleaseLost(w) PROVE CapInv'
  BY <1>1, <1>2, <1>3 DEF ReleaseLost
<1>4. ASSUME NEW r \in Requesters, RemoveRow(r) PROVE CapInv'
  <2>1. \A p \in Profiles : RowsFor(db', p) \in SUBSET RowsFor(db, p)
    BY <1>4, SelectionNoneAssumption DEF RemoveRow, RowsFor, TypeOK, Rows
  <2>2. \A p \in Profiles : RowsFor(db, p) \in SUBSET Requesters
    BY DEF RowsFor
  <2>3. Fits(db')
    BY <1>2, <2>1, <2>2, CapType, PartFits DEF Fits
  <2> QED
    BY <1>1, <1>4, <2>3 DEF RemoveRow
<1>5. CASE EditProfiles
  <2>1. stored'.cap = stored.cap
    BY <1>5 DEF EditProfiles, SteadyEnvironment, CapInv, CapacitiesKnown
  <2> QED
    BY <1>1, <1>2, <1>5, <2>1 DEF EditProfiles
<1>6. ASSUME NEW w \in Workflows, Terminate(w) PROVE CapInv'
  BY <1>1, <1>2, <1>6 DEF Terminate
<1>7. CASE Crash
  BY <1>7, StopCapacity DEF Crash
<1>8. CASE Start
  <2>1. /\ UNCHANGED <<leases, cat, fresh, loaded, cst, snap, csnap, db, stored>>
        /\ pc = "down" /\ pc' = "boot_profiles"
    BY <1>8 DEF Start
  <2>2. TablesFit' /\ RestoreFits'
    BY <2>1 DEF CapInv, TablesFit, RestoreFits, Fits, RowsFor
  <2>3. CapacitiesKnown' /\ LeasedIsKnown' /\ LedgerWithinCapacity'
    BY <2>1 DEF CapInv, CapacitiesKnown, LeasedIsKnown, LedgerWithinCapacity
  <2>4. RestoreKnowsCapacities' /\ EmptyBeforeLoad' /\ NoCallAtBoot'
    BY <2>1 DEF CapInv, RestoreKnowsCapacities, BeforeRestored, EmptyBeforeLoad, NoCallAtBoot,
                ActiveCall, Booting
  <2> QED
    BY <2>2, <2>3, <2>4 DEF CapInv
<1> QED
  BY <1>3, <1>4, <1>5, <1>6, <1>7, <1>8 DEF Outside

\* Startup takes over the stored capacities before it restores rows, and restoring a
\* row moves it from the rows to the ledger.
LEMMA BootCapacity == TypeOK /\ TypeOK' /\ LeaseInv' /\ CapInv /\ Boot => CapInv'
<1> SUFFICES ASSUME TypeOK, TypeOK', LeaseInv', CapInv, Boot PROVE CapInv'
  OBVIOUS
<1> USE DEF mainVars, queueVars, ledgerVars, policyVars, flagVars, callVars
\* a new catalogue, from the list of profiles
<1>1. ASSUME cat' = AppliedCatalogue \/ cat' = cat, UNCHANGED <<leases, stored>>
      PROVE  /\ CapacitiesKnown' /\ LeasedIsKnown' /\ LedgerWithinCapacity'
             /\ (\A p \in cat.known : cat.cap[p] = InitialCatalogue.cap[p])
                => \A p \in cat'.known : cat'.cap[p] = InitialCatalogue.cap[p]
  <2>1. /\ cat.known \subseteq cat'.known
        /\ \A p \in Profiles : cat.cap[p] <= cat'.cap[p] /\ cat'.cap[p] <= InitialCatalogue.cap[p]
        /\ (\A p \in cat.known : cat.cap[p] = InitialCatalogue.cap[p])
              => \A p \in cat'.known : cat'.cap[p] = InitialCatalogue.cap[p]
    <3>1. CASE cat' = AppliedCatalogue
      BY <3>1, AppliedCapacities
    <3>2. CASE cat' = cat
      BY <3>2 DEF CapInv, CapacitiesKnown, TypeOK, Catalogues
    <3> QED
      BY <1>1, <3>1, <3>2
  <2>2. \A p \in Profiles : /\ cat.cap[p] \in Nat /\ cat'.cap[p] \in Nat
                            /\ Cardinality(leases[p]) \in Nat
    BY FinitelyMany DEF TypeOK, Catalogues
  <2> QED
    BY <1>1, <2>1, <2>2 DEF CapInv, CapacitiesKnown, LeasedIsKnown, LedgerWithinCapacity
\* steps that leave ledger, tables and catalogue alone
<1>2. ASSUME UNCHANGED <<leases, cat, stored>>
      PROVE  CapacitiesKnown' /\ LeasedIsKnown' /\ LedgerWithinCapacity'
  BY <1>2 DEF CapInv, CapacitiesKnown, LeasedIsKnown, LedgerWithinCapacity
<1>3. UNCHANGED <<db, snap, csnap>> => TablesFit'
  BY DEF CapInv, TablesFit, Fits, RowsFor
<1>4. pc \in Booting /\ UNCHANGED cst => NoCallAtBoot'
  BY DEF CapInv, NoCallAtBoot, ActiveCall
<1>5. CASE BootProfiles
  <2>1. /\ UNCHANGED <<leases, fresh, loaded, snap, csnap, db, cst, stored>>
        /\ cat' = AppliedCatalogue \/ cat' = cat
        /\ pc = "boot_profiles"
        /\ pc' \in {"boot_leases", "boot_refresh", "top"}
        /\ pc' = "boot_leases" => fresh
    BY <1>5 DEF BootProfiles, AfterBootProfiles
  <2>2. CapacitiesKnown' /\ LeasedIsKnown' /\ LedgerWithinCapacity' /\ TablesFit' /\ NoCallAtBoot'
    BY <1>1, <1>3, <1>4, <2>1 DEF Booting
  <2>3. RestoreKnowsCapacities'
    BY <1>1, <2>1 DEF CapInv, RestoreKnowsCapacities, BeforeRestored
  <2>4. EmptyBeforeLoad' /\ RestoreFits'
    BY <2>1 DEF CapInv, EmptyBeforeLoad, RestoreFits, RowsFor
  <2> QED
    BY <2>2, <2>3, <2>4 DEF CapInv
<1>6. CASE LoadRows
  <2>1. /\ UNCHANGED <<leases, cat, fresh, snap, csnap, db, cst, stored>>
        /\ pc = "boot_leases" /\ pc' = "boot_rows" /\ loaded' = db
    BY <1>6 DEF LoadRows
  <2>2. RestoreFits'
    <3> SUFFICES ASSUME NEW p \in Profiles
                 PROVE  Cardinality(leases'[p] \cup RowsFor(loaded', p)) <= InitialCatalogue.cap[p]
      BY DEF RestoreFits, RowsFor
    <3>1. leases'[p] = {}
      BY <2>1 DEF CapInv, EmptyBeforeLoad, NoLeases
    <3>2. leases'[p] \cup RowsFor(loaded', p) = RowsFor(db, p)
      BY <2>1, <3>1
    <3> QED
      BY <3>2 DEF CapInv, TablesFit, Fits
  <2>3. RestoreKnowsCapacities' /\ EmptyBeforeLoad'
    BY <2>1 DEF CapInv, RestoreKnowsCapacities, BeforeRestored, EmptyBeforeLoad
  <2> QED
    BY <1>2, <1>3, <1>4, <2>1, <2>2, <2>3 DEF CapInv, Booting
<1>7. CASE RowsLoaded
  <2>1. /\ UNCHANGED <<leases, cat, fresh, loaded, snap, csnap, db, cst, stored>>
        /\ pc = "boot_rows" /\ pc' = "restore"
    BY <1>7 DEF RowsLoaded
  <2>2. RestoreKnowsCapacities' /\ EmptyBeforeLoad' /\ RestoreFits'
    BY <2>1 DEF CapInv, RestoreKnowsCapacities, BeforeRestored, EmptyBeforeLoad, RestoreFits, RowsFor
  <2> QED
    BY <1>2, <1>3, <1>4, <2>1, <2>2 DEF CapInv, Booting
<1>8. CASE LoadFailed
  BY <1>8, StopCapacity DEF LoadFailed
<1>9. ASSUME NEW r \in Requesters, RestoreRow(r) PROVE CapInv'
  <2>1. /\ UNCHANGED <<cat, fresh, snap, csnap, db, cst, stored>>
        /\ pc = "restore" /\ pc' \in {"restore", "boot_signal"}
        /\ leases' = [leases EXCEPT ![loaded[r]] = @ \cup {r}]
        /\ loaded' = [loaded EXCEPT ![r] = None]
        /\ loaded[r] \in cat.known
    BY <1>9 DEF RestoreRow, Reserve
  <2>2. loaded[r] \in Profiles /\ loaded[r] # None
    BY <2>1, SelectionNoneAssumption DEF TypeOK, Catalogues
  <2>3. \A p \in Profiles :
           leases'[p] \cup RowsFor(loaded', p) \in SUBSET (leases[p] \cup RowsFor(loaded, p))
    BY <2>1, <2>2, SelectionNoneAssumption DEF TypeOK, Rows, RowsFor
  <2>4. \A p \in Profiles : leases[p] \cup RowsFor(loaded, p) \in SUBSET Requesters
    BY DEF TypeOK, RowsFor
  <2>5. \A p \in Profiles :
           Cardinality(leases'[p] \cup RowsFor(loaded', p)) <= InitialCatalogue.cap[p]
    BY <2>3, <2>4, CapType, PartFits DEF CapInv, RestoreFits
  <2>6. LedgerWithinCapacity'
    <3> SUFFICES ASSUME NEW p \in Profiles PROVE Cardinality(leases'[p]) <= cat'.cap[p]
      BY DEF LedgerWithinCapacity
    <3>1. CASE p = loaded[r]
      <4>1. cat'.cap[p] = InitialCatalogue.cap[p]
        BY <2>1, <3>1 DEF CapInv, RestoreKnowsCapacities, BeforeRestored
      <4>2. leases'[p] \cup RowsFor(loaded', p) \in SUBSET Requesters
        BY <2>3, <2>4
      <4> QED
        BY <2>5, <4>1, <4>2, CapType, PartFits
    <3>2. CASE p # loaded[r]
      BY <2>1, <3>2 DEF CapInv, LedgerWithinCapacity, TypeOK
    <3> QED
      BY <3>1, <3>2
  <2>7. LeasedIsKnown'
    BY <2>1, <2>2 DEF CapInv, LeasedIsKnown, TypeOK
  <2>8. CapacitiesKnown' /\ RestoreKnowsCapacities' /\ EmptyBeforeLoad'
    BY <2>1 DEF CapInv, CapacitiesKnown, RestoreKnowsCapacities, BeforeRestored, EmptyBeforeLoad
  <2>9. RestoreFits'
    BY <2>5 DEF RestoreFits, RowsFor
  <2> QED
    BY <1>3, <1>4, <2>1, <2>6, <2>7, <2>8, <2>9 DEF CapInv, Booting
<1>10. CASE RestoreDone
  <2>1. /\ UNCHANGED <<leases, cat, fresh, snap, csnap, db, cst, stored>>
        /\ pc = "restore" /\ pc' \in {"boot_refresh", "top"}
    BY <1>10 DEF RestoreDone
  <2>2. ~BeforeRestored'
    BY <2>1 DEF BeforeRestored
  <2> QED
    BY <1>2, <1>3, <1>4, <2>1, <2>2, LaterStep DEF Booting
<1>11. CASE BootSignalled
  <2>1. /\ UNCHANGED <<leases, cat, fresh, loaded, snap, csnap, db, cst, stored>>
        /\ pc = "boot_signal" /\ pc' = "restore"
    BY <1>11 DEF BootSignalled
  <2>2. RestoreKnowsCapacities' /\ EmptyBeforeLoad' /\ RestoreFits'
    BY <2>1 DEF CapInv, RestoreKnowsCapacities, BeforeRestored, EmptyBeforeLoad, RestoreFits, RowsFor
  <2> QED
    BY <1>2, <1>3, <1>4, <2>1, <2>2 DEF CapInv, Booting
<1>12. CASE BootRefresh
  <2>1. /\ UNCHANGED <<leases, snap, csnap, db, cst, stored>>
        /\ cat' = AppliedCatalogue \/ cat' = cat
        /\ pc = "boot_refresh" /\ pc' = "top"
    BY <1>12 DEF BootRefresh
  <2>2. ~BeforeRestored'
    BY <2>1 DEF BeforeRestored
  <2> QED
    BY <1>1, <1>3, <1>4, <2>1, <2>2, LaterStep DEF Booting
<1> QED
  BY <1>5, <1>6, <1>7, <1>8, <1>9, <1>10, <1>11, <1>12 DEF Boot

\* A ledger within the known capacities is within the stored ones, and so is its
\* snapshot.
LEMMA LedgerSnapshotFits ==
    ASSUME TypeOK', CapacitiesKnown', LedgerWithinCapacity'
    PROVE  Fits(RowsOf(leases'))
<1>1. \A p \in Profiles : /\ Cardinality(leases'[p]) <= cat'.cap[p]
                          /\ cat'.cap[p] <= InitialCatalogue.cap[p]
  BY DEF LedgerWithinCapacity, CapacitiesKnown
<1>2. \A p \in Profiles : Cardinality(leases'[p]) \in Nat /\ cat'.cap[p] \in Nat
  BY FinitelyMany DEF TypeOK, Catalogues
<1>3. \A p \in Profiles : Cardinality(leases'[p]) <= InitialCatalogue.cap[p]
  BY <1>1, <1>2, CapType
<1>4. leases' \in [Profiles -> SUBSET Requesters]
  BY DEF TypeOK
<1> QED
  BY <1>3, <1>4, SnapshotFits

\* The drain reserves where there is room; everything else in the loop takes leases
\* away, saves snapshots that fit, or merges and prunes profiles.
LEMMA LoopCapacity == TypeOK /\ TypeOK' /\ LeaseInv' /\ CapInv /\ Loop => CapInv'
<1> SUFFICES ASSUME TypeOK, TypeOK', LeaseInv', CapInv, Loop PROVE CapInv'
  OBVIOUS
<1> USE DEF mainVars, queueVars, ledgerVars, policyVars, flagVars, callVars
<1> DEFINE Away(place) == place \notin Booting \cup {"down"}
<1>1. Fits(db) /\ Fits(snap) /\ Fits(NoRows) /\ \A c \in Calls : Fits(csnap[c])
  BY NoRowsFit DEF CapInv, TablesFit
\* steps that leave the catalogue and the calls alone and reserve nothing
<1>2. ASSUME Away(pc'), UNCHANGED <<cat, stored, csnap>>,
             \A p \in Profiles : leases'[p] \subseteq leases[p],
             db' \in {db, snap}, snap' \in {snap, NoRows, RowsOf(leases')}
      PROVE  CapInv'
  <2>1. CapacitiesKnown' /\ LeasedIsKnown'
    BY <1>2 DEF CapInv, CapacitiesKnown, LeasedIsKnown
  <2>2. LedgerWithinCapacity'
    <3> SUFFICES ASSUME NEW p \in Profiles PROVE Cardinality(leases'[p]) <= cat'.cap[p]
      BY DEF LedgerWithinCapacity
    <3>1. leases[p] \in SUBSET Requesters /\ cat.cap[p] \in Nat
      BY DEF TypeOK, Catalogues
    <3>2. Cardinality(leases[p]) <= cat.cap[p]
      BY DEF CapInv, LedgerWithinCapacity
    <3> QED
      BY <1>2, <3>1, <3>2, PartFits
  <2>3. Fits(RowsOf(leases'))
    BY <2>1, <2>2, LedgerSnapshotFits
  <2>4. Fits(db') /\ Fits(snap') /\ \A c \in Calls : Fits(csnap'[c])
    BY <1>1, <1>2, <2>3
  <2>5. TablesFit'
    BY <2>4 DEF TablesFit, Fits, RowsFor
  <2>6. ~BeforeRestored' /\ NoCallAtBoot'
    BY <1>2 DEF BeforeRestored, NoCallAtBoot, Booting
  <2> QED
    BY <2>1, <2>2, <2>5, <2>6, LaterStep
<1>3. leases' = leases => \A p \in Profiles : leases'[p] \subseteq leases[p]
  OBVIOUS
<1>4. CASE LoopExit
  BY <1>4, StopCapacity DEF LoopExit
<1>5. CASE LoopTop
  BY <1>2, <1>3, <1>5 DEF LoopTop, Booting
<1>6. CASE Refreshed
  <2>1. /\ cat' = Pruned(AppliedCatalogue) /\ pc' = "prep"
        /\ UNCHANGED <<leases, stored, db, snap, csnap>>
    BY <1>6 DEF Refreshed
  <2>2. AppliedCatalogue \in Catalogues
    BY AppliedCatalogueType
  <2>3. \A p \in Profiles : /\ cat'.cap[p] \in {AppliedCatalogue.cap[p], 1}
                            /\ leases[p] # {} => p \in cat'.known
                                                 /\ cat'.cap[p] = AppliedCatalogue.cap[p]
    BY <2>1, <2>2, AppliedCapacities, PrunedCapacities DEF CapInv, LeasedIsKnown
  <2>4. CapacitiesKnown' /\ LeasedIsKnown'
    BY <2>1, <2>3, AppliedCapacities, CapType DEF CapInv, CapacitiesKnown, LeasedIsKnown
  <2>5. LedgerWithinCapacity'
    <3> SUFFICES ASSUME NEW p \in Profiles PROVE Cardinality(leases[p]) <= cat'.cap[p]
      BY <2>1 DEF LedgerWithinCapacity
    <3>1. cat'.cap[p] \in Nat /\ cat.cap[p] \in Nat /\ AppliedCatalogue.cap[p] \in Nat
          /\ Cardinality(leases[p]) \in Nat
      BY <2>2, FinitelyMany DEF TypeOK, Catalogues
    <3>2. CASE leases[p] = {}
      BY <3>1, <3>2, FS_EmptySet
    <3>3. CASE leases[p] # {}
      <4>1. Cardinality(leases[p]) <= cat.cap[p] /\ cat.cap[p] <= AppliedCatalogue.cap[p]
        BY AppliedCapacities DEF CapInv, LedgerWithinCapacity
      <4> QED
        BY <2>3, <3>1, <3>3, <4>1
    <3> QED
      BY <3>2, <3>3
  <2>6. TablesFit'
    BY <2>1 DEF CapInv, TablesFit, Fits, RowsFor
  <2>7. ~BeforeRestored' /\ NoCallAtBoot'
    BY <2>1 DEF BeforeRestored, NoCallAtBoot, Booting
  <2> QED
    BY <2>4, <2>5, <2>6, <2>7, LaterStep
<1>7. CASE RefreshFailed
  BY <1>2, <1>3, <1>7 DEF RefreshFailed, Booting
<1>8. CASE Wake
  BY <1>2, <1>3, <1>8 DEF Wake, Booting
<1>9. CASE BeginDrain
  BY <1>2, <1>3, <1>9 DEF BeginDrain, Booting
<1>10. CASE Ordered
  BY <1>2, <1>3, <1>10 DEF Ordered, Booting
<1>11. ASSUME NEW q \in Payloads, DrainExisting(q) PROVE CapInv'
  <2>1. /\ UNCHANGED <<leases, cat, stored, csnap, db>> /\ pc' = "save"
        /\ snap' = RowsOf(leases')
    BY <1>11 DEF DrainExisting
  <2> QED
    BY <1>2, <1>3, <2>1 DEF Booting
<1>12. ASSUME NEW q \in Payloads, DrainKeep(q) PROVE CapInv'
  BY <1>2, <1>3, <1>12 DEF DrainKeep, Booting
<1>13. ASSUME NEW q \in Payloads, NEW p \in Profiles, DrainGrant(q, p) PROVE CapInv'
  <2>1. /\ UNCHANGED <<cat, stored, csnap, db>> /\ pc' = "save"
        /\ leases' = [leases EXCEPT ![p] = @ \cup {q.req}]
        /\ snap' = RowsOf(leases')
        /\ p \in FindAvailableProfile(cat, leases, cooling, resv, q)
    BY <1>13 DEF DrainGrant, Reserve
  <2>2. p \in cat.known /\ Cardinality(leases[p]) < cat.cap[p]
    BY <2>1, FoundHasRoom DEF TypeOK
  <2>3. LedgerWithinCapacity'
    <3> SUFFICES ASSUME NEW x \in Profiles PROVE Cardinality(leases'[x]) <= cat'.cap[x]
      BY DEF LedgerWithinCapacity
    <3>1. CASE x = p
      <4>1. leases'[x] = leases[p] \cup {q.req} /\ leases[p] \in SUBSET Requesters
            /\ cat.cap[p] \in Nat
        BY <2>1, <3>1 DEF TypeOK, Catalogues
      <4> QED
        BY <2>1, <2>2, <3>1, <4>1, OneMoreFits
    <3>2. CASE x # p
      BY <2>1, <3>2 DEF CapInv, LedgerWithinCapacity, TypeOK
    <3> QED
      BY <3>1, <3>2
  <2>4. CapacitiesKnown' /\ LeasedIsKnown'
    BY <2>1, <2>2 DEF CapInv, CapacitiesKnown, LeasedIsKnown, TypeOK
  <2>5. Fits(RowsOf(leases'))
    BY <2>3, <2>4, LedgerSnapshotFits
  <2>6. TablesFit'
    BY <1>1, <2>1, <2>5 DEF TablesFit, Fits, RowsFor
  <2>7. ~BeforeRestored' /\ NoCallAtBoot'
    BY <2>1 DEF BeforeRestored, NoCallAtBoot, Booting
  <2> QED
    BY <2>3, <2>4, <2>6, <2>7, LaterStep
<1>14. CASE DrainSaved
  BY <1>2, <1>3, <1>14 DEF DrainSaved, Booting
<1>15. CASE DrainSaveFailed
  BY <1>2, <1>3, <1>15 DEF DrainSaveFailed, Visited, Booting
<1>16. CASE DrainSignalled
  BY <1>2, <1>3, <1>16 DEF DrainSignalled, Visited, Booting
<1>17. CASE DrainSignalFailed
  BY <1>2, <1>3, <1>17 DEF DrainSignalFailed, Visited, Booting
<1>18. CASE FirstDrainEnd
  <2>1. /\ pc' \in {"evict_save", "verify", "prep"}
        /\ \A p \in Profiles : leases'[p] \subseteq leases[p]
        /\ UNCHANGED <<cat, stored, csnap, db>>
        /\ snap' \in {snap, RowsOf(leases')}
    BY <1>18 DEF FirstDrainEnd, ReleaseAll, ThenVerify
  <2> QED
    BY <1>2, <2>1 DEF Booting
<1>19. CASE EvictionSaved
  BY <1>2, <1>3, <1>19 DEF EvictionSaved, Saved, ThenVerify, Booting
<1>20. ASSUME NEW terminal \in SUBSET NotRunning, Verified(terminal) PROVE CapInv'
  <2>1. /\ pc' \in {"reclaim_save", "prep"}
        /\ \A p \in Profiles : leases'[p] \subseteq leases[p]
        /\ UNCHANGED <<cat, stored, csnap, db>>
        /\ snap' \in {snap, RowsOf(leases')}
    BY <1>20 DEF Verified, ReleaseAll
  <2> QED
    BY <1>2, <2>1 DEF Booting
<1>21. CASE VerifyFailed
  BY <1>2, <1>3, <1>21 DEF VerifyFailed, Booting
<1>22. CASE ReclaimSaved
  BY <1>2, <1>3, <1>22 DEF ReclaimSaved, Saved, Booting
<1>23. CASE SecondDrainEnd
  BY <1>2, <1>3, <1>23 DEF SecondDrainEnd, Booting
<1>24. CASE ContinueAsNew
  <2>1. /\ pc' \in {"boot_refresh", "boot_profiles"} /\ ~fresh'
        /\ UNCHANGED <<leases, stored, snap>>
        /\ cat' = [cat EXCEPT !.ready = cat.known]
        /\ db' \in {db} \cup SavesInFlight
        /\ \A c \in Calls : csnap'[c] = NoRows
        /\ \A c \in Calls : cst'[c] = IF ActiveCall(c) THEN "failed" ELSE cst[c]
    BY <1>24 DEF ContinueAsNew
  <2>2. Fits(db')
    <3>1. \A rows \in {db} \cup SavesInFlight : Fits(rows)
      BY <1>1 DEF SavesInFlight
    <3> QED
      BY <2>1, <3>1
  <2>3. TablesFit'
    BY <1>1, <2>1, <2>2 DEF TablesFit, Fits, RowsFor
  <2>4. cat'.known = cat.known /\ cat'.cap = cat.cap
    BY <2>1 DEF TypeOK, Catalogues
  <2>5. CapacitiesKnown' /\ LeasedIsKnown' /\ LedgerWithinCapacity'
    BY <2>1, <2>4 DEF CapInv, CapacitiesKnown, LeasedIsKnown, LedgerWithinCapacity
  <2>6. ~BeforeRestored' /\ NoCallAtBoot'
    BY <2>1 DEF BeforeRestored, NoCallAtBoot, ActiveCall
  <2> QED
    BY <2>3, <2>5, <2>6, LaterStep
<1> QED
  BY <1>4, <1>5, <1>6, <1>7, <1>8, <1>9, <1>10, <1>11, <1>12, <1>13, <1>14, <1>15, <1>16,
     <1>17, <1>18, <1>19, <1>20, <1>21, <1>22, <1>23, <1>24 DEF Loop

\* An update is served only after startup, and reserves where there is room.
LEMMA UpdateCapacity ==
    ASSUME SteadyEnvironment, TypeOK, TypeOK', LeaseInv', CapInv, NEW c \in Calls, Update(c)
    PROVE  CapInv'
<1> USE DEF mainVars, queueVars, ledgerVars, policyVars, flagVars, callVars, UpdateFrame
<1> DEFINE o == CallOwner[c]
           p == Target[CallOwner[c]]
<1>1. o \in Requesters /\ p \in Profiles
  BY RequesterAssumption DEF Requesters
<1>2. Fits(db) /\ Fits(snap) /\ Fits(NoRows) /\ \A d \in Calls : Fits(csnap[d])
  BY NoRowsFit DEF CapInv, TablesFit
\* every step of an update is one of a manager that has started up
<1>3. pc \notin Booting \cup {"down"} /\ UNCHANGED <<pc, snap, stored>>
  <2>1. Arrives(c) => pc \notin Booting \cup {"down"}
    BY DEF Arrives, Yielded, SteadyEnvironment
  <2>2. Yielded /\ ActiveCall(c) => pc \notin Booting \cup {"down"}
    BY DEF CapInv, NoCallAtBoot
  <2> QED
    BY <2>1, <2>2 DEF Update, AcquireSlot, OwnerNotRunning, AcquireHeld, AcquireOrWait, Maintain,
                      MaintainHeld, WaitOver, UpdateSaved, UpdateSaveFailed, ActiveCall
<1>4. ~BeforeRestored' /\ NoCallAtBoot'
  BY <1>3 DEF BeforeRestored, NoCallAtBoot, Booting
\* it suffices to look at the ledger and at what is saved
<1>5. ASSUME CapacitiesKnown', LeasedIsKnown', LedgerWithinCapacity',
             db' \in {db, csnap[c]},
             \A d \in Calls : csnap'[d] \in {csnap[d], NoRows, RowsOf(leases')}
      PROVE  CapInv'
  <2>1. Fits(RowsOf(leases'))
    BY <1>5, LedgerSnapshotFits
  <2>2. Fits(db') /\ Fits(snap') /\ \A d \in Calls : Fits(csnap'[d])
    BY <1>2, <1>3, <1>5, <2>1
  <2>3. TablesFit'
    BY <2>2 DEF TablesFit, Fits, RowsFor
  <2> QED
    BY <1>4, <1>5, <2>3, LaterStep
<1>6. ASSUME UNCHANGED cat, \A x \in Profiles : leases'[x] \subseteq leases[x]
      PROVE  CapacitiesKnown' /\ LeasedIsKnown' /\ LedgerWithinCapacity'
  <2>1. CapacitiesKnown' /\ LeasedIsKnown'
    BY <1>3, <1>6 DEF CapInv, CapacitiesKnown, LeasedIsKnown
  <2>2. \A x \in Profiles : leases[x] \in SUBSET Requesters /\ cat.cap[x] \in Nat
                            /\ Cardinality(leases[x]) <= cat.cap[x]
    BY DEF TypeOK, Catalogues, CapInv, LedgerWithinCapacity
  <2>3. \A x \in Profiles : Cardinality(leases'[x]) <= cat'.cap[x]
    BY <1>6, <2>2, PartFits
  <2> QED
    BY <2>1, <2>3 DEF LedgerWithinCapacity
\* the catalogue may get a placeholder first
<1>7. ASSUME cat' = cat \/ cat' = MaintainedCatalogue(p)
      PROVE  /\ CapacitiesKnown' /\ cat.known \subseteq cat'.known
             /\ \A x \in Profiles : Cardinality(leases[x]) <= cat'.cap[x]
  <2>1. CASE p \in cat.known \/ cat' = cat
    BY <1>3, <1>7, <2>1 DEF MaintainedCatalogue, CapInv, CapacitiesKnown, LedgerWithinCapacity
  <2>2. CASE p \notin cat.known /\ cat' # cat
    <3>1. cat' = [cat EXCEPT !.known = @ \cup {p}, !.cap[p] = 1]
      BY <1>7, <2>2 DEF MaintainedCatalogue
    <3>2. /\ cat'.known = cat.known \cup {p}
          /\ \A x \in Profiles : cat'.cap[x] = IF x = p THEN 1 ELSE cat.cap[x]
      BY <1>1, <3>1 DEF TypeOK, Catalogues
    <3>3. Cardinality(leases[p]) = 0
      BY <1>1, <2>2, FS_EmptySet DEF CapInv, LeasedIsKnown
    <3> QED
      BY <1>1, <1>3, <3>2, <3>3, CapType DEF CapInv, CapacitiesKnown, LedgerWithinCapacity
  <2> QED
    BY <2>1, <2>2
<1>8. ASSUME leases' = Reserve(leases, o, p), Cardinality(leases[p]) < cat'.cap[p],
             p \in cat'.known, cat' = cat \/ cat' = MaintainedCatalogue(p)
      PROVE  CapacitiesKnown' /\ LeasedIsKnown' /\ LedgerWithinCapacity'
  <2>1. \A x \in Profiles : leases'[x] = IF x = p THEN leases[p] \cup {o} ELSE leases[x]
    BY <1>1, <1>8 DEF Reserve, TypeOK
  <2>2. leases[p] \in SUBSET Requesters /\ cat'.cap[p] \in Nat
    BY <1>1 DEF TypeOK, Catalogues
  <2>3. Cardinality(leases[p] \cup {o}) <= cat'.cap[p]
    BY <1>8, <2>2, OneMoreFits
  <2>4. LedgerWithinCapacity'
    BY <1>7, <1>8, <2>1, <2>3 DEF LedgerWithinCapacity
  <2>5. LeasedIsKnown'
    BY <1>7, <1>8, <2>1 DEF CapInv, LeasedIsKnown
  <2> QED
    BY <1>7, <1>8, <2>4, <2>5
<1>9. ASSUME leases' = leases, cat' = cat \/ cat' = MaintainedCatalogue(p)
      PROVE  CapacitiesKnown' /\ LeasedIsKnown' /\ LedgerWithinCapacity'
  BY <1>7, <1>9 DEF CapInv, LeasedIsKnown, LedgerWithinCapacity
<1>10. Raise(c) => \A d \in Calls : csnap'[d] \in {csnap[d], NoRows, RowsOf(leases')}
  BY DEF Raise, TypeOK
<1>11. AwaitSave(c) => \A d \in Calls : csnap'[d] \in {csnap[d], NoRows, RowsOf(leases')}
  BY DEF AwaitSave, TypeOK
<1>12. \A how : Return(c, how) => \A d \in Calls : csnap'[d] \in {csnap[d], NoRows, RowsOf(leases')}
  BY DEF Return, TypeOK
<1>13. CASE AcquireSlot(c)
  BY <1>5, <1>9, <1>10, <1>13 DEF AcquireSlot
<1>14. CASE OwnerNotRunning(c)
  BY <1>5, <1>9, <1>10, <1>14 DEF OwnerNotRunning
<1>15. CASE AcquireHeld(c)
  BY <1>5, <1>9, <1>12, <1>15 DEF AcquireHeld
<1>16. CASE AcquireOrWait(c)
  <2>1. CASE leases' = leases
    BY <1>5, <1>9, <1>11, <1>16, <2>1 DEF AcquireOrWait, AwaitChange
  <2>2. CASE leases' # leases
    <3>1. /\ p \in FindAvailableProfile(cat, leases, cooling', resv', CallRequest(c))
          /\ leases' = Reserve(leases, o, p) /\ AwaitSave(c) /\ UNCHANGED <<cat, db>>
      BY <1>16, <2>2 DEF AcquireOrWait
    <3>2. p \in cat.known /\ Cardinality(leases[p]) < cat.cap[p]
      BY <1>1, <3>1, FoundHasRoom DEF TypeOK
    <3> QED
      BY <1>5, <1>8, <1>11, <3>1, <3>2
  <2> QED
    BY <2>1, <2>2
\* reserve(allow_unready=True), with or without a placeholder
<1>17. ASSUME MaintainOrWait(c, p), cat' = cat \/ cat' = MaintainedCatalogue(p), db' = db
       PROVE  CapInv'
  <2>1. CASE leases' = leases
    BY <1>5, <1>9, <1>11, <1>17, <2>1 DEF MaintainOrWait, AwaitChange
  <2>2. CASE leases' # leases
    <3>1. /\ ~(Cardinality(leases[p]) >= cat'.cap[p])
          /\ p \in cat'.known /\ leases' = Reserve(leases, o, p) /\ AwaitSave(c)
      BY <1>17, <2>2 DEF MaintainOrWait
    <3>2. Cardinality(leases[p]) \in Nat /\ cat'.cap[p] \in Nat
      BY <1>1, FinitelyMany DEF TypeOK, Catalogues
    <3>3. Cardinality(leases[p]) < cat'.cap[p]
      BY <3>1, <3>2
    <3> QED
      BY <1>5, <1>8, <1>11, <1>17, <3>1, <3>3
  <2> QED
    BY <2>1, <2>2
<1>18. CASE Maintain(c)
  <2>1. cat' = MaintainedCatalogue(p) /\ db' = db
    BY <1>18 DEF Maintain
  <2>2. MaintainOrWait(c, p) \/ (Raise(c) /\ leases' = leases)
    BY <1>18 DEF Maintain
  <2> QED
    BY <1>5, <1>9, <1>10, <1>17, <2>1, <2>2
<1>19. CASE MaintainHeld(c)
  BY <1>5, <1>9, <1>12, <1>19 DEF MaintainHeld
<1>20. CASE WaitOver(c)
  <2>1. UNCHANGED <<cat, db>>
    BY <1>20 DEF WaitOver
  <2>2. \/ MaintainOrWait(c, p)
        \/ leases' = leases /\ (Raise(c) \/ csnap' = csnap)
    BY <1>20 DEF WaitOver
  <2> QED
    BY <1>5, <1>9, <1>10, <1>17, <2>1, <2>2
<1>21. CASE UpdateSaved(c)
  BY <1>5, <1>9, <1>12, <1>21 DEF UpdateSaved
<1>22. CASE UpdateSaveFailed(c)
  <2>1. /\ UNCHANGED cat /\ db' \in {db, csnap[c]} /\ Raise(c)
        /\ \A x \in Profiles : leases'[x] \subseteq leases[x]
    BY <1>22 DEF UpdateSaveFailed, Release, TypeOK
  <2> QED
    BY <1>5, <1>6, <1>10, <2>1
<1> QED
  BY <1>13, <1>14, <1>15, <1>16, <1>18, <1>19, <1>20, <1>21, <1>22 DEF Update

\* CapInv is inductive relative to TypeOK and LeaseInv.
LEMMA NextCapacity ==
    SteadyEnvironment /\ TypeOK /\ LeaseInv /\ CapInv /\ [Next]_vars => CapInv'
<1> SUFFICES ASSUME SteadyEnvironment, TypeOK, LeaseInv, CapInv, [Next]_vars PROVE CapInv'
  OBVIOUS
<1>1. TypeOK' /\ LeaseInv'
  BY NextType, NextLease
<1>2. CASE UNCHANGED vars
  <2>1. /\ UNCHANGED <<cat, pc, fresh, loaded, cst, stored, leases, db, snap, csnap>>
    BY <1>2 DEF vars, mainVars, queueVars, ledgerVars, policyVars, flagVars, callVars
  <2>2. TablesFit'
    BY <2>1 DEF CapInv, TablesFit, Fits, RowsFor
  <2> QED
    BY <1>1, <2>1, <2>2, ShrinkingStep
<1> QED
  BY <1>1, <1>2, SignalsCapacity, OutsideCapacity, BootCapacity, LoopCapacity, UpdateCapacity
  DEF Next

\* The manager never leases more of a profile than its capacity: however grants,
\* retried updates, releases, evictions, refreshes, late commits, restarts and
\* continue-as-new interleave, if no update comes in during startup and the
\* capacities are not edited.
THEOREM LedgerStaysWithinCapacity ==
    ASSUME SteadyEnvironment
    PROVE  Spec => []LedgerWithinCapacity
<1>1. Init => TypeOK /\ LeaseInv /\ CapInv
  BY InitType, InitLease, InitCapacity
<1>2. TypeOK /\ LeaseInv /\ CapInv /\ [Next]_vars => (TypeOK /\ LeaseInv /\ CapInv)'
  BY NextType, NextLease, NextCapacity
<1>3. CapInv => LedgerWithinCapacity
  BY DEF CapInv
<1> QED
  BY <1>1, <1>2, <1>3, PTL DEF Spec

\* Whatever snapshot commits last, the lease table never has more rows of a profile
\* than its capacity, under the same conditions: what a restart finds can be restored.
THEOREM TableStaysWithinCapacity ==
    ASSUME SteadyEnvironment
    PROVE  Spec => []TableWithinCapacity
<1>1. Init => TypeOK /\ LeaseInv /\ CapInv
  BY InitType, InitLease, InitCapacity
<1>2. TypeOK /\ LeaseInv /\ CapInv /\ [Next]_vars => (TypeOK /\ LeaseInv /\ CapInv)'
  BY NextType, NextLease, NextCapacity
<1>3. CapInv => TableWithinCapacity
  BY DEF CapInv, CapacitiesKnown, TablesFit, Fits, RowsFor, TableWithinCapacity
<1> QED
  BY <1>1, <1>2, <1>3, PTL DEF Spec

-----------------------------------------------------------------------------
(* The slots kept for a handoff.  A maintenance lease takes a slot without *)
(* looking at the reservations, so here there are none of them.            *)

\* The groups for which p is reserved
Reserved(rs, p) == {g \in Groups : rs[g] = p}

\* The requesters that p is leased to, or will be when the rows are restored
Kept(p) == leases[p] \cup RowsFor(loaded, p)

\* The rows of the table have not been read.
NotLoaded == pc \in {"down", "boot_leases"} \/ (pc = "boot_profiles" /\ fresh)

\* What is known of a profile's capacity is what is stored, also after the restore.
KnownExactly == \A p \in cat.known : cat.cap[p] = InitialCatalogue.cap[p]

\* Leases, rows to be restored and reservations together fit.
SlotsSuffice ==
    \A p \in Profiles :
        Cardinality(Kept(p)) + Cardinality(Reserved(resv, p)) <= InitialCatalogue.cap[p]

\* An execution reserves nothing before it has read the rows.
NoneReservedYet == NotLoaded => \A g \in Groups : resv[g] = None

HandoffInv == KnownExactly /\ SlotsSuffice /\ NoneReservedYet

\* The sets involved are finite.
LEMMA FiniteReserved ==
    ASSUME NEW G \in SUBSET Groups
    PROVE  IsFiniteSet(G) /\ Cardinality(G) \in Nat
BY FiniteAssumption, FS_Subset, FS_CardinalityType

\* An element adds one at most.
LEMMA OneMore ==
    ASSUME NEW S, NEW x, IsFiniteSet(S), Cardinality(S) \in Nat
    PROVE  /\ IsFiniteSet(S \cup {x}) /\ Cardinality(S \cup {x}) \in Nat
           /\ Cardinality(S \cup {x}) <= Cardinality(S) + 1
<1>1. /\ IsFiniteSet(S \cup {x})
      /\ Cardinality(S \cup {x}) = IF x \in S THEN Cardinality(S) ELSE Cardinality(S) + 1
  BY FS_AddElement
<1> QED
  BY <1>1

\* Fewer leases and fewer reservations fit.
LEMMA LessFits ==
    ASSUME NEW S \in SUBSET Requesters, NEW T \in SUBSET S, NEW G \in SUBSET Groups,
           NEW H \in SUBSET G, NEW n \in Nat, Cardinality(S) + Cardinality(G) <= n
    PROVE  Cardinality(T) + Cardinality(H) <= n
<1>1. T \in SUBSET Requesters /\ H \in SUBSET Groups
  OBVIOUS
<1>2. /\ IsFiniteSet(S) /\ Cardinality(S) \in Nat /\ Cardinality(T) \in Nat
      /\ IsFiniteSet(G) /\ Cardinality(G) \in Nat /\ Cardinality(H) \in Nat
  BY <1>1, FinitelyMany, FiniteReserved
<1>3. Cardinality(T) <= Cardinality(S) /\ Cardinality(H) <= Cardinality(G)
  BY <1>2, FS_Subset
<1> QED
  BY <1>2, <1>3

\* The types of the sets that are counted, before and after a step.
LEMMA KeptTypes ==
    /\ TypeOK => \A p \in Profiles : Kept(p) \in SUBSET Requesters
    /\ TypeOK' => \A p \in Profiles : Kept(p)' \in SUBSET Requesters
    /\ \A rs, p : Reserved(rs, p) \in SUBSET Groups
BY DEF TypeOK, Kept, RowsFor, Reserved

\* A lookup that finds a profile finds a slot that no other group has reserved, and
\* leaves the group without a reservation.
LEMMA FoundIsNotReserved ==
    ASSUME NEW c \in Catalogues, NEW ls \in [Profiles -> SUBSET Requesters], NEW cool,
           NEW rs \in [Groups -> Profiles \cup {None}], NEW q, q.group \in Groups \cup {None},
           NEW p \in Profiles, p \in FindAvailableProfile(c, ls, cool, rs, q),
           Cardinality(ls[p]) + Cardinality(Reserved(rs, p)) <= c.cap[p]
    PROVE  Cardinality(ls[p]) + 1 + Cardinality(Reserved(ReservationsAfterLookup(rs, q), p))
              <= c.cap[p]
<1> DEFINE R == Reserved(rs, p)
           A == Reserved(ReservationsAfterLookup(rs, q), p)
<1>1. /\ Cardinality(ls[p]) \in Nat /\ c.cap[p] \in Nat
      /\ IsFiniteSet(R) /\ Cardinality(R) \in Nat /\ Cardinality(A) \in Nat
  BY FinitelyMany, FiniteReserved DEF Catalogues, Reserved
<1>2. A = {h \in Groups : rs[h] = p /\ h # q.group}
  BY SelectionNoneAssumption DEF Reserved, ReservationsAfterLookup
<1>3. CASE OwnReservation(rs, q) # None /\ ProfileMatchesRequest(c, ls, cool, q, OwnReservation(rs, q))
  <2>1. p = OwnReservation(rs, q)
    BY <1>3 DEF FindAvailableProfile
  <2>2. q.group \in Groups /\ rs[q.group] = p
    BY <1>3, <2>1 DEF OwnReservation
  <2>3. A = R \ {q.group} /\ q.group \in R
    BY <1>2, <2>2 DEF Reserved
  <2>4. Cardinality(A) = Cardinality(R) - 1
    <3> HIDE DEF R, A
    <3> QED
      BY <1>1, <2>3, FS_RemoveElement
  <2> QED
    BY <1>1, <2>4
<1>4. CASE ~(OwnReservation(rs, q) # None /\ ProfileMatchesRequest(c, ls, cool, q, OwnReservation(rs, q)))
  <2>1. p \in EligibleProfiles(c, ls, cool, rs, q)
    BY <1>4 DEF FindAvailableProfile, BestOf
  <2>2. AvailableSlots(c, ls, p) > Cardinality(A)
    BY <1>2, <2>1 DEF EligibleProfiles, ReservedForOtherGroups
  <2>3. Cardinality(ls[p]) < c.cap[p] /\ AvailableSlots(c, ls, p) = c.cap[p] - Cardinality(ls[p])
    BY <1>1, <2>2 DEF AvailableSlots
  <2> QED
    BY <1>1, <2>2, <2>3
<1> QED
  BY <1>3, <1>4

\* The known capacities stay exact under merging and pruning.
LEMMA KnownStep ==
    ASSUME TypeOK, CapInv, KnownExactly,
           \/ cat' \in {AppliedCatalogue, Pruned(AppliedCatalogue)}
           \/ cat'.known = cat.known /\ cat'.cap = cat.cap
    PROVE  KnownExactly'
<1>1. \A p \in AppliedCatalogue.known : AppliedCatalogue.cap[p] = InitialCatalogue.cap[p]
  BY AppliedCapacities DEF KnownExactly
<1>2. AppliedCatalogue \in Catalogues
  BY AppliedCatalogueType
<1>3. \A p \in Pruned(AppliedCatalogue).known :
         p \in AppliedCatalogue.known /\ Pruned(AppliedCatalogue).cap[p] = AppliedCatalogue.cap[p]
  BY <1>2 DEF Pruned, Catalogues
<1>4. CASE cat' = AppliedCatalogue
  BY <1>1, <1>4 DEF KnownExactly
<1>5. CASE cat' = Pruned(AppliedCatalogue)
  BY <1>1, <1>3, <1>5 DEF KnownExactly
<1>6. CASE cat'.known = cat.known /\ cat'.cap = cat.cap
  BY <1>6 DEF KnownExactly
<1> QED
  BY <1>4, <1>5, <1>6

\* A step that leases and reserves nothing keeps the reserved slots.
LEMMA FewerStep ==
    ASSUME TypeOK, TypeOK', CapInv, HandoffInv,
           \/ cat' \in {AppliedCatalogue, Pruned(AppliedCatalogue)}
           \/ cat'.known = cat.known /\ cat'.cap = cat.cap,
           \A p \in Profiles : Kept(p)' \subseteq Kept(p),
           \A g \in Groups : resv'[g] \in {resv[g], None},
           NotLoaded' => NotLoaded
    PROVE  HandoffInv'
<1>1. KnownExactly'
  BY KnownStep DEF HandoffInv
<1>2. NoneReservedYet'
  BY DEF HandoffInv, NoneReservedYet
<1>3. SlotsSuffice'
  <2> SUFFICES ASSUME NEW p \in Profiles
               PROVE  Cardinality(Kept(p)') + Cardinality(Reserved(resv', p)) <= InitialCatalogue.cap[p]
    BY DEF SlotsSuffice, Reserved
  <2>1. Reserved(resv', p) \in SUBSET Reserved(resv, p)
    BY SelectionNoneAssumption DEF Reserved
  <2>2. Cardinality(Kept(p)) + Cardinality(Reserved(resv, p)) <= InitialCatalogue.cap[p]
    BY DEF HandoffInv, SlotsSuffice
  <2>3. Kept(p) \in SUBSET Requesters /\ Kept(p)' \in SUBSET Kept(p)
        /\ Reserved(resv, p) \in SUBSET Groups /\ InitialCatalogue.cap[p] \in Nat
    BY KeptTypes, CapType
  <2> QED
    BY <2>1, <2>2, <2>3, LessFits
<1> QED
  BY <1>1, <1>2, <1>3 DEF HandoffInv

\* A slot that is given back may be reserved.
LEMMA ReleaseHandoff ==
    ASSUME TypeOK, TypeOK', LeaseInv, CapInv, HandoffInv, NEW r \in Requesters,
           NEW p \in Profiles \cup {None}, NEW group \in Groups \cup {None}, NEW handoff,
           r \in Workflows \/ group = None, ReleaseSlot(r, p, group, handoff)
    PROVE  HandoffInv'
<1>1. /\ UNCHANGED <<pc, fresh, loaded, cat>>
      /\ leases' = IF p = None THEN leases ELSE Release(leases, r, p)
  BY DEF ReleaseSlot, mainVars, policyVars
<1>2. \A x \in Profiles : leases'[x] \subseteq leases[x]
  BY <1>1 DEF Release, TypeOK
<1>3. CASE resv' = resv
  <2>1. \A x \in Profiles : Kept(x)' \subseteq Kept(x)
    BY <1>1, <1>2 DEF Kept, RowsFor
  <2> QED
    BY <1>1, <1>3, <2>1, FewerStep DEF NotLoaded
<1>4. CASE resv' # resv
  <2>1. /\ group \in Groups /\ p \in Profiles /\ r \in leases[p]
        /\ resv' = [resv EXCEPT ![group] = p] /\ leases' = Release(leases, r, p)
    BY <1>1, <1>4 DEF ReleaseSlot
  <2>2. r \in Workflows /\ loaded[r] = None
    BY <2>1, SelectionNoneAssumption DEF LeaseInv, UnrestoredHasNone
  <2>3. ~NotLoaded'
    BY <1>1, <2>1, <2>2 DEF LeaseInv, NoneBeforeLoad, NotLoaded
  <2>4. KnownExactly' /\ NoneReservedYet'
    BY <1>1, <2>3, KnownStep DEF HandoffInv, NoneReservedYet
  <2>5. SlotsSuffice'
    <3> SUFFICES ASSUME NEW x \in Profiles
                 PROVE  Cardinality(Kept(x)') + Cardinality(Reserved(resv', x))
                           <= InitialCatalogue.cap[x]
      BY DEF SlotsSuffice, Reserved
    <3>1. Cardinality(Kept(x)) + Cardinality(Reserved(resv, x)) <= InitialCatalogue.cap[x]
      BY DEF HandoffInv, SlotsSuffice
    <3>2. /\ Kept(x) \in SUBSET Requesters /\ Reserved(resv, x) \in SUBSET Groups
          /\ Reserved(resv', x) \in SUBSET Groups /\ InitialCatalogue.cap[x] \in Nat
      BY KeptTypes, CapType
    <3>3. CASE x = p
      <4>1. Kept(x)' = Kept(x) \ {r} /\ r \in Kept(x)
        BY <1>1, <2>1, <2>2, <3>3, SelectionNoneAssumption DEF Kept, RowsFor, Release, TypeOK
      <4>2. Reserved(resv', x) \subseteq Reserved(resv, x) \cup {group}
        BY <2>1, <3>3 DEF Reserved, TypeOK
      <4>3. /\ IsFiniteSet(Kept(x)) /\ Cardinality(Kept(x)) \in Nat
            /\ IsFiniteSet(Reserved(resv, x)) /\ Cardinality(Reserved(resv, x)) \in Nat
            /\ Cardinality(Reserved(resv', x)) \in Nat
        BY <3>2, FinitelyMany, FiniteReserved
      <4>4. Cardinality(Kept(x)') = Cardinality(Kept(x)) - 1
        BY <4>1, <4>3, FS_RemoveElement
      <4>5. /\ IsFiniteSet(Reserved(resv, x) \cup {group})
            /\ Cardinality(Reserved(resv, x) \cup {group}) \in Nat
            /\ Cardinality(Reserved(resv, x) \cup {group}) <= Cardinality(Reserved(resv, x)) + 1
        BY <4>3, OneMore
      <4>6. Cardinality(Reserved(resv', x)) <= Cardinality(Reserved(resv, x) \cup {group})
        BY <4>2, <4>5, FS_Subset
      <4> QED
        BY <3>1, <3>2, <4>3, <4>4, <4>5, <4>6
    <3>4. CASE x # p
      <4>1. Kept(x)' \in SUBSET Kept(x) /\ Reserved(resv', x) \in SUBSET Reserved(resv, x)
        BY <1>1, <1>2, <2>1, <3>4 DEF Kept, RowsFor, Reserved, TypeOK
      <4> QED
        BY <3>1, <3>2, <4>1, LessFits
    <3> QED
      BY <3>3, <3>4
  <2> QED
    BY <2>4, <2>5 DEF HandoffInv
<1> QED
  BY <1>3, <1>4

\* A lease on a slot that is not reserved keeps the reserved ones.
LEMMA GrantHandoff ==
    ASSUME TypeOK, TypeOK', LeaseInv, CapInv, HandoffInv, NEW r \in Requesters,
           NEW p \in Profiles, pc \notin Booting \cup {"down"}, pc' \notin Booting \cup {"down"},
           leases' = Reserve(leases, r, p), UNCHANGED <<loaded, cat>>, p \in cat.known,
           Cardinality(leases[p]) + 1 + Cardinality(Reserved(resv', p)) <= cat.cap[p],
           \A g \in Groups : resv'[g] \in {resv[g], None}
    PROVE  HandoffInv'
<1>1. KnownExactly' /\ NoneReservedYet'
  BY KnownStep DEF HandoffInv, NoneReservedYet, NotLoaded, Booting
<1>2. \A x \in Profiles : Kept(x) = leases[x] /\ Kept(x)' = leases'[x]
  <2>1. loaded = NoRows /\ loaded' = NoRows
    BY DEF LeaseInv, LoadedOnlyAtBoot, Booting
  <2> QED
    BY <2>1, NoRowsFit DEF Kept
<1>3. SlotsSuffice'
  <2> SUFFICES ASSUME NEW x \in Profiles
               PROVE  Cardinality(leases'[x]) + Cardinality(Reserved(resv', x))
                         <= InitialCatalogue.cap[x]
    BY <1>2 DEF SlotsSuffice, Reserved
  <2>1. /\ leases[x] \in SUBSET Requesters /\ Reserved(resv, x) \in SUBSET Groups
        /\ Reserved(resv', x) \in SUBSET Reserved(resv, x) /\ InitialCatalogue.cap[x] \in Nat
    BY KeptTypes, CapType, SelectionNoneAssumption DEF TypeOK, Reserved
  <2>2. CASE x = p
    <3>1. leases'[x] = leases[p] \cup {r} /\ cat.cap[p] = InitialCatalogue.cap[x]
      BY <2>2 DEF Reserve, TypeOK, HandoffInv, KnownExactly
    <3>2. /\ IsFiniteSet(leases[p]) /\ Cardinality(leases[p]) \in Nat
          /\ Cardinality(Reserved(resv', x)) \in Nat
      BY <2>1, <2>2, FinitelyMany, FiniteReserved
    <3>3. /\ Cardinality(leases[p] \cup {r}) \in Nat
          /\ Cardinality(leases[p] \cup {r}) <= Cardinality(leases[p]) + 1
      BY <3>2, OneMore
    <3> QED
      BY <2>1, <2>2, <3>1, <3>2, <3>3
  <2>3. CASE x # p
    <3>1. leases'[x] = leases[x]
      BY <2>3 DEF Reserve, TypeOK
    <3>2. Cardinality(leases[x]) + Cardinality(Reserved(resv, x)) <= InitialCatalogue.cap[x]
      BY <1>2 DEF HandoffInv, SlotsSuffice
    <3> QED
      BY <2>1, <3>1, <3>2, LessFits
  <2> QED
    BY <2>2, <2>3
<1> QED
  BY <1>1, <1>3 DEF HandoffInv

\* A step that takes leases away at most and leaves the rows to be restored alone.
LEMMA CalmStep ==
    ASSUME TypeOK, TypeOK', CapInv, HandoffInv,
           \/ cat' \in {AppliedCatalogue, Pruned(AppliedCatalogue)}
           \/ cat'.known = cat.known /\ cat'.cap = cat.cap,
           \A p \in Profiles : leases'[p] \subseteq leases[p], loaded' = loaded,
           \A g \in Groups : resv'[g] \in {resv[g], None},
           NotLoaded' => NotLoaded
    PROVE  HandoffInv'
<1>1. \A p \in Profiles : Kept(p)' \subseteq Kept(p)
  BY DEF Kept, RowsFor
<1> QED
  BY <1>1, FewerStep

\* The end of an execution leaves no leases and no reservations.
LEMMA StopHandoff ==
    ASSUME Stop
    PROVE  HandoffInv'
<1>1. /\ leases' = NoLeases /\ loaded' = NoRows /\ cat' = NoProfiles /\ resv' = NoReservations
  BY DEF Stop
<1>2. \A p \in Profiles : Kept(p)' = {} /\ Reserved(resv', p) = {}
  BY <1>1, NoRowsFit, SelectionNoneAssumption DEF Kept, Reserved, NoLeases, NoReservations
<1>3. SlotsSuffice'
  <2> SUFFICES ASSUME NEW p \in Profiles
               PROVE  Cardinality(Kept(p)') + Cardinality(Reserved(resv', p)) <= InitialCatalogue.cap[p]
    BY DEF SlotsSuffice, Reserved
  <2> QED
    BY <1>2, FS_EmptySet, CapType
<1>4. KnownExactly' /\ NoneReservedYet'
  BY <1>1 DEF KnownExactly, NoneReservedYet, NoProfiles, NoReservations
<1> QED
  BY <1>3, <1>4 DEF HandoffInv

\* Before the first execution there are none either.
LEMMA InitHandoff ==
    ASSUME Init
    PROVE  HandoffInv
<1>1. /\ leases = NoLeases /\ loaded = NoRows /\ cat = NoProfiles /\ resv = NoReservations
  BY DEF Init
<1>2. \A p \in Profiles : Kept(p) = {} /\ Reserved(resv, p) = {}
  BY <1>1, NoRowsFit, SelectionNoneAssumption DEF Kept, Reserved, NoLeases, NoReservations
<1>3. SlotsSuffice
  BY <1>2, FS_EmptySet, CapType DEF SlotsSuffice
<1>4. KnownExactly /\ NoneReservedYet
  BY <1>1 DEF KnownExactly, NoneReservedYet, NoProfiles, NoReservations
<1> QED
  BY <1>3, <1>4 DEF HandoffInv

\* Signals give slots back, and may reserve them.
LEMMA SignalsHandoff ==
    ASSUME TypeOK, TypeOK', LeaseInv, CapInv, HandoffInv, Signals
    PROVE  HandoffInv'
<1> USE DEF mainVars, queueVars, ledgerVars, policyVars, flagVars, callVars
<1>1. ASSUME UNCHANGED <<cat, leases, loaded, resv, pc, fresh>> PROVE HandoffInv'
  BY <1>1, CalmStep DEF NotLoaded
<1>2. \A r \in Requesters : told[r] \in Profiles \cup {None}
  BY DEF TypeOK, Rows
<1>3. ASSUME NEW q \in Payloads, RequestSlot(q) PROVE HandoffInv'
  BY <1>1, <1>3 DEF RequestSlot
<1>4. ASSUME NEW w \in Workflows, NEW handoff \in BOOLEAN, WorkflowRelease(w, handoff)
      PROVE  HandoffInv'
  BY <1>2, <1>4, ReleaseHandoff, RequestAssumption DEF WorkflowRelease, Requesters
<1>5. ASSUME NEW w \in Workflows, Withdraw(w) PROVE HandoffInv'
  BY <1>5, ReleaseHandoff DEF Withdraw, Requesters
<1>6. ASSUME NEW o \in Owners, OwnerRelease(o) PROVE HandoffInv'
  BY <1>2, <1>6, ReleaseHandoff DEF OwnerRelease, Requesters
<1>7. ASSUME NEW p \in Profiles, ReportCooldown(p) PROVE HandoffInv'
  BY <1>1, <1>7 DEF ReportCooldown
<1>8. CASE SyncProfiles
  BY <1>1, <1>8 DEF SyncProfiles
<1>9. CASE Shutdown
  BY <1>1, <1>9 DEF Shutdown
<1> QED
  BY <1>3, <1>4, <1>5, <1>6, <1>7, <1>8, <1>9 DEF Signals

\* Outside nothing touches the ledger, unless the execution ends.
LEMMA OutsideHandoff ==
    ASSUME TypeOK, TypeOK', CapInv, HandoffInv, Outside
    PROVE  HandoffInv'
<1> USE DEF mainVars, queueVars, ledgerVars, policyVars, flagVars, callVars
<1>1. ASSUME UNCHANGED <<cat, leases, loaded, resv>>, NotLoaded' => NotLoaded PROVE HandoffInv'
  BY <1>1, CalmStep
<1>2. CASE \E r \in Requesters : RemoveRow(r)
  BY <1>1, <1>2 DEF RemoveRow, NotLoaded
<1>3. CASE EditProfiles
  BY <1>1, <1>3 DEF EditProfiles, NotLoaded
<1>4. CASE \E w \in Workflows : ReleaseLost(w) \/ Terminate(w)
  BY <1>1, <1>4 DEF ReleaseLost, Terminate, NotLoaded
<1>5. CASE Crash
  BY <1>5, StopHandoff DEF Crash
<1>6. CASE Start
  BY <1>1, <1>6 DEF Start, NotLoaded
<1> QED
  BY <1>2, <1>3, <1>4, <1>5, <1>6 DEF Outside

\* Startup moves rows from the table to the ledger.
LEMMA BootHandoff ==
    ASSUME TypeOK, TypeOK', CapInv, HandoffInv, Boot
    PROVE  HandoffInv'
<1> USE DEF mainVars, queueVars, ledgerVars, policyVars, flagVars, callVars
<1>1. ASSUME cat' \in {cat, AppliedCatalogue}, UNCHANGED <<leases, loaded, resv>>,
             NotLoaded' => NotLoaded
      PROVE  HandoffInv'
  BY <1>1, CalmStep
<1>2. CASE BootProfiles
  BY <1>1, <1>2 DEF BootProfiles, AfterBootProfiles, NotLoaded
<1>3. CASE LoadRows
  <2>1. /\ UNCHANGED <<leases, cat, resv>> /\ pc = "boot_leases" /\ pc' = "boot_rows"
        /\ loaded' = db
    BY <1>3 DEF LoadRows
  <2>2. KnownExactly' /\ NoneReservedYet'
    BY <2>1, KnownStep DEF HandoffInv, NoneReservedYet, NotLoaded
  <2>3. SlotsSuffice'
    <3> SUFFICES ASSUME NEW p \in Profiles
                 PROVE  Cardinality(Kept(p)') + Cardinality(Reserved(resv', p))
                           <= InitialCatalogue.cap[p]
      BY DEF SlotsSuffice, Reserved
    <3>1. leases[p] = {} /\ Reserved(resv', p) = {}
      BY <2>1, SelectionNoneAssumption
      DEF CapInv, EmptyBeforeLoad, NoLeases, HandoffInv, NoneReservedYet, NotLoaded, Reserved
    <3>2. Kept(p)' = RowsFor(db, p)
      BY <2>1, <3>1 DEF Kept, RowsFor
    <3>3. Cardinality(RowsFor(db, p)) <= InitialCatalogue.cap[p]
      BY DEF CapInv, TablesFit, Fits
    <3>4. Cardinality(RowsFor(db, p)) \in Nat
      BY FinitelyMany DEF RowsFor
    <3> QED
      BY <3>1, <3>2, <3>3, <3>4, FS_EmptySet, CapType
  <2> QED
    BY <2>2, <2>3 DEF HandoffInv
<1>4. CASE RowsLoaded
  BY <1>1, <1>4 DEF RowsLoaded, NotLoaded
<1>5. CASE LoadFailed
  BY <1>5, StopHandoff DEF LoadFailed
<1>6. ASSUME NEW r \in Requesters, RestoreRow(r) PROVE HandoffInv'
  <2>1. /\ UNCHANGED <<cat, resv>> /\ pc' \in {"restore", "boot_signal"}
        /\ leases' = Reserve(leases, r, loaded[r])
        /\ loaded' = [loaded EXCEPT ![r] = None]
        /\ loaded[r] \in Profiles
    BY <1>6 DEF RestoreRow, TypeOK, Catalogues
  <2>2. \A p \in Profiles : Kept(p)' \subseteq Kept(p)
    BY <2>1, SelectionNoneAssumption DEF Kept, Reserve, RowsFor, TypeOK, Rows
  <2> QED
    BY <2>1, <2>2, FewerStep DEF NotLoaded
<1>7. CASE RestoreDone
  BY <1>1, <1>7 DEF RestoreDone, NotLoaded
<1>8. CASE BootSignalled
  BY <1>1, <1>8 DEF BootSignalled, NotLoaded
<1>9. CASE BootRefresh
  BY <1>1, <1>9 DEF BootRefresh, NotLoaded
<1> QED
  BY <1>2, <1>3, <1>4, <1>5, <1>6, <1>7, <1>8, <1>9 DEF Boot

\* The invariant gives the property.
LEMMA HandoffInvImpliesFits ==
    TypeOK /\ HandoffInv => HandoffFits
<1> SUFFICES ASSUME TypeOK, HandoffInv, NEW p \in cat.known
             PROVE  Cardinality(leases[p]) + Cardinality(Reserved(resv, p)) <= cat.cap[p]
  BY DEF HandoffFits, Reserved
<1>1. p \in Profiles /\ cat.cap[p] = InitialCatalogue.cap[p]
  BY DEF TypeOK, Catalogues, HandoffInv, KnownExactly
<1>2. /\ Kept(p) \in SUBSET Requesters /\ leases[p] \in SUBSET Kept(p)
      /\ Reserved(resv, p) \in SUBSET Groups /\ InitialCatalogue.cap[p] \in Nat
  BY <1>1, KeptTypes, CapType DEF Kept
<1>3. Cardinality(Kept(p)) + Cardinality(Reserved(resv, p)) <= InitialCatalogue.cap[p]
  BY <1>1 DEF HandoffInv, SlotsSuffice
<1> QED
  BY <1>1, <1>2, <1>3, LessFits

\* The drain gives a reserved slot only to its group.
LEMMA LoopHandoff ==
    ASSUME TypeOK, TypeOK', LeaseInv, CapInv, HandoffInv, Loop
    PROVE  HandoffInv'
<1> USE DEF mainVars, queueVars, ledgerVars, policyVars, flagVars, callVars
<1>1. ASSUME \/ cat' \in {AppliedCatalogue, Pruned(AppliedCatalogue)}
             \/ cat'.known = cat.known /\ cat'.cap = cat.cap,
             \A p \in Profiles : leases'[p] \subseteq leases[p], loaded' = loaded,
             \A g \in Groups : resv'[g] \in {resv[g], None}, ~NotLoaded'
      PROVE  HandoffInv'
  BY <1>1, CalmStep
<1>2. CASE LoopExit
  BY <1>2, StopHandoff DEF LoopExit
<1>3. CASE LoopTop
  BY <1>1, <1>3 DEF LoopTop, NotLoaded
<1>4. CASE Refreshed
  BY <1>1, <1>4 DEF Refreshed, NotLoaded
<1>5. CASE RefreshFailed
  BY <1>1, <1>5 DEF RefreshFailed, NotLoaded
<1>6. CASE Wake
  BY <1>1, <1>6 DEF Wake, NotLoaded
<1>7. CASE BeginDrain
  BY <1>1, <1>7 DEF BeginDrain, ReservationsLeft, NotLoaded
<1>8. CASE Ordered
  BY <1>1, <1>8 DEF Ordered, NotLoaded
<1>9. \A q, g : g \in Groups => ReservationsAfterLookup(resv, q)[g] \in {resv[g], None}
  BY DEF ReservationsAfterLookup
<1>10. ASSUME NEW q \in Payloads, DrainExisting(q) PROVE HandoffInv'
  BY <1>1, <1>10 DEF DrainExisting, NotLoaded
<1>11. ASSUME NEW q \in Payloads, DrainKeep(q) PROVE HandoffInv'
  BY <1>1, <1>9, <1>11 DEF DrainKeep, NotLoaded
<1>12. ASSUME NEW q \in Payloads, NEW p \in Profiles, DrainGrant(q, p) PROVE HandoffInv'
  <2>1. /\ UNCHANGED <<cat, loaded>> /\ pc = "drain" /\ pc' = "save"
        /\ leases' = Reserve(leases, q.req, p)
        /\ resv' = ReservationsAfterLookup(resv, q)
        /\ p \in FindAvailableProfile(cat, leases, cooling, resv, q)
    BY <1>12 DEF DrainGrant
  <2>2. q.req \in Requesters /\ q.group \in Groups \cup {None}
    BY RequestAssumption DEF Requesters
  <2>3. /\ cat \in Catalogues /\ leases \in [Profiles -> SUBSET Requesters]
        /\ resv \in [Groups -> Profiles \cup {None}]
    BY DEF TypeOK
  <2>4. p \in cat.known
    BY <2>1, <2>3, FoundHasRoom
  <2>5. Cardinality(leases[p]) + Cardinality(Reserved(resv, p)) <= cat.cap[p]
    BY <2>4, HandoffInvImpliesFits DEF HandoffFits, Reserved
  <2>6. Cardinality(leases[p]) + 1 + Cardinality(Reserved(resv', p)) <= cat.cap[p]
    BY <2>1, <2>2, <2>3, <2>5, FoundIsNotReserved
  <2> QED
    BY <1>9, <2>1, <2>2, <2>4, <2>6, GrantHandoff DEF Booting
<1>13. CASE DrainSaved
  BY <1>1, <1>13 DEF DrainSaved, NotLoaded
<1>14. CASE DrainSaveFailed
  BY <1>1, <1>14 DEF DrainSaveFailed, Visited, NotLoaded
<1>15. CASE DrainSignalled
  BY <1>1, <1>15 DEF DrainSignalled, Visited, NotLoaded
<1>16. CASE DrainSignalFailed
  BY <1>1, <1>16 DEF DrainSignalFailed, Visited, NotLoaded
<1>17. CASE FirstDrainEnd
  <2>1. /\ pc' \in {"evict_save", "verify", "prep"} /\ UNCHANGED <<cat, loaded, resv>>
        /\ \A p \in Profiles : leases'[p] \subseteq leases[p]
    BY <1>17 DEF FirstDrainEnd, ReleaseAll, ThenVerify
  <2> QED
    BY <1>1, <2>1 DEF NotLoaded
<1>18. CASE EvictionSaved
  BY <1>1, <1>18 DEF EvictionSaved, ThenVerify, NotLoaded
<1>19. ASSUME NEW terminal \in SUBSET NotRunning, Verified(terminal) PROVE HandoffInv'
  <2>1. /\ pc' \in {"reclaim_save", "prep"} /\ UNCHANGED <<cat, loaded, resv>>
        /\ \A p \in Profiles : leases'[p] \subseteq leases[p]
    BY <1>19 DEF Verified, ReleaseAll
  <2> QED
    BY <1>1, <2>1 DEF NotLoaded
<1>20. CASE VerifyFailed
  BY <1>1, <1>20 DEF VerifyFailed, NotLoaded
<1>21. CASE ReclaimSaved
  BY <1>1, <1>21 DEF ReclaimSaved, NotLoaded
<1>22. CASE SecondDrainEnd
  BY <1>1, <1>22 DEF SecondDrainEnd, NotLoaded
<1>23. CASE ContinueAsNew
  <2>1. /\ pc' \in {"boot_refresh", "boot_profiles"} /\ fresh' = FALSE
        /\ UNCHANGED <<leases, loaded, resv>> /\ cat' = [cat EXCEPT !.ready = cat.known]
    BY <1>23 DEF ContinueAsNew
  <2>2. cat'.known = cat.known /\ cat'.cap = cat.cap
    BY <2>1 DEF TypeOK, Catalogues
  <2> QED
    BY <1>1, <2>1, <2>2 DEF NotLoaded
<1> QED
  BY <1>2, <1>3, <1>4, <1>5, <1>6, <1>7, <1>8, <1>10, <1>11, <1>12, <1>13, <1>14, <1>15,
     <1>16, <1>17, <1>18, <1>19, <1>20, <1>21, <1>22, <1>23 DEF Loop

\* An update of an execution lease takes no reserved slot.
LEMMA UpdateHandoff ==
    ASSUME TypeOK, TypeOK', LeaseInv, CapInv, HandoffInv, NEW c \in Calls, Update(c),
           Maintenance = {}, SteadyEnvironment
    PROVE  HandoffInv'
<1> USE DEF mainVars, queueVars, ledgerVars, policyVars, flagVars, callVars, UpdateFrame
<1> DEFINE o == CallOwner[c]
           p == Target[o]
<1>1. o \in Owners /\ o \in Requesters /\ p \in Profiles
  BY RequesterAssumption DEF Requesters
<1>2. /\ UNCHANGED <<pc, fresh, loaded>>
  BY DEF Update, AcquireSlot, OwnerNotRunning, AcquireHeld, AcquireOrWait, Maintain,
         MaintainHeld, WaitOver, UpdateSaved, UpdateSaveFailed
<1>3. ASSUME cat' = cat, \A x \in Profiles : leases'[x] \subseteq leases[x],
             \A g \in Groups : resv'[g] \in {resv[g], None}
      PROVE  HandoffInv'
  BY <1>2, <1>3, CalmStep DEF NotLoaded
<1>4. CASE AcquireSlot(c)
  BY <1>3, <1>4 DEF AcquireSlot
<1>5. CASE OwnerNotRunning(c)
  BY <1>3, <1>5 DEF OwnerNotRunning
<1>6. CASE AcquireHeld(c)
  BY <1>3, <1>6 DEF AcquireHeld
<1>7. CASE AcquireOrWait(c)
  <2>1. /\ resv' \in [Groups -> Profiles \cup {None}]
        /\ \A g \in Groups : resv'[g] \in {resv[g], None}
    BY <1>7 DEF AcquireOrWait, ReservationsLeft
  <2>2. CASE leases' = leases
    BY <1>3, <1>7, <2>1, <2>2 DEF AcquireOrWait
  <2>3. CASE leases' # leases
    <3>1. /\ p \in FindAvailableProfile(cat, leases, cooling', resv', CallRequest(c))
          /\ leases' = Reserve(leases, o, p) /\ UNCHANGED cat /\ cst[c] = "verify"
      BY <1>7, <2>3 DEF AcquireOrWait
    <3>2. cat \in Catalogues /\ leases \in [Profiles -> SUBSET Requesters]
      BY DEF TypeOK
    <3>3. p \in cat.known
      BY <1>1, <3>1, <3>2, FoundHasRoom
    <3>4. Cardinality(leases[p]) + Cardinality(Reserved(resv, p)) <= cat.cap[p]
      BY <3>3, HandoffInvImpliesFits DEF HandoffFits, Reserved
    <3>5. Cardinality(leases[p]) + Cardinality(Reserved(resv', p)) <= cat.cap[p]
      <4>1. Reserved(resv', p) \in SUBSET Reserved(resv, p)
        BY <1>1, <2>1, SelectionNoneAssumption DEF Reserved
      <4>2. /\ leases[p] \in SUBSET Requesters /\ leases[p] \in SUBSET leases[p]
            /\ Reserved(resv, p) \in SUBSET Groups /\ cat.cap[p] \in Nat
        BY <1>1, <3>2 DEF Reserved, Catalogues
      <4> QED
        BY <3>4, <4>1, <4>2, LessFits
    <3>6. CallRequest(c).group = None
      BY DEF CallRequest
    <3>7. Cardinality(leases[p]) + 1
            + Cardinality(Reserved(ReservationsAfterLookup(resv', CallRequest(c)), p)) <= cat.cap[p]
      BY <1>1, <2>1, <3>1, <3>2, <3>5, <3>6, FoundIsNotReserved
    <3>8. ReservationsAfterLookup(resv', CallRequest(c)) = resv'
      BY <2>1, <3>6, SelectionNoneAssumption DEF ReservationsAfterLookup
    <3>9. pc \notin Booting \cup {"down"}
      BY <3>1 DEF CapInv, NoCallAtBoot, ActiveCall
    <3> QED
      BY <1>1, <1>2, <2>1, <3>1, <3>3, <3>7, <3>8, <3>9, GrantHandoff
  <2> QED
    BY <2>2, <2>3
<1>8. CASE Maintain(c) \/ MaintainHeld(c)
  BY <1>8 DEF Maintain, MaintainHeld
<1>9. CASE WaitOver(c)
  BY <1>3, <1>9 DEF WaitOver
<1>10. CASE UpdateSaved(c)
  BY <1>3, <1>10 DEF UpdateSaved
<1>11. CASE UpdateSaveFailed(c)
  <2>1. UNCHANGED <<cat, resv>> /\ \A x \in Profiles : leases'[x] \subseteq leases[x]
    BY <1>11 DEF UpdateSaveFailed, Release, TypeOK
  <2> QED
    BY <1>3, <2>1
<1> QED
  BY <1>4, <1>5, <1>6, <1>7, <1>8, <1>9, <1>10, <1>11 DEF Update

\* The slots that are kept for the next step of a group stay free for it: leases and
\* reservations together never exceed a capacity, however releases, expiring
\* reservations, drains, updates, refreshes and restarts interleave, if no credential
\* maintenance takes slots, no update comes in during startup and the capacities are not
\* edited.
THEOREM ReservedSlotsStayFree ==
    ASSUME SteadyEnvironment, Maintenance = {}
    PROVE  Spec => []HandoffFits
<1>1. Init => TypeOK /\ LeaseInv /\ CapInv /\ HandoffInv
  BY InitType, InitLease, InitCapacity, InitHandoff
<1>2. TypeOK /\ LeaseInv /\ CapInv /\ HandoffInv /\ [Next]_vars
         => (TypeOK /\ LeaseInv /\ CapInv /\ HandoffInv)'
  <2> SUFFICES ASSUME TypeOK, LeaseInv, CapInv, HandoffInv, [Next]_vars
               PROVE  (TypeOK /\ LeaseInv /\ CapInv /\ HandoffInv)'
    OBVIOUS
  <2>1. TypeOK' /\ LeaseInv' /\ CapInv'
    BY NextType, NextLease, NextCapacity
  <2>2. CASE UNCHANGED vars
    BY <2>1, <2>2, CalmStep
    DEF vars, mainVars, queueVars, ledgerVars, policyVars, NotLoaded
  <2>3. CASE Next
    BY <2>1, <2>3, SignalsHandoff, OutsideHandoff, BootHandoff, LoopHandoff, UpdateHandoff
    DEF Next
  <2> QED
    BY <2>1, <2>2, <2>3
<1> QED
  BY <1>1, <1>2, HandoffInvImpliesFits, PTL DEF Spec

-----------------------------------------------------------------------------
(* Capacities that are edited.  Only the restore of rows leases without    *)
(* looking at the capacity, so here there is nothing to restore.           *)

\* The one execution of the manager is continued as new at most.
NoRestart == {"crash", "shutdown", "load_failure", "early_update"} \cap Behaviours = {}

\* What the step leases of p is within the capacity that is known of it.
HonouredAt(p) ==
    leases'[p] \subseteq leases[p] \/ Cardinality(leases'[p]) <= cat'.cap[p]

\* There is nothing in the table when the first and only restore reads it.
NothingToRestore ==
    /\ ~stopping
    /\ loaded = NoRows
    /\ BeforeRestored => db = NoRows
    /\ pc \in Booting \cup {"down"} => \A c \in Calls : ~ActiveCall(c)

\* One lease is added where there is room.
LEMMA GrantHonours ==
    ASSUME TypeOK, TypeOK', NEW r, NEW x \in Profiles, leases' = Reserve(leases, r, x),
           Cardinality(leases[x]) < cat'.cap[x], NEW p \in Profiles
    PROVE  HonouredAt(p)
<1>1. CASE p = x
  <2>1. leases'[p] = leases[x] \cup {r} /\ leases[x] \in SUBSET Requesters /\ cat'.cap[x] \in Nat
    BY <1>1 DEF Reserve, TypeOK, Catalogues
  <2> QED
    BY <1>1, <2>1, OneMoreFits DEF HonouredAt
<1>2. CASE p # x
  BY <1>2 DEF HonouredAt, Reserve, TypeOK
<1> QED
  BY <1>1, <1>2

\* The main loop leases only where there is room.
LEMMA LoopHonours ==
    ASSUME TypeOK, TypeOK', Loop, NEW p \in Profiles
    PROVE  HonouredAt(p)
<1> USE DEF mainVars, queueVars, ledgerVars, policyVars, flagVars, callVars
<1>1. ASSUME NEW q \in Payloads, NEW x \in Profiles, DrainGrant(q, x) PROVE HonouredAt(p)
  <2>1. /\ leases' = Reserve(leases, q.req, x) /\ cat' = cat
        /\ x \in FindAvailableProfile(cat, leases, cooling, resv, q)
    BY <1>1 DEF DrainGrant
  <2>2. Cardinality(leases[x]) < cat.cap[x]
    BY <2>1, FoundHasRoom DEF TypeOK
  <2> QED
    BY <2>1, <2>2, GrantHonours
<1>2. CASE LoopExit
  BY <1>2 DEF LoopExit, Stop, NoLeases, HonouredAt
<1>3. CASE LoopTop \/ Refreshed \/ RefreshFailed \/ Wake \/ BeginDrain \/ Ordered
  BY <1>3 DEF LoopTop, Refreshed, RefreshFailed, Wake, BeginDrain, Ordered, HonouredAt
<1>4. CASE \E q \in Payloads : DrainExisting(q) \/ DrainKeep(q)
  BY <1>4 DEF DrainExisting, DrainKeep, HonouredAt
<1>5. CASE DrainSaved \/ DrainSaveFailed \/ DrainSignalled \/ DrainSignalFailed
  BY <1>5 DEF DrainSaved, DrainSaveFailed, DrainSignalled, DrainSignalFailed, HonouredAt
<1>6. CASE FirstDrainEnd
  BY <1>6 DEF FirstDrainEnd, ReleaseAll, HonouredAt
<1>7. CASE SecondDrainEnd \/ EvictionSaved \/ ReclaimSaved \/ VerifyFailed \/ ContinueAsNew
  BY <1>7 DEF SecondDrainEnd, EvictionSaved, ReclaimSaved, VerifyFailed, ContinueAsNew, HonouredAt
<1>8. CASE \E terminal \in SUBSET NotRunning : Verified(terminal)
  BY <1>8 DEF Verified, ReleaseAll, HonouredAt
<1> QED
  BY <1>1, <1>2, <1>3, <1>4, <1>5, <1>6, <1>7, <1>8 DEF Loop

\* So do the updates.
LEMMA UpdateHonours ==
    ASSUME TypeOK, TypeOK', NEW c \in Calls, Update(c), NEW p \in Profiles
    PROVE  HonouredAt(p)
<1> USE DEF ledgerVars, policyVars
<1> DEFINE o == CallOwner[c]
           x == Target[o]
<1>1. x \in Profiles
  BY RequesterAssumption
<1>2. ASSUME leases' = leases PROVE HonouredAt(p)
  BY <1>2 DEF HonouredAt
<1>3. CASE AcquireSlot(c) \/ OwnerNotRunning(c) \/ AcquireHeld(c) \/ MaintainHeld(c) \/ UpdateSaved(c)
  BY <1>2, <1>3 DEF AcquireSlot, OwnerNotRunning, AcquireHeld, MaintainHeld, UpdateSaved
<1>4. CASE AcquireOrWait(c)
  <2>1. CASE leases' # leases
    <3>1. /\ x \in FindAvailableProfile(cat, leases, cooling', resv', CallRequest(c))
          /\ leases' = Reserve(leases, o, x) /\ UNCHANGED cat
      BY <1>4, <2>1 DEF AcquireOrWait
    <3>2. Cardinality(leases[x]) < cat.cap[x]
      BY <1>1, <3>1, FoundHasRoom DEF TypeOK
    <3> QED
      BY <1>1, <3>1, <3>2, GrantHonours
  <2> QED
    BY <1>2, <2>1
<1>5. ASSUME MaintainOrWait(c, x) PROVE HonouredAt(p)
  <2>1. CASE leases' # leases
    <3>1. ~(Cardinality(leases[x]) >= cat'.cap[x]) /\ leases' = Reserve(leases, o, x)
      BY <1>5, <2>1 DEF MaintainOrWait
    <3>2. Cardinality(leases[x]) \in Nat /\ cat'.cap[x] \in Nat
      BY <1>1, FinitelyMany DEF TypeOK, Catalogues
    <3> QED
      BY <1>1, <3>1, <3>2, GrantHonours
  <2> QED
    BY <1>2, <2>1
<1>6. CASE Maintain(c)
  BY <1>2, <1>5, <1>6 DEF Maintain
<1>7. CASE WaitOver(c)
  BY <1>2, <1>5, <1>7 DEF WaitOver
<1>8. CASE UpdateSaveFailed(c)
  BY <1>8 DEF UpdateSaveFailed, Release, HonouredAt, TypeOK
<1> QED
  BY <1>3, <1>4, <1>6, <1>7, <1>8 DEF Update

\* Nothing but a restored row is leased without looking, whatever is edited.
LEMMA StepHonours ==
    ASSUME TypeOK, TypeOK', [Next]_vars, \A r \in Requesters : ~RestoreRow(r),
           NEW p \in Profiles
    PROVE  HonouredAt(p)
<1> USE DEF mainVars, queueVars, ledgerVars
<1>1. CASE Signals
  BY <1>1 DEF Signals, RequestSlot, WorkflowRelease, Withdraw, OwnerRelease, ReportCooldown,
              SyncProfiles, Shutdown, ReleaseSlot, Release, HonouredAt, TypeOK
<1>2. CASE Outside
  BY <1>2 DEF Outside, RemoveRow, EditProfiles, ReleaseLost, Terminate, Crash, Start, Stop,
              NoLeases, HonouredAt
<1>3. CASE Boot
  BY <1>3 DEF Boot, BootProfiles, LoadRows, RowsLoaded, LoadFailed, RestoreDone, BootSignalled,
              BootRefresh, Stop, NoLeases, HonouredAt
<1>4. CASE UNCHANGED vars
  BY <1>4 DEF vars, HonouredAt
<1> QED
  BY <1>1, <1>2, <1>3, <1>4, LoopHonours, UpdateHonours DEF Next

\* Without restarts nothing is ever restored.
LEMMA NextNothing ==
    ASSUME NoRestart, TypeOK, TypeOK', LeaseInv', NothingToRestore, [Next]_vars
    PROVE  NothingToRestore'
<1> USE DEF mainVars, queueVars, ledgerVars, policyVars, flagVars, callVars
<1>0. \A r \in Requesters : loaded[r] = None
  BY DEF NothingToRestore, NoRows
<1>1. ASSUME UNCHANGED <<stopping, loaded, pc, fresh, cst>>, db' = db \/ ~BeforeRestored
      PROVE  NothingToRestore'
  BY <1>1 DEF NothingToRestore, BeforeRestored, ActiveCall
<1>2. ASSUME UNCHANGED <<stopping, loaded, cst>>, pc' \notin Booting \cup {"down"}
      PROVE  NothingToRestore'
  BY <1>2 DEF NothingToRestore, BeforeRestored, Booting
<1>3. ASSUME UNCHANGED <<stopping, loaded, cst, db>>, pc \in Booting \cup {"down"},
             BeforeRestored' => BeforeRestored
      PROVE  NothingToRestore'
  BY <1>3 DEF NothingToRestore, ActiveCall
<1>4. CASE Signals
  <2>1. UNCHANGED <<stopping, loaded, pc, fresh, cst, db>>
    BY <1>4 DEF Signals, RequestSlot, WorkflowRelease, Withdraw, OwnerRelease, ReportCooldown,
                SyncProfiles, Shutdown, ReleaseSlot, NoRestart
  <2> QED
    BY <1>1, <2>1
<1>5. CASE Outside
  <2>1. ASSUME NEW r \in Requesters, RemoveRow(r) PROVE NothingToRestore'
    <3>1. UNCHANGED <<stopping, loaded, pc, fresh, cst>>
      BY <2>1 DEF RemoveRow
    <3>2. db = NoRows => db' = NoRows
      BY <2>1 DEF RemoveRow, NoRows
    <3> QED
      BY <3>1, <3>2 DEF NothingToRestore, BeforeRestored, ActiveCall
  <2>2. CASE EditProfiles \/ \E w \in Workflows : ReleaseLost(w) \/ Terminate(w)
    BY <1>1, <2>2 DEF EditProfiles, ReleaseLost, Terminate
  <2>3. CASE Crash
    BY <2>3 DEF Crash, NoRestart
  <2>4. CASE Start
    BY <1>3, <2>4 DEF Start, BeforeRestored
  <2> QED
    BY <1>5, <2>1, <2>2, <2>3, <2>4 DEF Outside
<1>6. CASE Boot
  <2>1. CASE BootProfiles
    BY <1>3, <2>1 DEF BootProfiles, AfterBootProfiles, BeforeRestored, Booting
  <2>2. CASE LoadRows
    <3>1. /\ UNCHANGED <<stopping, cst, db>> /\ loaded' = db /\ pc = "boot_leases"
          /\ pc' = "boot_rows"
      BY <2>2 DEF LoadRows
    <3> QED
      BY <3>1 DEF NothingToRestore, BeforeRestored, Booting, ActiveCall
  <2>3. CASE RowsLoaded
    BY <1>3, <2>3 DEF RowsLoaded, BeforeRestored, Booting
  <2>4. CASE LoadFailed
    BY <1>0, <2>4 DEF LoadFailed, NoRestart
  <2>5. ASSUME NEW r \in Requesters, RestoreRow(r) PROVE NothingToRestore'
    BY <1>0, <2>5, SelectionNoneAssumption DEF RestoreRow, TypeOK, Catalogues
  <2>6. CASE RestoreDone
    BY <1>3, <2>6 DEF RestoreDone, BeforeRestored, Booting
  <2>7. CASE BootSignalled
    BY <1>3, <2>7 DEF BootSignalled, BeforeRestored, Booting
  <2>8. CASE BootRefresh
    BY <1>3, <2>8 DEF BootRefresh, BeforeRestored, Booting
  <2> QED
    BY <1>6, <2>1, <2>2, <2>3, <2>4, <2>5, <2>6, <2>7, <2>8 DEF Boot
<1>7. CASE Loop
  <2>1. CASE LoopExit
    BY <2>1 DEF LoopExit, NothingToRestore
  <2>2. CASE LoopTop \/ Refreshed \/ RefreshFailed \/ Wake \/ BeginDrain \/ Ordered
    BY <1>2, <2>2 DEF LoopTop, Refreshed, RefreshFailed, Wake, BeginDrain, Ordered, Booting
  <2>3. CASE \E q \in Payloads : DrainExisting(q) \/ DrainKeep(q)
    BY <1>2, <2>3 DEF DrainExisting, DrainKeep, Booting
  <2>4. CASE \E q \in Payloads, p \in Profiles : DrainGrant(q, p)
    BY <1>2, <2>4 DEF DrainGrant, Booting
  <2>5. CASE DrainSaved \/ DrainSaveFailed \/ DrainSignalled \/ DrainSignalFailed
    BY <1>2, <2>5 DEF DrainSaved, DrainSaveFailed, DrainSignalled, DrainSignalFailed, Visited,
                      Booting
  <2>6. CASE FirstDrainEnd \/ EvictionSaved
    BY <1>2, <2>6 DEF FirstDrainEnd, EvictionSaved, ThenVerify, Booting
  <2>7. CASE SecondDrainEnd \/ ReclaimSaved \/ VerifyFailed
    BY <1>2, <2>7 DEF SecondDrainEnd, ReclaimSaved, VerifyFailed, Booting
  <2>8. CASE \E terminal \in SUBSET NotRunning : Verified(terminal)
    BY <1>2, <2>8 DEF Verified, Booting
  <2>9. CASE ContinueAsNew
    <3>1. /\ stopping' = FALSE /\ UNCHANGED loaded /\ fresh' = FALSE
          /\ pc' \in {"boot_refresh", "boot_profiles"}
          /\ \A c \in Calls : cst'[c] = IF ActiveCall(c) THEN "failed" ELSE cst[c]
      BY <2>9 DEF ContinueAsNew
    <3> QED
      BY <3>1 DEF NothingToRestore, BeforeRestored, ActiveCall
  <2> QED
    BY <1>7, <2>1, <2>2, <2>3, <2>4, <2>5, <2>6, <2>7, <2>8, <2>9 DEF Loop
<1>8. ASSUME NEW c \in Calls, Update(c) PROVE NothingToRestore'
  <2>1. UNCHANGED <<stopping, loaded, pc, fresh>>
    BY <1>8 DEF Update, AcquireSlot, OwnerNotRunning, AcquireHeld, AcquireOrWait, Maintain,
                MaintainHeld, WaitOver, UpdateSaved, UpdateSaveFailed, UpdateFrame
  <2>2. ActiveCall(c) \/ Arrives(c)
    BY <1>8 DEF Update, AcquireSlot, OwnerNotRunning, AcquireHeld, AcquireOrWait, Maintain,
                MaintainHeld, WaitOver, UpdateSaved, UpdateSaveFailed, ActiveCall
  <2>3. pc \notin Booting \cup {"down"}
    BY <1>8, <2>2 DEF NothingToRestore, Arrives, NoRestart, Yielded
  <2> QED
    BY <2>1, <2>3 DEF NothingToRestore, BeforeRestored, Booting
<1>9. CASE UNCHANGED vars
  BY <1>1, <1>9 DEF vars
<1> QED
  BY <1>4, <1>5, <1>6, <1>7, <1>8, <1>9 DEF Next

\* Whatever an administrator does to the capacities, and whenever the manager notices,
\* a profile that has its capacity or more in use gets no further lease; where the
\* manager is not restarted, for a restore does not look at the capacity.
THEOREM EditedCapacityIsHonoured ==
    ASSUME NoRestart
    PROVE  Spec => ShrunkCapacityIsHonoured
<1>1. Init => TypeOK /\ LeaseInv /\ NothingToRestore
  BY InitType, InitLease DEF Init, NothingToRestore, ActiveCall
<1>2. TypeOK /\ LeaseInv /\ NothingToRestore /\ [Next]_vars
         => (TypeOK /\ LeaseInv /\ NothingToRestore)'
  BY NextType, NextLease, NextNothing
<1> DEFINE Honoured == \A p \in Profiles :
                          \/ leases'[p] \subseteq leases[p]
                          \/ Cardinality(leases'[p]) <= cat'.cap[p]
<1>3. TypeOK /\ LeaseInv /\ NothingToRestore /\ [Next]_vars => [Honoured]_vars
  <2> SUFFICES ASSUME TypeOK, NothingToRestore, [Next]_vars PROVE Honoured
    OBVIOUS
  <2>1. TypeOK'
    BY NextType
  <2>2. \A r \in Requesters : ~RestoreRow(r)
    BY SelectionNoneAssumption DEF NothingToRestore, RestoreRow, NoRows, TypeOK, Catalogues
  <2> QED
    BY <2>1, <2>2, StepHonours DEF HonouredAt
<1> HIDE DEF Honoured
<1>4. Spec => [][Honoured]_vars
  BY <1>1, <1>2, <1>3, PTL DEF Spec
<1> QED
  BY <1>4 DEF ShrunkCapacityIsHonoured, Honoured
=============================================================================
