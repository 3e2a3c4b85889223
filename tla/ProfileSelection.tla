-------------------------- MODULE ProfileSelection --------------------------
(***************************************************************************)
(* How the provider-profile manager chooses the profile a request is       *)
(* served from: the pure part of _find_available_profile and of the        *)
(* availability tests of ProfileSlotState, in                              *)
(* moonmind/workflows/temporal/workflows/provider_profile_manager.py.      *)
(*                                                                         *)
(* A catalogue is what the manager remembers of the profile rows, a record *)
(* of sets of profiles (known, enabled, ready, default) and the function   *)
(* cap (max_parallel_runs).  leases[p] is the set of requesters holding a  *)
(* lease on p, cooling the set of profiles with a cooldown_until, resv the *)
(* profile reserved for each lease group (None when there is none).        *)
(*                                                                         *)
(* A request is a record: req (the requester), ref (the exact profile, or  *)
(* None), constrained (is there a selector), match (the profiles the       *)
(* selector's provider, mode and tags accept), fallback                    *)
(* (allowDefaultFallback), group (lease_group_id or None), prio.           *)
(***************************************************************************)
EXTENDS Naturals, FiniteSets

CONSTANTS
    Profiles,       \* profile ids of one runtime family
    Groups,         \* lease groups (parent workflow ids)
    Priority,       \* Priority[p]: the selection priority of profile p
    None            \* "no profile", "no group", "no requester"

ASSUME PriorityAssumption == Priority \in [Profiles -> Nat]

ASSUME SelectionNoneAssumption == None \notin Profiles /\ None \notin Groups

Catalogues == [known : SUBSET Profiles, enabled : SUBSET Profiles,
               ready : SUBSET Profiles, default : SUBSET Profiles,
               cap : [Profiles -> Nat \ {0}]]

\* Mutant: one slot too many
AvailableSlotsPlusOne(cat, leases, p) ==
    IF /\ p \in cat.enabled
       /\ p \in cat.ready
       /\ Cardinality(leases[p]) <= cat.cap[p]
    THEN cat.cap[p] + 1 - Cardinality(leases[p])
    ELSE 0

\* Mutant: a profile is full only when it has exactly its capacity in use
AvailableUnlessEqual(cat, leases, p) ==
    IF /\ p \in cat.enabled
       /\ p \in cat.ready
       /\ Cardinality(leases[p]) # cat.cap[p]
    THEN 1
    ELSE 0

\* ProfileSlotState.available_slots
AvailableSlots(cat, leases, p) ==
    IF /\ p \in cat.enabled
       /\ p \in cat.ready
       /\ Cardinality(leases[p]) < cat.cap[p]
    THEN cat.cap[p] - Cardinality(leases[p])
    ELSE 0

\* ProfileSlotState.is_available, of a profile the manager knows
IsAvailable(cat, leases, cooling, p) ==
    /\ p \in cat.known
    /\ AvailableSlots(cat, leases, p) > 0
    /\ p \notin cooling

\* _profile_matches_request
ProfileMatchesRequest(cat, leases, cooling, q, p) ==
    /\ IsAvailable(cat, leases, cooling, p)
    /\ q.ref = None \/ q.ref = p
    /\ q.constrained => p \in q.match

\* _reserved_slot_count_for_other_groups
ReservedForOtherGroups(resv, p, group) ==
    Cardinality({h \in Groups : resv[h] = p /\ h # group})

\* _sort_profiles_for_selection: highest (priority, available_slots) first.
\* Equal keys keep the dictionary order, which is left open here.
BestOf(cat, leases, S) ==
    {p \in S : \A x \in S :
        \/ Priority[p] > Priority[x]
        \/ /\ Priority[p] = Priority[x]
           /\ AvailableSlots(cat, leases, p) >= AvailableSlots(cat, leases, x)}

\* Mutant: the last slot is given away although a reservation waits for it
EligibleDespiteReservation(cat, leases, cooling, resv, q) ==
    {p \in cat.known :
        /\ ProfileMatchesRequest(cat, leases, cooling, q, p)
        /\ AvailableSlots(cat, leases, p) >= ReservedForOtherGroups(resv, p, q.group)}

\* The profiles with a slot that no other group's reservation is waiting for
EligibleProfiles(cat, leases, cooling, resv, q) ==
    {p \in cat.known :
        /\ ProfileMatchesRequest(cat, leases, cooling, q, p)
        /\ AvailableSlots(cat, leases, p) > ReservedForOtherGroups(resv, p, q.group)}

\* The reservation of the request's own group, None when it has none
OwnReservation(resv, q) == IF q.group = None THEN None ELSE resv[q.group]

\* _find_available_profile: the profiles the request may be given now (empty
\* when it has to wait).  The group's own reservation is served first; an exact
\* reference never falls through to another profile; without a selector the
\* default profiles exclude all others while one of them is configured, unless
\* the request allows a fallback.
FindAvailableProfile(cat, leases, cooling, resv, q) ==
    LET own        == OwnReservation(resv, q)
        eligible   == EligibleProfiles(cat, leases, cooling, resv, q)
        configured == cat.known \cap cat.default \cap cat.enabled \cap cat.ready
        anyProfile == q.ref # None \/ q.constrained \/ q.fallback \/ configured = {}
    IN  IF own # None /\ ProfileMatchesRequest(cat, leases, cooling, q, own)
        THEN {own}
        ELSE BestOf(cat, leases, IF anyProfile THEN eligible ELSE eligible \cap cat.default)

\* Looking a profile up uses the group's reservation up, served or not.
ReservationsAfterLookup(resv, q) ==
    [g \in Groups |-> IF g = q.group THEN None ELSE resv[g]]
=============================================================================
