------------------------------ MODULE MCManager ------------------------------
(* Small instances of ProviderProfileManager for TLC.                       *)
EXTENDS ManagerImplementsLease, TLC

CONSTANTS p1, p2, w1, w2, w3, g1, g2, o1, o2, c1, c2, c3, c4

\* A request for a given exact profile, or for any profile (None)
Ask(w, ref, prio) ==
    [req |-> w, ref |-> ref, constrained |-> FALSE, match |-> {}, fallback |-> FALSE,
     group |-> GroupOf[w], prio |-> prio]

\* All profiles usable, p1 the default
AllReady == [known |-> Profiles, enabled |-> Profiles, ready |-> Profiles,
             default |-> {p1}, cap |-> [p \in Profiles |-> 1]]

Deleted(S) == [AllReady EXCEPT !.known = @ \ S, !.enabled = @ \ S, !.ready = @ \ S,
                               !.default = @ \ S]

\* What an administrator may do: delete the default profile and restore it
DeleteOne == {AllReady, Deleted({p1})}

OnePriority == [p \in Profiles |-> 1]

NoFunction == [x \in {} |-> x]

NoGroup == [w \in Workflows |-> None]

\* Two groups: w1 and w2 are steps of the same run, w3 of another
TwoGroups == [w \in Workflows |-> IF w = w3 THEN g2 ELSE g1]

\* p1 may be used twice at a time
TwoSlots == [AllReady EXCEPT !.cap = [p \in Profiles |-> IF p = p1 THEN 2 ELSE 1]]

\* or lower and raise its capacity, or switch it off and on
ShrinkOrDisable ==
    {TwoSlots, AllReady, [TwoSlots EXCEPT !.enabled = @ \ {p1}, !.ready = @ \ {p1}]}

AnyOne == {Ask(w, None, 0) : w \in Workflows}

\* w1 may fall back to a profile that is no default, w2 selects by tags both profiles
\* have, the others take a default.
FallbackOrSelector ==
    {[Ask(w, None, 0) EXCEPT !.fallback = (w = w1), !.constrained = (w = w2),
                             !.match = IF w = w2 THEN Profiles ELSE {}] : w \in Workflows}

AnyByPriority == {Ask(w, None, IF w = w1 THEN 1 ELSE 0) : w \in Workflows}

\* The owners belong to w1, all on profile p1: o1 to one of its activities, o2 (where it
\* maintains the credential) to w1 as an OAuth session.
Parents == [o \in Owners |-> w1]

\* o2 is an HTTP action.
HttpMaintenance == [o \in Owners |-> IF o = o2 THEN None ELSE w1]

Targets == [o \in Owners |-> p1]

\* Every call but c1 and c2 asks for o2; a second call of the same owner is the
\* retry of an activity.
RetriedCall == [c \in Calls |-> IF c \in {c1, c2} THEN o1 ELSE o2]

\* An owner's calls are interchangeable.
RetrySymmetry == Permutations({c1, c2}) \cup Permutations({c3, c4})
=============================================================================
