--------------------------- MODULE CredentialLease ---------------------------
(***************************************************************************)
(* What the users of a provider profile rely on: the contract of the       *)
(* capacity leases ("the single capacity ledger for direct execution,      *)
(* Omnigent execution, and credential maintenance",                        *)
(* moonmind/provider_profiles/lease_client.py).  It says nothing of        *)
(* queues, tables, signals or restarts.                                    *)
(***************************************************************************)
EXTENDS Naturals, FiniteSets

CONSTANTS Users, Credentials, Capacity, Nobody

VARIABLE using      \* using[u]: the credential u works with, or Nobody

UsersOf(k) == {u \in Users : using[u] = k}

Idle == [u \in Users |-> Nobody]

\* A user without a lease gets one while the credential has capacity left.
Acquire(u, k) ==
    /\ using[u] = Nobody
    /\ Cardinality(UsersOf(k)) < Capacity[k]
    /\ using' = [using EXCEPT ![u] = k]

\* One or more users stop: they release, or the workflow they belong to ends.
End(S) ==
    /\ S \subseteq {u \in Users : using[u] # Nobody}
    /\ using' = [u \in Users |-> IF u \in S THEN Nobody ELSE using[u]]

Init == using = Idle

Next ==
    \/ \E u \in Users, k \in Credentials : Acquire(u, k)
    \/ \E S \in SUBSET Users : End(S)

Spec == Init /\ [][Next]_using
=============================================================================
