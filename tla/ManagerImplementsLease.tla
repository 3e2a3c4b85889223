----------------------- MODULE ManagerImplementsLease -----------------------
(***************************************************************************)
(* The manager with its table and clients implements the lease contract: a *)
(* requester uses the profile it was told, as long as its workflow runs.   *)
(***************************************************************************)
EXTENDS ProviderProfileManager

Contract ==
    INSTANCE CredentialLease WITH
        Users       <- Requesters,
        Credentials <- Profiles,
        Capacity    <- InitialCatalogue.cap,
        Nobody      <- None,
        using       <- [r \in Requesters |-> IF Alive(r) THEN told[r] ELSE None]

\* Seen by its users the manager is a capacity lease: a profile is never used by
\* more running requesters than its capacity, and a requester changes profile only
\* by giving the first one up, whatever is queued, persisted, lost or restarted.
ImplementsCredentialLease == Contract!Spec
=============================================================================
