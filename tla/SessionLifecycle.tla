-------------------------- MODULE SessionLifecycle --------------------------
(* What the canonical session row of Omnigent promises its readers: an      *)
(* outcome is recorded once, its evidence before any cleanup begins, the    *)
(* cleanup goes forward only, and the leases are released after the host is *)
(* stopped; or the cleanup is handed to the janitor, once and for good.     *)
CONSTANTS None, TerminalStates

VARIABLES terminal, evidence, cleanup

Init == terminal = None /\ evidence = FALSE /\ cleanup = "pending"

\* A session that ends with a failure brings its evidence along.
End ==
    /\ terminal = None
    /\ terminal' \in TerminalStates
    /\ evidence' \in BOOLEAN
    /\ UNCHANGED cleanup

AttachEvidence ==
    /\ terminal # None /\ ~evidence
    /\ evidence' = TRUE
    /\ UNCHANGED <<terminal, cleanup>>

Clean(from, to) ==
    /\ terminal # None /\ evidence /\ cleanup = from
    /\ cleanup' = to
    /\ UNCHANGED <<terminal, evidence>>

HandOff ==
    /\ cleanup # "cleanup_incomplete"
    /\ cleanup' = "cleanup_incomplete"
    /\ UNCHANGED <<terminal, evidence>>

Next ==
    \/ End \/ AttachEvidence
    \/ Clean("pending", "provider_stopped")
    \/ Clean("provider_stopped", "host_stopped")
    \/ Clean("host_stopped", "leases_released")
    \/ HandOff

Spec == Init /\ [][Next]_<<terminal, evidence, cleanup>>
=============================================================================
