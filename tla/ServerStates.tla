---------------------------- MODULE ServerStates ----------------------------
(***************************************************************************)
(* The states of a server in the transition between normal and degraded    *)
(* operation, as the coordinator and the clients name them.                *)
(***************************************************************************)
EXTENDS Naturals, FiniteSets

CONSTANTS
    Servers,        \* addresses of the servers the coordinator knows
    Clients,        \* clients that may ever be part of the group
    None            \* "no server", "no client", "no such entry"

ASSUME NetworkAssumption ==
    /\ IsFiniteSet(Servers) /\ IsFiniteSet(Clients)
    /\ None \notin Servers /\ None \notin Clients /\ None \notin Nat

NORMAL       == "NORMAL"
INTERMEDIATE == "INTERMEDIATE"      \* phase 1a, on the way to DEGRADED
COORDINATED  == "COORDINATED"       \* phase 1b, on the way back to NORMAL
DEGRADED     == "DEGRADED"
WAIT_DEGRADED == "WAIT_DEGRADED"    \* a client acknowledged INTERMEDIATE
WAIT_NORMAL   == "WAIT_NORMAL"      \* a client acknowledged COORDINATED

CoordStates  == {NORMAL, INTERMEDIATE, COORDINATED, DEGRADED}
WaitStates   == {WAIT_DEGRADED, WAIT_NORMAL}
ClientStates == CoordStates \cup WaitStates
=============================================================================
