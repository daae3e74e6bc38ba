------------------------- MODULE MCTransitSettings -------------------------
(* Two settings in one run: both servers are switched and a multicast      *)
(* fails, as the constants say; and a client and a server join, and the    *)
(* client leaves.                                                          *)
EXTENDS MCStateTransit
VARIABLE joining    \* the setting, chosen at the start

Joining == INSTANCE StateTransit
    WITH Switchable <- {s1}, InitialClients <- {}, QueueSize <- 2,
         MaxServerJoins <- 1, MaxSendFailures <- 0,
         SpuriousWakeups <- TRUE, MaxLeaves <- 1

MCInit == joining \in BOOLEAN /\ IF joining THEN Joining!Init ELSE Init
MCNext ==
    /\ UNCHANGED joining
    /\ IF joining THEN Joining!Next ELSE Next
MCSpec == MCInit /\ [][MCNext]_<<vars, joining>>
=============================================================================
