--------------------------- MODULE TransitPromise ---------------------------
(***************************************************************************)
(* What a state transition promises, without messages, threads or counters.*)
(* A server goes round NORMAL, INTERMEDIATE, DEGRADED, COORDINATED; the    *)
(* view of each client goes round the same states with a wait state before *)
(* DEGRADED and before NORMAL.  The server leaves INTERMEDIATE and         *)
(* COORDINATED only when all views wait, so that a view is never more than *)
(* one phase away from the mode.                                           *)
(***************************************************************************)
EXTENDS ServerStates

VARIABLES
    mode,   \* mode[s]: the state of server s
    view    \* view[c][s]: the state of server s at client c

pvars == <<mode, view>>

NextMode(m) ==
    CASE m = NORMAL       -> INTERMEDIATE
      [] m = INTERMEDIATE -> DEGRADED
      [] m = DEGRADED     -> COORDINATED
      [] m = COORDINATED  -> NORMAL

NextView(v) ==
    CASE v = NORMAL        -> INTERMEDIATE
      [] v = INTERMEDIATE  -> WAIT_DEGRADED
      [] v = WAIT_DEGRADED -> DEGRADED
      [] v = DEGRADED      -> COORDINATED
      [] v = COORDINATED   -> WAIT_NORMAL
      [] v = WAIT_NORMAL   -> NORMAL

(* The views that may exist while a server is in mode m.                   *)
Views(m) ==
    CASE m = NORMAL       -> {WAIT_NORMAL, NORMAL}
      [] m = INTERMEDIATE -> {WAIT_NORMAL, NORMAL, INTERMEDIATE, WAIT_DEGRADED}
      [] m = DEGRADED     -> {WAIT_DEGRADED, DEGRADED}
      [] m = COORDINATED  -> {WAIT_DEGRADED, DEGRADED, COORDINATED, WAIT_NORMAL}

PInit ==
    /\ mode = [s \in Servers |-> NORMAL]
    /\ view = [c \in Clients |-> [s \in Servers |-> NORMAL]]

(* A switch or its completion; the completion waits for every client.      *)
ModeStep ==
    \E s \in Servers :
        /\ mode[s] = INTERMEDIATE => \A c \in Clients : view[c][s] = WAIT_DEGRADED
        /\ mode[s] = COORDINATED => \A c \in Clients : view[c][s] = WAIT_NORMAL
        /\ mode' = [mode EXCEPT ![s] = NextMode(@)]
        /\ UNCHANGED view

(* A client follows the modes of some servers.                             *)
ViewStep ==
    \E c \in Clients, S \in SUBSET Servers :
        /\ view' = [view EXCEPT ![c] = [s \in Servers |->
                        IF s \in S THEN NextView(view[c][s]) ELSE view[c][s]]]
        /\ \A s \in S : NextView(view[c][s]) \in Views(mode[s])
        /\ UNCHANGED mode

PSpec == PInit /\ [][ModeStep \/ ViewStep]_pvars
=============================================================================
