--------------------------- MODULE TransitNetwork ---------------------------
(***************************************************************************)
(* The Spread group communication between the coordinator and the clients: *)
(* the coordinator multicasts messages that list the states                *)
(* of servers to every client of the group, and each client unicasts its   *)
(* acknowledgements back.  Spread delivers the messages of one sender in   *)
(* FIFO order (MSG_TYPE is FIFO_MESS); membership changes arrive in the    *)
(* same stream as the messages of the member that joined or left.          *)
(***************************************************************************)
EXTENDS ServerStates, Sequences

(* A state message lists servers with their states: a function.            *)
Records(V)   == UNION {[D -> V] : D \in SUBSET Servers}
NoRecords    == [s \in {} |-> NORMAL]

CoordMsg == [type : {"ack", "join", "left"}, states : Records(WaitStates)]

VARIABLES
    status,     \* status[c]: client process not started, in the group, or gone
    clientBox,  \* clientBox[c]: state messages client c has yet to read
    coordBox    \* coordBox[c]: what the coordinator has yet to read about c

netVars == <<status, clientBox, coordBox>>

Members == {c \in Clients : status[c] = "up"}

(* SP_multicast of one state message to the group of the clients.          *)
Multicast(msg) ==
    clientBox' = [c \in Clients |->
                    IF c \in Members THEN Append(clientBox[c], msg)
                                     ELSE clientBox[c]]

NetTypeOK ==
    /\ status \in [Clients -> {"new", "up", "gone"}]
    /\ clientBox \in [Clients -> Seq(Records(CoordStates))]
    /\ coordBox \in [Clients -> Seq(CoordMsg)]
=============================================================================
