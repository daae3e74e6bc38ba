------------------------------ MODULE Remapping ------------------------------
(***************************************************************************)
(* SETs while a server is degraded.  A client asks the coordinator for a   *)
(* remapping lock, which redirects the chunk of the degraded server to     *)
(* another data server of the stripe list, and sends the object there and  *)
(* to the servers that are not degraded.  The data server keeps it apart   *)
(* (RemappedBuffer).  Before the degraded server is normal again, the      *)
(* coordinator asks all servers to send it what they keep for it, and      *)
(* drops the records of the remapping.                                     *)
(*                                                                         *)
(* One stripe list and one degraded server.  INTERMEDIATE and DEGRADED are *)
(* one state here: both allow remapping.  A data server is asked only for  *)
(* chunks that were redirected to it, so that nothing is ever kept for a   *)
(* third server (Pending::insertRemapData).                                *)
(***************************************************************************)
EXTENDS Naturals, FiniteSets

CONSTANTS
    K, M,       \* data and parity chunks of a stripe; chunk c is on server c
    Requests,   \* SET requests of clients
    Failing,    \* servers that may become degraded
    KeyOf,      \* KeyOf[r]: the key of request r
    Home        \* Home[k]: the data chunk of key k

Data == 0 .. K - 1
Parity == K .. K + M - 1
Servers == Data \cup Parity
Keys == DOMAIN Home

VARIABLES
    failed,     \* the server that is degraded
    state,      \* its state at the coordinator
    view,       \* its state at the clients
    records,    \* records[k]: remapping record of key k, {} if there is none
    req,        \* req[r]: where request r stands, and the servers it waits for
    stored,     \* stored[s]: objects that server s stores
    buffer,     \* buffer[s]: <<key, chunk>> of the objects it keeps for others
    moving,     \* moving[s]: objects sent to the server that returns, not yet confirmed
    syncing,    \* servers that have not yet sent theirs
    before,     \* requests answered before the server began to return
    msgs

coordinatorVars == <<failed, state, records, syncing, before>>
serverVars == <<stored, buffer, moving>>
vars == <<coordinatorVars, view, req, serverVars, msgs>>

Chunks(r) == {Home[KeyOf[r]]} \cup Parity
Idle == [pc |-> "idle", wait |-> {}]

Init ==
    /\ failed = 0
    /\ state = "NORMAL"
    /\ view = "NORMAL"
    /\ records = [k \in Keys |-> {}]
    /\ req = [r \in Requests |-> Idle]
    /\ stored = [s \in Servers |-> {}]
    /\ buffer = [s \in Servers |-> {}]
    /\ moving = [s \in Servers |-> 0]
    /\ syncing = {}
    /\ before = {}
    /\ msgs = {}

-----------------------------------------------------------------------------
(* The state of the server, and what clients know of it                    *)

Degrade(s) ==
    /\ state = "NORMAL"
    /\ failed' = s
    /\ state' = "DEGRADED"
    /\ UNCHANGED <<view, records, syncing, before, req, serverVars, msgs>>

Learn ==
    /\ view # state
    /\ state # "RETURNED"
    /\ view' = IF view = "NORMAL" THEN "DEGRADED" ELSE "COORDINATED"
    /\ UNCHANGED <<coordinatorVars, req, serverVars, msgs>>

Return ==
    /\ state = "DEGRADED"
    /\ state' = "COORDINATED"
    /\ UNCHANGED <<failed, view, records, syncing, before, req, serverVars, msgs>>

Answered == {r \in Requests : req[r].pc = "answered"}

(* syncRemappedData: clients have acknowledged COORDINATED, which says     *)
(* nothing of requests under way.                                          *)
Synchronize ==
    /\ state = "COORDINATED"
    /\ view = "COORDINATED"
    /\ syncing = {}
    /\ state' = "SYNCHRONIZING"
    /\ syncing' = Servers
    /\ before' = Answered
    /\ msgs' = msgs \cup {[type |-> "MIGRATE", to |-> s] : s \in Servers}
    /\ UNCHANGED <<failed, view, records, req, serverVars>>

-----------------------------------------------------------------------------
(* Clients                                                                 *)

(* BasicRemappingScheme::redirect: servers that the object goes to anyway  *)
(* are not chosen if there are others; latencies decide among the rest.    *)
Targets(r) ==
    LET others == (IF 1 + M <= K THEN Servers \ Chunks(r) ELSE Servers) \ {failed}
    IN  IF others = {} THEN {failed} ELSE others

redirect(r) ==
    IF view = "DEGRADED" /\ failed \in Chunks(r)
    THEN {{<<failed, t>>} : t \in Targets(r)}
    ELSE {{}}

HandleDegradedSetRequest(r) ==
    /\ req[r].pc = "idle"
    /\ view # "NORMAL"
    /\ \E list \in redirect(r) :
          msgs' = msgs \cup {[type |-> "LOCK", req |-> r, list |-> list]}
    /\ req' = [req EXCEPT ![r].pc = "locking"]
    /\ UNCHANGED <<coordinatorVars, view, serverVars>>

Destination(c, list) == IF \E e \in list : e[1] = c THEN (CHOOSE e \in list : e[1] = c)[2] ELSE c

HandleDegradedSetLockResponse(m) ==
    /\ m.type = "LOCKED"
    /\ req' = [req EXCEPT ![m.req] =
            [pc |-> "sent", wait |-> {<<c, Destination(c, m.list)>> : c \in Chunks(m.req)}]]
    /\ msgs' = (msgs \ {m}) \cup
            {[type |-> "DEGRADED_SET", req |-> m.req, chunk |-> c, to |-> Destination(c, m.list)]
                : c \in Chunks(m.req)}
    /\ UNCHANGED <<coordinatorVars, view, serverVars>>

HandleDegradedSetResponse(m) ==
    LET wait == req[m.req].wait \ {<<m.chunk, m.from>>}
    IN
    /\ m.type = "SET_DONE"
    /\ req' = [req EXCEPT ![m.req] = [pc |-> IF wait = {} THEN "answered" ELSE "sent", wait |-> wait]]
    /\ msgs' = msgs \ {m}
    /\ UNCHANGED <<coordinatorVars, view, serverVars>>

-----------------------------------------------------------------------------
(* The coordinator                                                         *)

(* Mutant: a record is replaced by the next one for the same key.          *)
insertReplacing(old, list) == list

(* RemappingRecordMap::insert: a record is never overwritten, and nothing  *)
(* is inserted for a SET that is not redirected.                           *)
insert(old, list) == IF old = {} THEN list ELSE old

HandleDegradedSetLockRequest(m) ==
    LET k == KeyOf[m.req]
        allowed == {e \in m.list : state = "DEGRADED" /\ e[1] = failed}
        record == IF allowed = {} THEN {} ELSE insert(records[k], allowed)
    IN
    /\ m.type = "LOCK"
    /\ records' = IF allowed = {} THEN records ELSE [records EXCEPT ![k] = record]
    /\ msgs' = (msgs \ {m}) \cup {[type |-> "LOCKED", req |-> m.req, list |-> record]}
    /\ UNCHANGED <<failed, state, syncing, before, view, req, serverVars>>

(* All servers have sent what they kept: records of keys whose data server *)
(* returns are erased (those of a parity server are not).                  *)
HandleMigrated(m) ==
    /\ m.type = "MIGRATED"
    /\ syncing' = syncing \ {m.from}
    /\ IF syncing = {m.from}
       THEN /\ records' = [k \in Keys |-> IF Home[k] = failed THEN {} ELSE records[k]]
            /\ state' = "RETURNED"
       ELSE UNCHANGED <<records, state>>
    /\ msgs' = msgs \ {m}
    /\ UNCHANGED <<failed, before, view, req, serverVars>>

-----------------------------------------------------------------------------
(* Servers                                                                 *)

(* RemappedBuffer::insert: the first object of a key stays.                *)
insertRemapped(kept, k, c) ==
    IF \E d \in Servers : <<k, d>> \in kept THEN kept ELSE kept \cup {<<k, c>>}

(* A parity server of the list, and the server of the chunk, store the     *)
(* object unless they have it; others keep it, if they have none for the   *)
(* key yet.                                                                *)
HandleDegradedSet(m) ==
    LET k == KeyOf[m.req]
        isRemapped == m.chunk # m.to /\ m.to \in Data
    IN
    /\ m.type = "DEGRADED_SET"
    /\ IF isRemapped
       THEN buffer' = [buffer EXCEPT ![m.to] = insertRemapped(@, k, m.chunk)] /\ UNCHANGED stored
       ELSE stored' = [stored EXCEPT ![m.to] = @ \cup {k}] /\ UNCHANGED buffer
    /\ msgs' = (msgs \ {m}) \cup {[type |-> "SET_DONE", req |-> m.req, chunk |-> m.chunk, from |-> m.to]}
    /\ UNCHANGED <<coordinatorVars, view, req, moving>>

(* What is taken from Pending's remappedData for the server that returns.  *)
eraseRemapData(s) == {e \in buffer[s] : e[2] = failed}

(* The number of SETs that are then awaited.                               *)
insertRemapDataRequest(kept) == Cardinality(kept)

(* handleRemappedData: send the objects kept for the server that returns.  *)
HandleRemappedData(m) ==
    LET kept == eraseRemapData(m.to)
    IN
    /\ m.type = "MIGRATE"
    /\ buffer' = [buffer EXCEPT ![m.to] = @ \ kept]
    /\ moving' = [moving EXCEPT ![m.to] = insertRemapDataRequest(kept)]
    /\ msgs' = (msgs \ {m}) \cup
            (IF kept = {} THEN {[type |-> "MIGRATED", from |-> m.to]}
             ELSE {[type |-> "SET", from |-> m.to, key |-> e[1]] : e \in kept})
    /\ UNCHANGED <<coordinatorVars, view, req, stored>>

(* handleSetRequest from a peer: as from a client.                         *)
HandleSet(m) ==
    /\ m.type = "SET"
    /\ stored' = [stored EXCEPT ![failed] = @ \cup {m.key}]
    /\ msgs' = (msgs \ {m}) \cup {[type |-> "SET_BACK", from |-> m.from, key |-> m.key]}
    /\ UNCHANGED <<coordinatorVars, view, req, buffer, moving>>

(* Mutant: the first object that arrives ends the migration.               *)
AllMovedFirst(count) == TRUE

AllMoved(count) == count = 0

(* handleSetResponse: decrementRemapDataRequest                            *)
HandleSetResponse(m) ==
    LET count == moving[m.from] - 1
    IN
    /\ m.type = "SET_BACK"
    /\ moving' = [moving EXCEPT ![m.from] = count]
    /\ msgs' = (msgs \ {m}) \cup (IF AllMoved(count) THEN {[type |-> "MIGRATED", from |-> m.from]} ELSE {})
    /\ UNCHANGED <<coordinatorVars, view, req, stored, buffer>>

-----------------------------------------------------------------------------
Deliver(m) ==
    \/ HandleDegradedSetLockRequest(m)
    \/ HandleDegradedSetLockResponse(m)
    \/ HandleDegradedSet(m)
    \/ HandleDegradedSetResponse(m)
    \/ HandleRemappedData(m)
    \/ HandleSet(m)
    \/ HandleSetResponse(m)
    \/ HandleMigrated(m)

Next ==
    \/ \E s \in Failing : Degrade(s)
    \/ Learn
    \/ Return
    \/ Synchronize
    \/ \E r \in Requests : HandleDegradedSetRequest(r)
    \/ \E m \in msgs : Deliver(m)

Spec == Init /\ [][Next]_vars

-----------------------------------------------------------------------------
(* Properties                                                              *)

Kept(k, c) == \E e \in records[k] : e[1] = c /\ <<k, c>> \in buffer[e[2]]

(* While a server is degraded, every SET that was answered is stored at    *)
(* the servers of its key, or the coordinator's record for it leads to the *)
(* server that keeps the object: two SETs of a key are redirected alike,   *)
(* whatever the clients proposed.                                          *)
RecordLeads ==
    state = "DEGRADED" =>
        \A r \in Answered : \A c \in Chunks(r) : KeyOf[r] \in stored[c] \/ Kept(KeyOf[r], c)

(* When a server is back to normal it has every object of a SET that was   *)
(* answered before it began to return, and so have all servers of the key. *)
(* (A SET under way at that time may be kept by a server for ever.)        *)
AnsweredMigrated ==
    state = "RETURNED" => \A r \in before : \A c \in Chunks(r) : KeyOf[r] \in stored[c]
=============================================================================
