---------------------------- MODULE MetadataSync ----------------------------
(***************************************************************************)
(* How the coordinator learns which keys and sealed chunks a server has.   *)
(* The server stamps each SET and DELETE, keeps its metadata until the     *)
(* next heartbeat and tells the clients which stamps the coordinator has   *)
(* acknowledged.  Until then the client that made the request has a backup *)
(* of the metadata, which it sends to the coordinator when the state of    *)
(* the server changes: metadata must not be lost if the server crashes.    *)
(*                                                                         *)
(* Messages of one connection arrive in order.  One heartbeat is composed  *)
(* at a time and holds everything there is; keys that were deleted are not *)
(* set again.  A crash of the server only ends its steps, and may happen   *)
(* in any state: what is left then is the subject of the property.         *)
(***************************************************************************)
EXTENDS Timestamps, Sequences, FiniteSets

CONSTANTS
    Clients,
    Keys,
    Chunks,     \* chunks that may be sealed
    Deleting,   \* keys that may be deleted
    MaxBeats    \* bound on the number of heartbeats

VARIABLES
    now,        \* its next stamp
    stored,     \* its keys
    ops,        \* SETs and DELETEs that the coordinator has to be told
    sealed,     \* sealed chunks that the coordinator has to be told
    owed,       \* heartbeats that are not acknowledged
    lastAck,    \* stamp of the last acknowledged heartbeat
    beat,       \* the heartbeat that is composed
    beats,      \* heartbeats so far
    requests,   \* requests at the server
    begun,      \* keys that have been set
    known,      \* known[k]: what the coordinator knows of key k
    chunks,     \* sealed chunks that the coordinator knows
    backup,     \* backup[c]: metadata that client c keeps
    toCoordinator, toServer, toClient,  \* messages
    answered    \* keys and chunks of SETs whose response arrived

serverVars == <<now, stored, ops, sealed, owed, lastAck, beat, beats, requests, begun>>
vars == <<serverVars, known, chunks, backup, toCoordinator, toServer, toClient, answered>>

Unknown == [op |-> "none", ts |-> 0]
Op(op, ts) == [op |-> op, ts |-> ts]
NoBeat == [pc |-> "idle"]

Init ==
    /\ now \in TsStarts
    /\ stored = {}
    /\ ops = [k \in Keys |-> Unknown]
    /\ sealed = {}
    /\ owed = {}
    /\ lastAck = IF now = 0 THEN 0 ELSE now - 1     \* a heartbeat was just acknowledged
    /\ beat = NoBeat
    /\ beats = 0
    /\ requests = {}
    /\ begun = {}
    /\ known = [k \in Keys |-> Unknown]
    /\ chunks = {}
    /\ backup = [c \in Clients |-> [ops |-> [k \in Keys |-> Unknown], sealed |-> {}]]
    /\ toCoordinator = <<>>
    /\ toServer = <<>>
    /\ toClient = [c \in Clients |-> <<>>]
    /\ answered = [keys |-> {}, chunks |-> {}]

-----------------------------------------------------------------------------
(* Requests at the server                                                  *)

Busy(k) == \E r \in requests : r.key = k

(* A SET may seal a chunk, before the key is inserted into the maps.       *)
SetBegin(c, k) ==
    /\ k \notin begun
    /\ begun' = begun \cup {k}
    /\ \E full \in {{}} \cup {{x} : x \in Chunks} :
        /\ \A x \in full : x \notin chunks \cup sealed \cup answered.chunks
        /\ \A r \in requests : full \cap r.sealed = {}
        /\ sealed' = sealed \cup full
        /\ requests' = requests \cup
                {[op |-> "SET", key |-> k, client |-> c, pc |-> "insert", ts |-> 0, sealed |-> full]}
    /\ UNCHANGED <<now, stored, ops, owed, lastAck, beat, beats, known, chunks, backup,
                   toCoordinator, toServer, toClient, answered>>

(* insertOpMetadata: a SET that the coordinator has not been told of is    *)
(* forgotten when its key is deleted.                                      *)
InsertOpMetadata(k, op) ==
    IF ops[k] = Unknown
    THEN ops' = [ops EXCEPT ![k] = Op(op, now)] /\ now' = Tick(now)
    ELSE /\ ops' = IF op = "DELETE" THEN [ops EXCEPT ![k] = Unknown] ELSE ops
         /\ UNCHANGED now

SetInsert(r) ==
    /\ r \in requests
    /\ r.pc = "insert"
    /\ stored' = stored \cup {r.key}
    /\ InsertOpMetadata(r.key, "SET")
    /\ requests' = (requests \ {r}) \cup {[r EXCEPT !.pc = "respond", !.ts = now]}
    /\ UNCHANGED <<sealed, owed, lastAck, beat, beats, begun, known, chunks, backup,
                   toCoordinator, toServer, toClient, answered>>

DeleteBegin(c, k) ==
    /\ k \in Deleting \cap stored
    /\ ~Busy(k)
    /\ stored' = stored \ {k}
    /\ InsertOpMetadata(k, "DELETE")
    /\ requests' = requests \cup
            {[op |-> "DELETE", key |-> k, client |-> c, pc |-> "respond", ts |-> 0, sealed |-> {}]}
    /\ UNCHANGED <<sealed, owed, lastAck, beat, beats, begun, known, chunks, backup,
                   toCoordinator, toServer, toClient, answered>>

(* A DELETE is stamped once more for its response.                         *)
Respond(r) ==
    LET ts == IF r.op = "SET" THEN r.ts ELSE now
    IN
    /\ r \in requests
    /\ r.pc = "respond"
    /\ now' = IF r.op = "SET" THEN now ELSE Tick(now)
    /\ toClient' = [toClient EXCEPT ![r.client] = Append(@,
            [type |-> r.op, key |-> r.key, ts |-> ts, sealed |-> r.sealed])]
    /\ requests' = requests \ {r}
    /\ UNCHANGED <<stored, ops, sealed, owed, lastAck, beat, beats, begun, known, chunks, backup,
                   toCoordinator, toServer, answered>>

-----------------------------------------------------------------------------
(* Heartbeats                                                              *)

BeatStamp ==
    /\ beat.pc = "idle"
    /\ beats < MaxBeats
    /\ beats' = beats + 1
    /\ beat' = [pc |-> "sealed", ts |-> now]
    /\ now' = Tick(now)
    /\ UNCHANGED <<stored, ops, sealed, owed, lastAck, requests, begun, known, chunks, backup,
                   toCoordinator, toServer, toClient, answered>>

BeatSealed ==
    /\ beat.pc = "sealed"
    /\ beat' = [pc |-> "ops", ts |-> beat.ts, sealed |-> sealed]
    /\ sealed' = {}
    /\ UNCHANGED <<now, stored, ops, owed, lastAck, beats, requests, begun, known, chunks, backup,
                   toCoordinator, toServer, toClient, answered>>

(* Mutant: the heartbeat is stamped when it is sent.                       *)
BeatSendStamped(told) ==
    /\ owed' = IF told THEN owed \cup {now} ELSE owed
    /\ toCoordinator' = Append(toCoordinator,
            [type |-> "SYNC", ts |-> now, sealed |-> beat.sealed, ops |-> beat.ops])

BeatSend(told) ==
    /\ owed' = IF told THEN owed \cup {beat.ts} ELSE owed
    /\ toCoordinator' = Append(toCoordinator,
            [type |-> "SYNC", ts |-> beat.ts, sealed |-> beat.sealed, ops |-> beat.ops])

BeatOps ==
    /\ beat.pc = "ops"
    /\ beat' = [pc |-> "send", ts |-> beat.ts, sealed |-> beat.sealed, ops |-> ops]
    /\ ops' = [k \in Keys |-> Unknown]
    /\ UNCHANGED <<now, stored, sealed, owed, lastAck, beats, requests, begun, known, chunks, backup,
                   toCoordinator, toServer, toClient, answered>>

(* A heartbeat that tells nothing is sent, too, but not waited for.        *)
BeatEnd ==
    /\ beat.pc = "send"
    /\ BeatSend(beat.sealed # {} \/ \E k \in Keys : beat.ops[k] # Unknown)
    /\ beat' = NoBeat
    /\ UNCHANGED <<now, stored, ops, sealed, lastAck, beats, requests, begun, known, chunks, backup,
                   toServer, toClient, answered>>

(* handleHeartbeatAck: clients are told the range of stamps since the last *)
(* heartbeat that was acknowledged.                                        *)
HandleHeartbeatAck ==
    LET ts == Head(toServer)
    IN
    /\ toServer # <<>>
    /\ toServer' = Tail(toServer)
    /\ IF ts \in owed
       THEN /\ owed' = owed \ {ts}
            /\ lastAck' = ts
            /\ toClient' = [c \in Clients |-> Append(toClient[c],
                    [type |-> "ACK", from |-> lastAck, to |-> ts])]
       ELSE UNCHANGED <<owed, lastAck, toClient>>
    /\ UNCHANGED <<now, stored, ops, sealed, beat, beats, requests, begun, known, chunks, backup,
                   toCoordinator, answered>>

-----------------------------------------------------------------------------
(* The coordinator                                                         *)

(* Map::insertKey: a SET that arrives after the DELETE of its key cancels  *)
(* it.                                                                     *)
InsertKey(old, new) ==
    CASE new = Unknown -> old
      [] new.op = "SET" -> IF old.op = "DELETE" /\ old.ts > new.ts THEN Unknown ELSE new
      [] new.op = "DELETE" -> IF old # Unknown THEN Unknown ELSE new

(* processHeartbeat and handleSyncMetadata.  The place of a DELETE in a    *)
(* heartbeat is never initialised at the server: its key may be looked for *)
(* at another server.                                                      *)
HandleSync ==
    LET m == Head(toCoordinator)
    IN
    /\ toCoordinator # <<>>
    /\ toCoordinator' = Tail(toCoordinator)
    /\ chunks' = chunks \cup m.sealed
    /\ \E missed \in SUBSET {k \in Keys : m.type = "SYNC" /\ m.ops[k].op = "DELETE"} :
        known' = [k \in Keys |-> IF k \in missed THEN known[k] ELSE InsertKey(known[k], m.ops[k])]
    /\ toServer' = IF m.type = "SYNC" THEN Append(toServer, m.ts) ELSE toServer
    /\ UNCHANGED <<serverVars, backup, toClient, answered>>

-----------------------------------------------------------------------------
(* Clients                                                                 *)

(* Backup::insert.  A DELETE removes the backup of the SET.                *)
BackupInsert(old, new) ==
    CASE old = Unknown -> new
      [] old # Unknown /\ new.ts > old.ts -> IF new.op = "SET" THEN new ELSE Unknown
      [] OTHER -> old

HandleResponse(c) ==
    LET m == Head(toClient[c])
    IN
    /\ toClient[c] # <<>>
    /\ m.type \in {"SET", "DELETE"}
    /\ toClient' = [toClient EXCEPT ![c] = Tail(@)]
    /\ backup' = [backup EXCEPT ![c].ops[m.key] = BackupInsert(@, Op(m.type, m.ts)),
                                ![c].sealed = @ \cup {[ts |-> m.ts, chunk |-> x] : x \in m.sealed}]
    /\ answered' = [keys |-> IF m.type = "SET" THEN answered.keys \cup {m.key} ELSE answered.keys,
                    chunks |-> answered.chunks \cup m.sealed]
    /\ UNCHANGED <<serverVars, known, chunks, toCoordinator, toServer>>

InRange(t, from, to) ==
    IF from > to THEN t >= from \/ t < to ELSE t >= from /\ t < to

(* Backup::erase                                                           *)
HandleAcknowledgement(c) ==
    LET m == Head(toClient[c])
    IN
    /\ toClient[c] # <<>>
    /\ m.type = "ACK"
    /\ toClient' = [toClient EXCEPT ![c] = Tail(@)]
    /\ backup' = [backup EXCEPT
            ![c].ops = [k \in Keys |-> IF InRange(@[k].ts, m.from, m.to) THEN Unknown ELSE @[k]],
            ![c].sealed = {b \in @ : ~InRange(b.ts, m.from, m.to)}]
    /\ UNCHANGED <<serverVars, known, chunks, toCoordinator, toServer, answered>>

(* The state of the server changes: backups are sent and dropped.          *)
SyncMetadata(c) ==
    /\ backup[c].sealed # {} \/ \E k \in Keys : backup[c].ops[k] # Unknown
    /\ toCoordinator' = Append(toCoordinator,
            [type |-> "BACKUP", ts |-> 0, sealed |-> {b.chunk : b \in backup[c].sealed},
             ops |-> backup[c].ops])
    /\ backup' = [backup EXCEPT ![c].ops = [k \in Keys |-> Unknown], ![c].sealed = {}]
    /\ UNCHANGED <<serverVars, known, chunks, toServer, toClient, answered>>

-----------------------------------------------------------------------------
Next ==
    \/ \E c \in Clients, k \in Keys : SetBegin(c, k) \/ DeleteBegin(c, k)
    \/ \E r \in requests : SetInsert(r) \/ Respond(r)
    \/ BeatStamp \/ BeatSealed \/ BeatOps \/ BeatEnd
    \/ HandleHeartbeatAck
    \/ HandleSync
    \/ \E c \in Clients : HandleResponse(c) \/ HandleAcknowledgement(c) \/ SyncMetadata(c)

Spec == Init /\ [][Next]_vars

-----------------------------------------------------------------------------
(* Properties                                                              *)

OnItsWay(k) == \E i \in DOMAIN toCoordinator : toCoordinator[i].ops[k].op = "SET"

(* Metadata that a client was told of survives a crash of the server: the  *)
(* coordinator knows it, or a message to the coordinator holds it, or a    *)
(* client has a backup.  (Keys that are being deleted need none.)          *)
MetadataDurable ==
    /\ \A k \in answered.keys \ Deleting :
        \/ known[k].op = "SET"
        \/ OnItsWay(k)
        \/ \E c \in Clients : backup[c].ops[k].op = "SET"
    /\ \A x \in answered.chunks :
        \/ x \in chunks
        \/ \E i \in DOMAIN toCoordinator : x \in toCoordinator[i].sealed
        \/ \E c \in Clients : \E b \in backup[c].sealed : b.chunk = x
=============================================================================
