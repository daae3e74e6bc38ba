--------------------------- MODULE RemappingProofs ---------------------------
(***************************************************************************)
(* Proofs about Remapping: where the objects of redirected SETs are, while *)
(* a server is degraded and when it is back.  The inductive invariant      *)
(* follows an object: what a client no longer waits for is stored, or kept *)
(* where the coordinator's record says; from the synchronisation on, what  *)
(* was answered before is stored, or is kept by a server that was asked to *)
(* migrate it, or is on its way; and a server that reports the end of its  *)
(* migration has nothing on its way.                                       *)
(***************************************************************************)
EXTENDS Remapping, FiniteSetTheorems, TLAPS

(* What the constants stand for.  There are at least as many data servers  *)
(* as servers that a SET goes to: with fewer of them the client may choose *)
(* a parity server of the list (BasicRemappingScheme::redirect), which     *)
(* stores the object as its own and never sends it back.                   *)
Layout ==
    /\ K \in Nat /\ M \in Nat /\ 1 + M <= K
    /\ IsFiniteSet(Keys)
    /\ Home \in [Keys -> Data]
    /\ KeyOf \in [Requests -> Keys]
    /\ Failing \subseteq Servers

Pairs == Servers \X Servers

Message ==
    [type : {"LOCK", "LOCKED"}, req : Requests, list : SUBSET Pairs]
    \cup [type : {"DEGRADED_SET"}, req : Requests, chunk : Servers, to : Servers]
    \cup [type : {"SET_DONE"}, req : Requests, chunk : Servers, from : Servers]
    \cup [type : {"MIGRATE"}, to : Servers]
    \cup [type : {"MIGRATED"}, from : Servers]
    \cup [type : {"SET", "SET_BACK"}, from : Servers, key : Keys]

RemappingTypes ==
    /\ failed \in Servers
    /\ state \in {"NORMAL", "DEGRADED", "COORDINATED", "SYNCHRONIZING", "RETURNED"}
    /\ view \in {"NORMAL", "DEGRADED", "COORDINATED"}
    /\ records \in [Keys -> SUBSET Pairs]
    /\ req \in [Requests -> [pc : {"idle", "locking", "sent", "answered"}, wait : SUBSET Pairs]]
    /\ stored \in [Servers -> SUBSET Keys]
    /\ buffer \in [Servers -> SUBSET (Keys \X Servers)]
    /\ moving \in [Servers -> Int]
    /\ syncing \subseteq Servers
    /\ before \subseteq Requests
    /\ msgs \subseteq Message

(* Nothing was redirected before a server fails.                           *)
Quiet ==
    state = "NORMAL" =>
        /\ view = "NORMAL" /\ msgs = {}
        /\ \A k \in Keys : records[k] = {}
        /\ \A s \in Servers : buffer[s] = {}
        /\ \A r \in Requests : req[r].pc = "idle"

(* Until the coordinator synchronises, and from then on.                   *)
Early == state \in {"DEGRADED", "COORDINATED"}
Late == state \in {"SYNCHRONIZING", "RETURNED"}

(* A redirection, or none: of the chunk of the failed server, to a data    *)
(* server or to itself.                                                    *)
Choices == {{}} \cup {{<<failed, t>>} : t \in Data \cup {failed}}

Placed(k, c) == k \in stored[c] \/ Kept(k, c)
Open(r) == req[r].pc \in {"sent", "answered"}

LockOK(m) == m.type = "LOCK" => m.list \in Choices
LockedOK(m) ==
    m.type = "LOCKED" =>
        m.list \in Choices /\ (Early /\ m.list # {} => records[KeyOf[m.req]] = m.list)
SetOK(m) ==
    m.type = "DEGRADED_SET" =>
        /\ Open(m.req) /\ m.chunk \in Chunks(m.req)
        /\ \/ m.to = m.chunk
           \/ /\ m.chunk = failed /\ m.to \in Data
              /\ Early => records[KeyOf[m.req]] = {<<failed, m.to>>}
DoneOK(m) ==
    m.type = "SET_DONE" =>
        Open(m.req) /\ m.chunk \in Chunks(m.req) /\ (Early => Placed(KeyOf[m.req], m.chunk))
MsgOK(m) ==
    /\ LockOK(m) /\ LockedOK(m) /\ SetOK(m) /\ DoneOK(m)
    /\ m.type \in {"MIGRATE", "MIGRATED", "SET", "SET_BACK"} => Late

(* What a client does not wait for has its place.                          *)
ReqOK(r) ==
    /\ req[r].pc = "answered" => req[r].wait = {}
    /\ Early /\ Open(r) =>
           \A c \in Chunks(r) : (\E t \in Servers : <<c, t>> \in req[r].wait) \/ Placed(KeyOf[r], c)

(* An object on its way from server t to the failed server.                *)
Migrate(t) == [type |-> "MIGRATE", to |-> t]
Migrated(t) == [type |-> "MIGRATED", from |-> t]
Sent(t, k) == [type |-> "SET", from |-> t, key |-> k]
Back(t, k) == [type |-> "SET_BACK", from |-> t, key |-> k]
InFlight(t) == {e \in Keys \X {failed} : Sent(t, e[1]) \in msgs \/ Back(t, e[1]) \in msgs}

(* The migration of server t: asked for, under way, reported.              *)
TransferOK(t) ==
    /\ Migrate(t) \in msgs => InFlight(t) = {} /\ Migrated(t) \notin msgs
    /\ Migrated(t) \in msgs \/ t \notin syncing => Migrate(t) \notin msgs /\ InFlight(t) = {}
    /\ Cardinality(InFlight(t)) = moving[t]
    /\ \A k \in Keys : ~(Sent(t, k) \in msgs /\ Back(t, k) \in msgs)

Arriving(k, c) ==
    \/ k \in stored[c]
    \/ /\ c = failed
       /\ \E t \in Servers : \/ <<k, failed>> \in buffer[t] /\ Migrate(t) \in msgs
                             \/ Sent(t, k) \in msgs

RemappingInv ==
    /\ RemappingTypes
    /\ Quiet
    /\ \A k \in Keys : records[k] \in Choices
    /\ \A s \in Servers : \A e \in buffer[s] : e[2] = failed
    /\ \A m \in msgs : MsgOK(m)
    /\ \A r \in Requests : ReqOK(r)
    /\ \A t \in Servers : TransferOK(t)
    /\ ~Late => before = {} /\ syncing = {}
    /\ state = "RETURNED" => syncing = {}
    /\ \A r \in before : \A c \in Chunks(r) : Arriving(KeyOf[r], c)

-----------------------------------------------------------------------------
(* Chunks of a request are on servers, and a data server is a server.      *)
LEMMA ChunksType ==
    ASSUME Layout
    PROVE  /\ Data \subseteq Servers /\ Parity \subseteq Servers /\ 0 \in Servers
           /\ \A r \in Requests : Chunks(r) \subseteq Servers /\ KeyOf[r] \in Keys
  <1>1. Data \subseteq Servers /\ Parity \subseteq Servers BY DEF Servers
  <1>2. 0 \in Data BY DEF Layout, Data
  <1>3. ASSUME NEW r \in Requests PROVE KeyOf[r] \in Keys /\ Home[KeyOf[r]] \in Data
    BY DEF Layout
  <1> QED BY <1>1, <1>2, <1>3 DEF Chunks

(* Where a client redirects the chunk of the failed server to: a data      *)
(* server, or that server itself.                                          *)
LEMMA TargetsChosen ==
    ASSUME Layout, RemappingTypes, NEW r \in Requests
    PROVE  \A list \in redirect(r) : list \in Choices /\ list \in SUBSET Pairs
  <1>1. Targets(r) \subseteq Data \cup {failed}
    <2>1. Parity \subseteq Chunks(r) BY DEF Chunks
    <2>2. 1 + M <= K BY DEF Layout
    <2>3. Servers \ Chunks(r) \subseteq Data BY <2>1 DEF Servers
    <2> QED BY <2>2, <2>3 DEF Targets
  <1>2. Data \cup {failed} \subseteq Servers /\ failed \in Servers BY ChunksType DEF RemappingTypes
  <1> QED BY <1>1, <1>2 DEF redirect, Choices, Pairs

(* Messages of the migration are not those of the clients.                 *)
LEMMA MigrationApart ==
    ASSUME NEW t, NEW k
    PROVE  /\ Migrate(t).type = "MIGRATE" /\ Migrated(t).type = "MIGRATED"
           /\ Sent(t, k).type = "SET" /\ Back(t, k).type = "SET_BACK"
  BY DEF Migrate, Migrated, Sent, Back

(* What has its place keeps it, before the synchronisation.                *)
LEMMA PlacedStays ==
    ASSUME RemappingTypes, NEW k \in Keys, NEW c \in Servers, Placed(k, c),
           records[k] # {} => records'[k] = records[k],
           \A s \in Servers : stored[s] \subseteq stored'[s] /\ buffer[s] \subseteq buffer'[s]
    PROVE  Placed(k, c)'
  <1>1. CASE k \in stored[c] BY <1>1 DEF Placed
  <1>2. CASE Kept(k, c)
    <2>1. PICK e \in records[k] : e[1] = c /\ <<k, c>> \in buffer[e[2]] BY <1>2 DEF Kept
    <2>2. e[2] \in Servers /\ records'[k] = records[k] BY <2>1 DEF RemappingTypes, Pairs
    <2>3. e \in records'[k] /\ <<k, c>> \in buffer'[e[2]] BY <2>1, <2>2
    <2> QED BY <2>1, <2>3 DEF Placed, Kept
  <1> QED BY <1>1, <1>2 DEF Placed

(* The redirections depend on which server has failed only.                *)
LEMMA ChoicesStay ==
    ASSUME failed' = failed
    PROVE  Choices' = Choices
  BY DEF Choices

(* Steps that leave the migration alone.                                   *)
LEMMA TransferStays ==
    ASSUME NEW t \in Servers, TransferOK(t), failed' = failed, moving'[t] = moving[t],
           (t \in syncing') <=> (t \in syncing),
           (Migrate(t) \in msgs') <=> (Migrate(t) \in msgs),
           (Migrated(t) \in msgs') <=> (Migrated(t) \in msgs),
           \A k \in Keys : ((Sent(t, k) \in msgs') <=> (Sent(t, k) \in msgs))
                           /\ ((Back(t, k) \in msgs') <=> (Back(t, k) \in msgs))
    PROVE  TransferOK(t)' /\ InFlight(t)' = InFlight(t)
  <1>1. InFlight(t)' = InFlight(t) BY DEF InFlight
  <1> QED BY <1>1 DEF TransferOK

(* Steps of clients, and of servers and the coordinator on their behalf.   *)
LEMMA ClientStep ==
    ASSUME Layout, RemappingInv, state # "NORMAL", RemappingTypes',
           UNCHANGED <<failed, syncing, before, moving>>,
           state' = state \/ (state = "DEGRADED" /\ state' = "COORDINATED"),
           \A k \in Keys : records'[k] \in Choices /\ (records[k] # {} => records'[k] = records[k]),
           \A s \in Servers : stored[s] \subseteq stored'[s] /\ buffer[s] \subseteq buffer'[s],
           \A s \in Servers : \A e \in buffer'[s] : e[2] = failed,
           NEW A, NEW B, msgs' = (msgs \ A) \cup B,
           \A m \in A \cup B : m.type \in {"LOCK", "LOCKED", "DEGRADED_SET", "SET_DONE"},
           \A m \in B : MsgOK(m)',
           \A r \in Requests : Open(r) => Open(r)',
           \A r \in Requests : req'[r] = req[r] \/ ReqOK(r)'
    PROVE  RemappingInv'
  <1>1. (Early' <=> Early) /\ (Late' <=> Late) /\ Choices' = Choices
    BY ChoicesStay DEF Early, Late
  <1>2. RemappingTypes BY DEF RemappingInv
  <1>3. ASSUME NEW r \in Requests, NEW c \in Chunks(r), Placed(KeyOf[r], c) PROVE Placed(KeyOf[r], c)'
    BY <1>2, <1>3, ChunksType, PlacedStays
  <1>4. ASSUME NEW m \in msgs' PROVE MsgOK(m)'
    <2>1. CASE m \in B BY <2>1
    <2>2. CASE m \in msgs
      <3>1. MsgOK(m) BY <2>2 DEF RemappingInv
      <3>2. m \in Message BY <1>2, <2>2 DEF RemappingTypes
      <3>3. m.type \in {"LOCKED", "DEGRADED_SET", "SET_DONE"} => m.req \in Requests
        BY <3>2 DEF Message
      <3>4. m.type \in {"LOCKED", "DEGRADED_SET", "SET_DONE"} => KeyOf[m.req] \in Keys
        BY <3>3, ChunksType
      <3>5. LockOK(m)' BY <1>1, <3>1 DEF MsgOK, LockOK
      <3>6. LockedOK(m)' BY <1>1, <3>1, <3>4 DEF MsgOK, LockedOK
      <3>7. SetOK(m)' BY <1>1, <3>1, <3>3, <3>4 DEF MsgOK, SetOK
      <3>8. DoneOK(m)' BY <1>1, <1>3, <3>1, <3>3 DEF MsgOK, DoneOK
      <3> QED BY <1>1, <3>1, <3>5, <3>6, <3>7, <3>8 DEF MsgOK
    <2> QED BY <2>1, <2>2
  <1>5. ASSUME NEW r \in Requests PROVE ReqOK(r)'
    <2>1. SUFFICES ASSUME req'[r] = req[r] PROVE ReqOK(r)' OBVIOUS
    <2>2. ReqOK(r) BY DEF RemappingInv
    <2> QED BY <1>1, <1>3, <2>1, <2>2 DEF ReqOK, Open
  <1>6. ASSUME NEW t \in Servers
        PROVE /\ (Migrate(t) \in msgs') <=> (Migrate(t) \in msgs)
              /\ (Migrated(t) \in msgs') <=> (Migrated(t) \in msgs)
              /\ \A k \in Keys : ((Sent(t, k) \in msgs') <=> (Sent(t, k) \in msgs))
                                 /\ ((Back(t, k) \in msgs') <=> (Back(t, k) \in msgs))
    BY MigrationApart
  <1>7. ASSUME NEW t \in Servers PROVE TransferOK(t)'
    <2>1. TransferOK(t) BY DEF RemappingInv
    <2> QED BY <1>6, <2>1, TransferStays
  <1>8. ASSUME NEW r \in before', NEW c \in Chunks(r) PROVE Arriving(KeyOf[r], c)'
    <2>1. Arriving(KeyOf[r], c) /\ KeyOf[r] \in Keys /\ c \in Servers
      BY <1>2, ChunksType DEF RemappingInv, RemappingTypes
    <2> QED BY <1>6, <2>1 DEF Arriving
  <1>9. Quiet' BY DEF Quiet
  <1> QED BY <1>1, <1>4, <1>5, <1>7, <1>8, <1>9 DEF RemappingInv

(* Clients learn of the state of the failed server.                        *)
LEMMA LearnKeeps ==
    ASSUME Layout, RemappingInv, Learn
    PROVE  RemappingInv'
  <1>1. /\ RemappingTypes /\ UNCHANGED <<coordinatorVars, req, serverVars, msgs>>
        /\ view' \in {"DEGRADED", "COORDINATED"} /\ view # state
    BY DEF RemappingInv, Learn
  <1>2. state # "NORMAL" BY <1>1 DEF RemappingInv, Quiet
  <1>3. RemappingTypes' BY <1>1 DEF RemappingTypes, coordinatorVars, serverVars
  <1>5. /\ \A k \in Keys : records'[k] \in Choices /\ (records[k] # {} => records'[k] = records[k])
        /\ \A s \in Servers : stored[s] \subseteq stored'[s] /\ buffer[s] \subseteq buffer'[s]
        /\ \A s \in Servers : \A e \in buffer'[s] : e[2] = failed
        /\ \A r \in Requests : (Open(r) => Open(r)') /\ req'[r] = req[r]
    BY <1>1 DEF RemappingInv, coordinatorVars, serverVars, Open
  <1>6. UNCHANGED <<failed, state, syncing, before, moving>> BY <1>1 DEF coordinatorVars, serverVars
  <1> DEFINE none == {}
  <1>7. /\ msgs' = (msgs \ none) \cup none
        /\ \A m \in none \cup none : m.type \in {"LOCK", "LOCKED", "DEGRADED_SET", "SET_DONE"}
        /\ \A m \in none : MsgOK(m)'
    BY <1>1
  <1>8. \A r \in Requests : Open(r) => Open(r)' BY <1>5
  <1>9. \A r \in Requests : req'[r] = req[r] \/ ReqOK(r)' BY <1>5
  <1> HIDE DEF none
  <1> QED BY <1>2, <1>3, <1>5, <1>6, <1>7, <1>8, <1>9, ClientStep

(* A message, or a client that knows of the failure, shows that a server   *)
(* has failed.                                                             *)
LEMMA NotQuiet ==
    ASSUME RemappingInv, view # "NORMAL" \/ msgs # {}
    PROVE  state # "NORMAL"
  BY DEF RemappingInv, Quiet

(* BasicRemappingScheme::redirect and the request for a lock.              *)
LEMMA SetRequestKeeps ==
    ASSUME Layout, RemappingInv, NEW r \in Requests, HandleDegradedSetRequest(r)
    PROVE  RemappingInv'
  <1>1. PICK list \in redirect(r) : msgs' = msgs \cup {[type |-> "LOCK", req |-> r, list |-> list]}
    BY DEF HandleDegradedSetRequest
  <1> DEFINE n == [type |-> "LOCK", req |-> r, list |-> list]
  <1>2. /\ RemappingTypes /\ req[r].pc = "idle" /\ state # "NORMAL"
        /\ req' = [req EXCEPT ![r].pc = "locking"]
        /\ UNCHANGED <<failed, state, records, syncing, before, view, stored, buffer, moving>>
    BY NotQuiet DEF RemappingInv, HandleDegradedSetRequest, coordinatorVars, serverVars
  <1>3. list \in Choices /\ list \in SUBSET Pairs BY <1>2, TargetsChosen
  <1>4. n \in Message /\ n.type = "LOCK" /\ n.list = list BY <1>3 DEF Message
  <1>5. req'[r].pc = "locking" /\ \A q \in Requests : q # r => req'[q] = req[q]
    BY <1>2 DEF RemappingTypes
  <1>6. RemappingTypes'
    <2>1. req' \in [Requests -> [pc : {"idle", "locking", "sent", "answered"}, wait : SUBSET Pairs]]
      BY <1>2 DEF RemappingTypes
    <2>2. msgs' \subseteq Message BY <1>1, <1>2, <1>4 DEF RemappingTypes
    <2> QED BY <1>2, <2>1, <2>2 DEF RemappingTypes
  <1> HIDE DEF n
  <1>7. MsgOK(n)'
    BY <1>2, <1>3, <1>4, ChoicesStay DEF MsgOK, LockOK, LockedOK, SetOK, DoneOK
  <1>8. \A q \in Requests : (Open(q) => Open(q)') /\ (req'[q] = req[q] \/ ReqOK(q)')
    BY <1>2, <1>5 DEF Open, ReqOK
  <1>11. \A q \in Requests : Open(q) => Open(q)' BY <1>8
  <1>12. \A q \in Requests : req'[q] = req[q] \/ ReqOK(q)' BY <1>8
  <1> DEFINE old == {}
             new == {n}
  <1>9. /\ msgs' = (msgs \ old) \cup new
        /\ \A x \in old \cup new : x.type \in {"LOCK", "LOCKED", "DEGRADED_SET", "SET_DONE"}
        /\ \A x \in new : MsgOK(x)'
    BY <1>1, <1>4, <1>7 DEF n
  <1> HIDE DEF old, new
  <1>10. /\ \A k \in Keys : records'[k] \in Choices /\ (records[k] # {} => records'[k] = records[k])
         /\ \A s \in Servers : stored[s] \subseteq stored'[s] /\ buffer[s] \subseteq buffer'[s]
         /\ \A s \in Servers : \A e \in buffer'[s] : e[2] = failed
    BY <1>2 DEF RemappingInv
  <1> QED BY <1>2, <1>6, <1>9, <1>10, <1>11, <1>12, ClientStep

(* RemappingRecordMap::insert: the coordinator's record decides.           *)
LEMMA LockRequestKeeps ==
    ASSUME Layout, RemappingInv, NEW m \in msgs, HandleDegradedSetLockRequest(m)
    PROVE  RemappingInv'
  <1> DEFINE k == KeyOf[m.req]
             allowed == {e \in m.list : state = "DEGRADED" /\ e[1] = failed}
             record == IF allowed = {} THEN {} ELSE insert(records[k], allowed)
  <1>0. PICK n : n = [type |-> "LOCKED", req |-> m.req, list |-> record] OBVIOUS
  <1>1. /\ RemappingTypes /\ m.type = "LOCK" /\ state # "NORMAL"
        /\ records' = (IF allowed = {} THEN records ELSE [records EXCEPT ![k] = record])
        /\ msgs' = (msgs \ {m}) \cup {n}
        /\ UNCHANGED <<failed, state, syncing, before, view, req, stored, buffer, moving>>
    BY <1>0, NotQuiet DEF RemappingInv, HandleDegradedSetLockRequest, serverVars
  <1>2. m.req \in Requests /\ m.list \in SUBSET Pairs BY <1>1 DEF RemappingTypes, Message
  <1>3. k \in Keys /\ records[k] \in Choices /\ records[k] \in SUBSET Pairs
    BY <1>1, <1>2, ChunksType DEF RemappingInv, RemappingTypes
  <1>4. m.list \in Choices BY <1>1 DEF RemappingInv, MsgOK, LockOK
  <1>5. allowed \in Choices /\ allowed \in SUBSET Pairs BY <1>2, <1>4 DEF Choices
  <1>6. record \in Choices /\ record \in SUBSET Pairs
    BY <1>3, <1>5 DEF insert, Choices
  <1>7. /\ records'[k] = (IF allowed = {} THEN records[k] ELSE record)
        /\ \A j \in Keys : j # k => records'[j] = records[j]
        /\ records' \in [Keys -> SUBSET Pairs]
    BY <1>1, <1>3, <1>6 DEF RemappingTypes
  <1>8. /\ records[k] # {} => records'[k] = records[k]
        /\ record # {} => records'[k] = record
        /\ records'[k] \in Choices
    BY <1>3, <1>6, <1>7 DEF insert
  <1> HIDE DEF record, allowed
  <1>9. n \in Message /\ n.type = "LOCKED" /\ n.list = record /\ n.req = m.req
    BY <1>0, <1>2, <1>6 DEF Message
  <1>10. RemappingTypes' BY <1>1, <1>7, <1>9 DEF RemappingTypes
  <1>11. MsgOK(n)'
    <2>1. n.list \in Choices' BY <1>1, <1>6, <1>9, ChoicesStay
    <2>2. n.list # {} => records'[KeyOf[n.req]] = n.list BY <1>8, <1>9
    <2>3. LockedOK(n)' BY <2>1, <2>2 DEF LockedOK
    <2> QED BY <1>9, <2>3 DEF MsgOK, LockOK, SetOK, DoneOK
  <1>12. \A q \in Requests : (Open(q) => Open(q)') /\ (req'[q] = req[q] \/ ReqOK(q)')
    BY <1>1 DEF Open
  <1>13. /\ \A j \in Keys : records'[j] \in Choices /\ (records[j] # {} => records'[j] = records[j])
         /\ \A s \in Servers : stored[s] \subseteq stored'[s] /\ buffer[s] \subseteq buffer'[s]
         /\ \A s \in Servers : \A e \in buffer'[s] : e[2] = failed
    BY <1>1, <1>7, <1>8 DEF RemappingInv
  <1>14. \A q \in Requests : Open(q) => Open(q)' BY <1>12
  <1>15. \A q \in Requests : req'[q] = req[q] \/ ReqOK(q)' BY <1>12
  <1> DEFINE old == {m}
             new == {n}
  <1>16. /\ msgs' = (msgs \ old) \cup new
         /\ \A x \in old \cup new : x.type \in {"LOCK", "LOCKED", "DEGRADED_SET", "SET_DONE"}
         /\ \A x \in new : MsgOK(x)'
    BY <1>1, <1>9, <1>11
  <1> HIDE DEF old, new
  <1> QED BY <1>1, <1>10, <1>13, <1>14, <1>15, <1>16, ClientStep

(* The destination of a chunk under a redirection.                         *)
LEMMA DestinationChosen ==
    ASSUME Layout, RemappingTypes, NEW list \in Choices, NEW c \in Servers
    PROVE  /\ Destination(c, list) \in Servers
           /\ \/ Destination(c, list) = c
              \/ /\ c = failed /\ Destination(c, list) \in Data
                 /\ list = {<<failed, Destination(c, list)>>}
  <1>1. CASE list = {} BY <1>1 DEF Destination
  <1>2. CASE list # {}
    <2>1. PICK t \in Data \cup {failed} : list = {<<failed, t>>} BY <1>2 DEF Choices
    <2>2. t \in Servers BY ChunksType DEF RemappingTypes
    <2>3. CASE c = failed
      <3>1. (CHOOSE e \in list : e[1] = c) = <<failed, t>> BY <2>1, <2>3
      <3>2. Destination(c, list) = t BY <2>1, <2>3, <3>1 DEF Destination
      <3> QED BY <2>1, <2>2, <2>3, <3>2
    <2>4. CASE c # failed
      <3>1. ~\E e \in list : e[1] = c BY <2>1, <2>4
      <3> QED BY <3>1 DEF Destination
    <2> QED BY <2>3, <2>4
  <1> QED BY <1>1, <1>2

(* The object is sent to the servers of the key, or where the lock says.   *)
LEMMA LockResponseKeeps ==
    ASSUME Layout, RemappingInv, NEW m \in msgs, HandleDegradedSetLockResponse(m)
    PROVE  RemappingInv'
  <1> DEFINE r == m.req
             wait == {<<c, Destination(c, m.list)>> : c \in Chunks(r)}
             new == {[type |-> "DEGRADED_SET", req |-> r, chunk |-> c, to |-> Destination(c, m.list)]
                        : c \in Chunks(r)}
  <1>1. /\ RemappingTypes /\ m.type = "LOCKED" /\ state # "NORMAL"
        /\ req' = [req EXCEPT ![r] = [pc |-> "sent", wait |-> wait]]
        /\ msgs' = (msgs \ {m}) \cup new
        /\ UNCHANGED <<failed, state, records, syncing, before, view, stored, buffer, moving>>
    BY NotQuiet DEF RemappingInv, HandleDegradedSetLockResponse, coordinatorVars, serverVars
  <1>2. r \in Requests /\ Chunks(r) \subseteq Servers
    BY <1>1, ChunksType DEF RemappingTypes, Message
  <1>3. m.list \in Choices /\ (Early /\ m.list # {} => records[KeyOf[r]] = m.list)
    BY <1>1 DEF RemappingInv, MsgOK, LockedOK
  <1>4. ASSUME NEW c \in Chunks(r)
        PROVE /\ Destination(c, m.list) \in Servers
              /\ \/ Destination(c, m.list) = c
                 \/ /\ c = failed /\ Destination(c, m.list) \in Data
                    /\ m.list = {<<failed, Destination(c, m.list)>>}
    BY <1>1, <1>2, <1>3, DestinationChosen
  <1>5. wait \in SUBSET Pairs BY <1>2, <1>4 DEF Pairs
  <1>6. req'[r] = [pc |-> "sent", wait |-> wait] /\ \A q \in Requests : q # r => req'[q] = req[q]
    BY <1>1, <1>2 DEF RemappingTypes
  <1>7. Open(r)' /\ \A q \in Requests : Open(q) => Open(q)'
    BY <1>2, <1>6 DEF Open
  <1>8. ASSUME NEW n \in new
        PROVE  n \in Message /\ n.type = "DEGRADED_SET" /\ MsgOK(n)'
    <2>1. PICK c \in Chunks(r) :
            n = [type |-> "DEGRADED_SET", req |-> r, chunk |-> c, to |-> Destination(c, m.list)]
      OBVIOUS
    <2>2. /\ n.type = "DEGRADED_SET" /\ n.req = r /\ n.chunk = c /\ n.to = Destination(c, m.list)
          /\ n \in Message
      BY <1>2, <1>4, <2>1 DEF Message
    <2> HIDE DEF new, wait, r
    <2>3. SetOK(n)'
      <3>1. Early' => Early BY <1>1 DEF Early
      <3>2. n.to # n.chunk => /\ n.chunk = failed /\ n.to \in Data /\ m.list = {<<failed, n.to>>}
        BY <1>4, <2>2
      <3> QED BY <1>1, <1>3, <1>7, <2>2, <3>1, <3>2 DEF SetOK
    <2> QED BY <2>2, <2>3 DEF MsgOK, LockOK, LockedOK, DoneOK
  <1>9. RemappingTypes'
    <2>1. req' \in [Requests -> [pc : {"idle", "locking", "sent", "answered"}, wait : SUBSET Pairs]]
      BY <1>1, <1>2, <1>5 DEF RemappingTypes
    <2>2. msgs' \subseteq Message BY <1>1, <1>8 DEF RemappingTypes
    <2> QED BY <1>1, <2>1, <2>2 DEF RemappingTypes
  <1>10. ReqOK(r)'
    <2>1. ASSUME NEW c \in Chunks(r) PROVE \E t \in Servers : <<c, t>> \in req'[r].wait
      BY <1>4, <1>6
    <2> QED BY <1>6, <2>1 DEF ReqOK
  <1>11. \A q \in Requests : req'[q] = req[q] \/ ReqOK(q)' BY <1>6, <1>10
  <1>12. /\ \A k \in Keys : records'[k] \in Choices /\ (records[k] # {} => records'[k] = records[k])
         /\ \A s \in Servers : stored[s] \subseteq stored'[s] /\ buffer[s] \subseteq buffer'[s]
         /\ \A s \in Servers : \A e \in buffer'[s] : e[2] = failed
    BY <1>1 DEF RemappingInv
  <1>13. \A n \in {m} \cup new : n.type \in {"LOCK", "LOCKED", "DEGRADED_SET", "SET_DONE"}
    BY <1>1, <1>8
  <1>14. \A n \in new : MsgOK(n)' BY <1>8
  <1> HIDE DEF new, wait, r
  <1> QED BY <1>1, <1>7, <1>9, <1>11, <1>12, <1>13, <1>14, ClientStep

(* A response of a server: the client waits for one place less.            *)
LEMMA SetResponseKeeps ==
    ASSUME Layout, RemappingInv, NEW m \in msgs, HandleDegradedSetResponse(m)
    PROVE  RemappingInv'
  <1> DEFINE r == m.req
             wait == req[r].wait \ {<<m.chunk, m.from>>}
             pc == IF wait = {} THEN "answered" ELSE "sent"
  <1>1. /\ RemappingTypes /\ m.type = "SET_DONE" /\ state # "NORMAL"
        /\ req' = [req EXCEPT ![r] = [pc |-> pc, wait |-> wait]]
        /\ msgs' = msgs \ {m}
        /\ UNCHANGED <<failed, state, records, syncing, before, view, stored, buffer, moving>>
    BY NotQuiet DEF RemappingInv, HandleDegradedSetResponse, coordinatorVars, serverVars
  <1>2. r \in Requests /\ m.chunk \in Servers /\ m.from \in Servers
    BY <1>1 DEF RemappingTypes, Message
  <1>3. Open(r) /\ m.chunk \in Chunks(r) /\ (Early => Placed(KeyOf[r], m.chunk)) /\ ReqOK(r)
    BY <1>1, <1>2 DEF RemappingInv, MsgOK, DoneOK
  <1>4. wait \in SUBSET Pairs BY <1>1, <1>2 DEF RemappingTypes
  <1>5. req'[r] = [pc |-> pc, wait |-> wait] /\ \A q \in Requests : q # r => req'[q] = req[q]
    BY <1>1, <1>2 DEF RemappingTypes
  <1>6. \A q \in Requests : Open(q) => Open(q)' BY <1>2, <1>5 DEF Open
  <1>7. RemappingTypes'
    <2>1. req' \in [Requests -> [pc : {"idle", "locking", "sent", "answered"}, wait : SUBSET Pairs]]
      BY <1>1, <1>2, <1>4 DEF RemappingTypes
    <2> QED BY <1>1, <2>1 DEF RemappingTypes
  <1>8. ReqOK(r)'
    <2>1. (Early' => Early) /\ \A c \in Servers : Placed(KeyOf[r], c)' <=> Placed(KeyOf[r], c)
      BY <1>1 DEF Early, Placed, Kept
    <2>2. ASSUME Early, NEW c \in Chunks(r)
          PROVE  (\E t \in Servers : <<c, t>> \in wait) \/ Placed(KeyOf[r], c)
      BY <1>3, <2>2 DEF ReqOK
    <2>3. Chunks(r) \subseteq Servers BY <1>2, ChunksType
    <2>4. req'[r].wait = wait /\ req'[r].pc = pc BY <1>5
    <2> HIDE DEF wait
    <2> QED BY <2>1, <2>2, <2>3, <2>4 DEF ReqOK
  <1>9. \A q \in Requests : req'[q] = req[q] \/ ReqOK(q)' BY <1>5, <1>8
  <1>10. /\ \A k \in Keys : records'[k] \in Choices /\ (records[k] # {} => records'[k] = records[k])
         /\ \A s \in Servers : stored[s] \subseteq stored'[s] /\ buffer[s] \subseteq buffer'[s]
         /\ \A s \in Servers : \A e \in buffer'[s] : e[2] = failed
    BY <1>1 DEF RemappingInv
  <1> HIDE DEF wait, pc, r
  <1> DEFINE old == {m}
             new == {}
  <1>11. /\ msgs' = (msgs \ old) \cup new
         /\ \A x \in old \cup new : x.type \in {"LOCK", "LOCKED", "DEGRADED_SET", "SET_DONE"}
         /\ \A x \in new : MsgOK(x)'
    BY <1>1
  <1> HIDE DEF old, new
  <1> QED BY <1>1, <1>6, <1>7, <1>9, <1>10, <1>11, ClientStep

(* A server stores the object, or keeps it (RemappedBuffer::insert).       *)
LEMMA DegradedSetKeeps ==
    ASSUME Layout, RemappingInv, NEW m \in msgs, HandleDegradedSet(m)
    PROVE  RemappingInv'
  <1> DEFINE k == KeyOf[m.req]
             n == [type |-> "SET_DONE", req |-> m.req, chunk |-> m.chunk, from |-> m.to]
  <1>1. /\ RemappingTypes /\ m.type = "DEGRADED_SET" /\ state # "NORMAL"
        /\ msgs' = (msgs \ {m}) \cup {n}
        /\ UNCHANGED <<failed, state, records, syncing, before, view, req, moving>>
    BY NotQuiet DEF RemappingInv, HandleDegradedSet, coordinatorVars
  <1>2. m.req \in Requests /\ m.chunk \in Servers /\ m.to \in Servers /\ k \in Keys
    BY <1>1, ChunksType DEF RemappingTypes, Message
  <1>3. /\ Open(m.req) /\ m.chunk \in Chunks(m.req)
        /\ \/ m.to = m.chunk
           \/ /\ m.chunk = failed /\ m.to \in Data
              /\ Early => records[k] = {<<failed, m.to>>}
    BY <1>1 DEF RemappingInv, MsgOK, SetOK
  <1>4. /\ stored' \in [Servers -> SUBSET Keys] /\ buffer' \in [Servers -> SUBSET (Keys \X Servers)]
        /\ \A s \in Servers : stored[s] \subseteq stored'[s] /\ buffer[s] \subseteq buffer'[s]
        /\ \A s \in Servers : \A e \in buffer'[s] : e[2] = failed
        /\ Early => Placed(k, m.chunk)'
    <2>0. \A s \in Servers : \A e \in buffer[s] : e[2] = failed BY DEF RemappingInv
    <2>1. CASE m.to = m.chunk
      <3>1. stored' = [stored EXCEPT ![m.to] = @ \cup {k}] /\ UNCHANGED buffer
        BY <2>1 DEF HandleDegradedSet
      <3>2. k \in stored'[m.chunk] BY <1>1, <1>2, <2>1, <3>1 DEF RemappingTypes
      <3> QED BY <1>1, <1>2, <2>0, <3>1, <3>2 DEF RemappingTypes, Placed
    <2>2. CASE m.to # m.chunk
      <3>1. m.chunk = failed /\ m.to \in Data /\ (Early => records[k] = {<<failed, m.to>>})
        BY <1>3, <2>2
      <3>2. buffer' = [buffer EXCEPT ![m.to] = insertRemapped(@, k, m.chunk)] /\ UNCHANGED stored
        BY <2>2, <3>1 DEF HandleDegradedSet
      <3>3. /\ buffer'[m.to] = insertRemapped(buffer[m.to], k, failed)
            /\ \A s \in Servers : s # m.to => buffer'[s] = buffer[s]
        BY <1>1, <1>2, <3>1, <3>2 DEF RemappingTypes
      <3>4. buffer[m.to] \in SUBSET (Keys \X Servers) /\ \A e \in buffer[m.to] : e[2] = failed
        BY <1>1, <1>2, <2>0 DEF RemappingTypes
      <3>5. /\ buffer[m.to] \subseteq buffer'[m.to] /\ <<k, failed>> \in buffer'[m.to]
            /\ buffer'[m.to] \subseteq buffer[m.to] \cup {<<k, failed>>}
        <4>1. CASE \E d \in Servers : <<k, d>> \in buffer[m.to]
          <5>1. PICK d \in Servers : <<k, d>> \in buffer[m.to] BY <4>1
          <5>2. d = failed BY <3>4, <5>1
          <5> QED BY <3>3, <4>1, <5>1, <5>2 DEF insertRemapped
        <4>2. CASE ~\E d \in Servers : <<k, d>> \in buffer[m.to]
          BY <3>3, <4>2 DEF insertRemapped
        <4> QED BY <4>1, <4>2
      <3>6. buffer' \in [Servers -> SUBSET (Keys \X Servers)]
        <4>1. buffer'[m.to] \in SUBSET (Keys \X Servers) BY <1>1, <1>2, <3>4, <3>5 DEF RemappingTypes
        <4> QED BY <1>1, <1>2, <3>2, <3>3, <4>1 DEF RemappingTypes
      <3>7. \A s \in Servers : \A e \in buffer'[s] : e[2] = failed
        BY <2>0, <3>3, <3>5
      <3>8. Early => Placed(k, m.chunk)'
        <4>1. SUFFICES ASSUME Early PROVE Kept(k, m.chunk)' BY DEF Placed
        <4>2. <<failed, m.to>> \in records'[k] BY <1>1, <3>1, <4>1
        <4> QED BY <1>1, <3>1, <3>5, <4>2 DEF Kept
      <3> QED BY <1>1, <3>2, <3>3, <3>5, <3>6, <3>7, <3>8 DEF RemappingTypes
    <2> QED BY <2>1, <2>2
  <1>5. /\ n \in Message /\ n.type = "SET_DONE" /\ n.req = m.req /\ n.chunk = m.chunk
    BY <1>2 DEF Message
  <1>6. RemappingTypes' BY <1>1, <1>4, <1>5 DEF RemappingTypes
  <1> HIDE DEF n
  <1>7. MsgOK(n)'
    BY <1>1, <1>3, <1>4, <1>5 DEF MsgOK, LockOK, LockedOK, SetOK, DoneOK, Open, Early
  <1>8. \A q \in Requests : (Open(q) => Open(q)') /\ (req'[q] = req[q] \/ ReqOK(q)')
    BY <1>1 DEF Open
  <1>9. \A j \in Keys : records'[j] \in Choices /\ (records[j] # {} => records'[j] = records[j])
    BY <1>1 DEF RemappingInv
  <1>10. \A q \in Requests : Open(q) => Open(q)' BY <1>8
  <1>11. \A q \in Requests : req'[q] = req[q] \/ ReqOK(q)' BY <1>8
  <1> DEFINE old == {m}
             new == {n}
  <1>12. /\ msgs' = (msgs \ old) \cup new
         /\ \A x \in old \cup new : x.type \in {"LOCK", "LOCKED", "DEGRADED_SET", "SET_DONE"}
         /\ \A x \in new : MsgOK(x)'
    BY <1>1, <1>5, <1>7
  <1> HIDE DEF old, new
  <1> QED BY <1>1, <1>4, <1>6, <1>9, <1>10, <1>11, <1>12, ClientStep

-----------------------------------------------------------------------------
(* The state of the failed server.                                         *)
LEMMA DegradeKeeps ==
    ASSUME Layout, RemappingInv, NEW s \in Failing, Degrade(s)
    PROVE  RemappingInv'
  <1>1. /\ RemappingTypes /\ state = "NORMAL" /\ failed' = s /\ state' = "DEGRADED"
        /\ UNCHANGED <<view, records, syncing, before, req, stored, buffer, moving, msgs>>
    BY DEF RemappingInv, Degrade, serverVars
  <1>2. /\ msgs' = {} /\ msgs = {} /\ before' = {} /\ syncing' = {}
        /\ \A k \in Keys : records'[k] = {}
        /\ \A t \in Servers : buffer'[t] = {}
        /\ \A r \in Requests : req'[r].pc = "idle"
    BY <1>1 DEF RemappingInv, Quiet, Late
  <1>3. RemappingTypes' BY <1>1 DEF RemappingTypes, Layout
  <1>4. \A k \in Keys : records'[k] \in Choices' BY <1>2 DEF Choices
  <1>5. \A r \in Requests : ReqOK(r)' BY <1>2 DEF ReqOK, Open
  <1>6. ASSUME NEW t \in Servers PROVE TransferOK(t)'
    <2>1. InFlight(t) = {} /\ InFlight(t)' = {} BY <1>2 DEF InFlight
    <2>2. Cardinality(InFlight(t)) = moving[t] BY DEF RemappingInv, TransferOK
    <2> QED BY <1>1, <1>2, <2>1, <2>2 DEF TransferOK
  <1>7. Quiet' BY <1>1 DEF Quiet
  <1> QED BY <1>1, <1>2, <1>3, <1>4, <1>5, <1>6, <1>7 DEF RemappingInv

LEMMA ReturnKeeps ==
    ASSUME Layout, RemappingInv, Return
    PROVE  RemappingInv'
  <1>1. /\ RemappingTypes /\ state = "DEGRADED" /\ state' = "COORDINATED"
        /\ UNCHANGED <<failed, view, records, syncing, before, req, stored, buffer, moving, msgs>>
    BY DEF RemappingInv, Return, serverVars
  <1>2. RemappingTypes' BY <1>1 DEF RemappingTypes
  <1>3. /\ \A k \in Keys : records'[k] \in Choices /\ (records[k] # {} => records'[k] = records[k])
        /\ \A s \in Servers : stored[s] \subseteq stored'[s] /\ buffer[s] \subseteq buffer'[s]
        /\ \A s \in Servers : \A e \in buffer'[s] : e[2] = failed
    BY <1>1 DEF RemappingInv
  <1>4. \A r \in Requests : Open(r) => Open(r)' BY <1>1 DEF Open
  <1>5. \A r \in Requests : req'[r] = req[r] \/ ReqOK(r)' BY <1>1
  <1> DEFINE none == {}
  <1>6. /\ msgs' = (msgs \ none) \cup none
        /\ \A m \in none \cup none : m.type \in {"LOCK", "LOCKED", "DEGRADED_SET", "SET_DONE"}
        /\ \A m \in none : MsgOK(m)'
    BY <1>1
  <1> HIDE DEF none
  <1> QED BY <1>1, <1>2, <1>3, <1>4, <1>5, <1>6, ClientStep

(* From the synchronisation on, what remains to be shown of a step.        *)
LEMMA LateStep ==
    ASSUME RemappingInv, RemappingTypes', Late', Early \/ Late, UNCHANGED <<failed, req>>,
           \A k \in Keys : records'[k] \in Choices,
           \A s \in Servers : buffer'[s] \subseteq buffer[s],
           \A m \in msgs' : m \in msgs \/ m.type \in {"MIGRATE", "MIGRATED", "SET", "SET_BACK"},
           \A t \in Servers : TransferOK(t)',
           state' = "RETURNED" => syncing' = {},
           \A r \in before' : \A c \in Chunks(r) : Arriving(KeyOf[r], c)'
    PROVE  RemappingInv'
  <1>1. ~Early' /\ Choices' = Choices /\ state' # "NORMAL"
    BY ChoicesStay DEF Early, Late
  <1>2. ASSUME NEW m \in msgs' PROVE MsgOK(m)'
    <2>1. CASE m \in msgs
      <3>1. MsgOK(m) BY <2>1 DEF RemappingInv
      <3>2. LockOK(m)' /\ LockedOK(m)' BY <1>1, <3>1 DEF MsgOK, LockOK, LockedOK
      <3>3. SetOK(m)' /\ DoneOK(m)' BY <1>1, <3>1 DEF MsgOK, SetOK, DoneOK, Open
      <3> QED BY <3>2, <3>3 DEF MsgOK
    <2>2. CASE m.type \in {"MIGRATE", "MIGRATED", "SET", "SET_BACK"}
      BY <2>2 DEF MsgOK, LockOK, LockedOK, SetOK, DoneOK
    <2> QED BY <2>1, <2>2
  <1>3. \A r \in Requests : ReqOK(r)' BY <1>1 DEF RemappingInv, ReqOK
  <1>4. \A s \in Servers : \A e \in buffer'[s] : e[2] = failed' BY DEF RemappingInv
  <1>5. Quiet' BY <1>1 DEF Quiet
  <1> QED BY <1>1, <1>2, <1>3, <1>4, <1>5 DEF RemappingInv

(* A message of the migration is the one with its server and key.          *)
LEMMA MigrationShape ==
    ASSUME NEW m \in Message
    PROVE  /\ m.type = "MIGRATE" => m.to \in Servers /\ m = Migrate(m.to)
           /\ m.type = "MIGRATED" => m.from \in Servers /\ m = Migrated(m.from)
           /\ m.type = "SET" => m.from \in Servers /\ m.key \in Keys /\ m = Sent(m.from, m.key)
           /\ m.type = "SET_BACK" => m.from \in Servers /\ m.key \in Keys /\ m = Back(m.from, m.key)
  <1>1. m.type = "MIGRATE" => m.to \in Servers /\ m = Migrate(m.to) BY DEF Message, Migrate
  <1>2. m.type = "MIGRATED" => m.from \in Servers /\ m = Migrated(m.from) BY DEF Message, Migrated
  <1>3. m.type = "SET" => m.from \in Servers /\ m.key \in Keys /\ m = Sent(m.from, m.key)
    BY DEF Message, Sent
  <1>4. m.type = "SET_BACK" => m.from \in Servers /\ m.key \in Keys /\ m = Back(m.from, m.key)
    BY DEF Message, Back
  <1> QED BY <1>1, <1>2, <1>3, <1>4

(* Different servers, different messages; and their types.                 *)
LEMMA MigrationDistinct ==
    ASSUME NEW t \in Servers, NEW u \in Servers
    PROVE  /\ Migrate(t) = Migrate(u) <=> t = u
           /\ Migrated(t) = Migrated(u) <=> t = u
           /\ Migrate(t) \in Message /\ Migrated(t) \in Message
  BY DEF Migrate, Migrated, Message

(* The same for the messages about a key.                                  *)
LEMMA TransferDistinct ==
    ASSUME NEW t \in Servers, NEW u \in Servers, NEW k \in Keys, NEW j \in Keys
    PROVE  /\ Sent(t, k) = Sent(u, j) <=> (t = u /\ k = j)
           /\ Back(t, k) = Back(u, j) <=> (t = u /\ k = j)
           /\ Sent(t, k) \in Message /\ Back(t, k) \in Message
  BY DEF Sent, Back, Message

(* syncRemappedData: every server is asked for what it keeps.              *)
LEMMA SynchronizeKeeps ==
    ASSUME Layout, RemappingInv, Synchronize
    PROVE  RemappingInv'
  <1>1. /\ RemappingTypes /\ state = "COORDINATED" /\ state' = "SYNCHRONIZING" /\ syncing' = Servers
        /\ before' = Answered
        /\ msgs' = msgs \cup {Migrate(s) : s \in Servers}
        /\ UNCHANGED <<failed, view, records, req, stored, buffer, moving>>
    BY DEF RemappingInv, Synchronize, serverVars, Migrate
  <1>2. RemappingTypes'
    <2>1. \A s \in Servers : Migrate(s) \in Message BY DEF Migrate, Message
    <2>2. Answered \subseteq Requests BY DEF Answered
    <2> QED BY <1>1, <2>1, <2>2 DEF RemappingTypes
  <1>3. Early /\ ~Late /\ Late' BY <1>1 DEF Early, Late
  <1>4. \A m \in msgs : m.type \notin {"MIGRATE", "MIGRATED", "SET", "SET_BACK"}
    BY <1>3 DEF RemappingInv, MsgOK
  <1>5. ASSUME NEW t \in Servers PROVE TransferOK(t)'
    <2>1. Migrated(t) \notin msgs' /\ \A k \in Keys : Sent(t, k) \notin msgs' /\ Back(t, k) \notin msgs'
      BY <1>1, <1>4, MigrationApart
    <2>2. \A k \in Keys : Sent(t, k) \notin msgs /\ Back(t, k) \notin msgs
      BY <1>1, <2>1
    <2>3. InFlight(t) = {} /\ InFlight(t)' = {} BY <2>1, <2>2 DEF InFlight
    <2>4. Cardinality(InFlight(t)) = moving[t] BY DEF RemappingInv, TransferOK
    <2> QED BY <1>1, <2>1, <2>3, <2>4 DEF TransferOK
  <1>6. ASSUME NEW r \in before', NEW c \in Chunks(r) PROVE Arriving(KeyOf[r], c)'
    <2>1. r \in Requests /\ req[r].pc = "answered" BY <1>1 DEF Answered
    <2>2. req[r].wait = {} /\ Placed(KeyOf[r], c)
      BY <1>3, <2>1 DEF RemappingInv, ReqOK, Open
    <2>3. CASE KeyOf[r] \in stored[c] BY <1>1, <2>3 DEF Arriving
    <2>4. CASE Kept(KeyOf[r], c)
      <3>1. PICK e \in records[KeyOf[r]] : e[1] = c /\ <<KeyOf[r], c>> \in buffer[e[2]]
        BY <2>4 DEF Kept
      <3>2. KeyOf[r] \in Keys BY <2>1, ChunksType
      <3>3. e \in Pairs /\ records[KeyOf[r]] \in Choices
        BY <1>1, <3>1, <3>2 DEF RemappingInv, RemappingTypes
      <3>4. e[2] \in Servers /\ e[1] = failed BY <3>1, <3>3 DEF Pairs, Choices
      <3>5. Migrate(e[2]) \in msgs' BY <1>1, <3>4
      <3> QED BY <1>1, <3>1, <3>4, <3>5 DEF Arriving
    <2> QED BY <2>2, <2>3, <2>4 DEF Placed
  <1>7. /\ \A k \in Keys : records'[k] \in Choices
        /\ \A s \in Servers : buffer'[s] \subseteq buffer[s]
    BY <1>1 DEF RemappingInv
  <1>8. \A m \in msgs' : m \in msgs \/ m.type \in {"MIGRATE", "MIGRATED", "SET", "SET_BACK"}
    BY <1>1, MigrationApart
  <1> QED BY <1>1, <1>2, <1>3, <1>5, <1>6, <1>7, <1>8, LateStep

(* handleRemappedData: what the server keeps is on its way, all of it.     *)
LEMMA RemappedDataKeeps ==
    ASSUME Layout, RemappingInv, NEW m \in msgs, HandleRemappedData(m)
    PROVE  RemappingInv'
  <1>0. PICK t, kept, new :
            /\ t = m.to /\ kept = {e \in buffer[t] : e[2] = failed}
            /\ new = (IF kept = {} THEN {Migrated(t)} ELSE {Sent(t, e[1]) : e \in kept})
    OBVIOUS
  <1>1. /\ RemappingTypes /\ m.type = "MIGRATE"
        /\ buffer' = [buffer EXCEPT ![t] = @ \ kept]
        /\ moving' = [moving EXCEPT ![t] = Cardinality(kept)]
        /\ msgs' = (msgs \ {m}) \cup new
        /\ UNCHANGED <<failed, state, records, syncing, before, view, req, stored>>
    BY <1>0 DEF RemappingInv, HandleRemappedData, eraseRemapData, insertRemapDataRequest,
                coordinatorVars, Migrated, Sent
  <1>2. t \in Servers /\ m = Migrate(t) /\ Late /\ Late'
    BY <1>0, <1>1, MigrationShape DEF RemappingInv, RemappingTypes, MsgOK, Late
  <1>3. kept \in SUBSET (Keys \X {failed}) /\ \A e \in buffer[t] : e \in kept
    BY <1>0, <1>1, <1>2 DEF RemappingInv, RemappingTypes
  <1>4. /\ buffer'[t] = buffer[t] \ kept /\ \A u \in Servers : u # t => buffer'[u] = buffer[u]
        /\ moving'[t] = Cardinality(kept) /\ \A u \in Servers : u # t => moving'[u] = moving[u]
    BY <1>1, <1>2 DEF RemappingTypes
  <1>5. \A n \in new : n \in Message /\ n.type \in {"MIGRATED", "SET"}
    <2>1. \A e \in kept : e[1] \in Keys BY <1>3
    <2>2. Migrated(t) \in Message /\ \A e \in kept : Sent(t, e[1]) \in Message
      BY <1>2, <2>1, MigrationDistinct, TransferDistinct
    <2> QED BY <1>0, <2>2, MigrationApart
  <1>6. Cardinality(kept) \in Nat
    <2>1. IsFiniteSet({failed}) BY FS_Singleton
    <2>2. IsFiniteSet(Keys \X {failed}) BY <2>1, FS_Product DEF Layout
    <2>3. IsFiniteSet(kept) BY <1>3, <2>2, FS_Subset
    <2> QED BY <2>3, FS_CardinalityType
  <1>7. RemappingTypes'
    <2>1. buffer' \in [Servers -> SUBSET (Keys \X Servers)] BY <1>1 DEF RemappingTypes
    <2>2. moving' \in [Servers -> Int]
      <3>1. Cardinality(kept) \in Int BY <1>6
      <3> QED BY <1>1, <3>1 DEF RemappingTypes
    <2>3. msgs' \subseteq Message BY <1>1, <1>5 DEF RemappingTypes
    <2> QED BY <1>1, <2>1, <2>2, <2>3 DEF RemappingTypes
  <1>8. TransferOK(t) /\ Migrate(t) \in msgs BY <1>2 DEF RemappingInv
  <1>9. /\ InFlight(t) = {} /\ Migrated(t) \notin msgs /\ t \in syncing
        /\ \A k \in Keys : Sent(t, k) \notin msgs /\ Back(t, k) \notin msgs
    <2>1. InFlight(t) = {} /\ Migrated(t) \notin msgs /\ t \in syncing BY <1>8 DEF TransferOK
    <2>2. ASSUME NEW k \in Keys PROVE Sent(t, k) \notin msgs /\ Back(t, k) \notin msgs
      <3>1. <<k, failed>> \in Keys \X {failed} /\ <<k, failed>>[1] = k OBVIOUS
      <3> QED BY <2>1, <3>1 DEF InFlight
    <2> QED BY <2>1, <2>2
  <1>10. \A k \in Keys : (Sent(t, k) \in new) <=> (<<k, failed>> \in kept)
    <2>1. ASSUME NEW k \in Keys, Sent(t, k) \in new PROVE <<k, failed>> \in kept
      <3>1. kept # {} BY <1>0, <2>1, MigrationApart
      <3>2. PICK e \in kept : Sent(t, k) = Sent(t, e[1]) BY <1>0, <2>1, <3>1
      <3>3. e[1] \in Keys /\ e = <<e[1], failed>> BY <1>3
      <3>4. e[1] = k BY <1>2, <3>2, <3>3, TransferDistinct
      <3> QED BY <3>3, <3>4
    <2>2. ASSUME NEW k \in Keys, <<k, failed>> \in kept PROVE Sent(t, k) \in new
      BY <1>0, <2>2
    <2> QED BY <2>1, <2>2
  <1>11. /\ \A k \in Keys : (Sent(t, k) \in msgs') <=> (<<k, failed>> \in kept)
         /\ \A k \in Keys : Back(t, k) \notin msgs'
    <2>1. \A k \in Keys : Back(t, k) \notin new BY <1>5, MigrationApart
    <2> QED BY <1>1, <1>9, <1>10, <2>1
  <1>12. Migrate(t) \notin msgs' /\ ((Migrated(t) \in msgs') <=> (kept = {}))
    <2>1. Migrate(t) \notin new BY <1>5, MigrationApart
    <2>2. (Migrated(t) \in new) <=> (kept = {}) BY <1>0, MigrationApart
    <2> QED BY <1>1, <1>2, <1>9, <2>1, <2>2
  <1>13. InFlight(t)' = kept
    <2>1. ASSUME NEW e \in Keys \X {failed}
          PROVE  (Sent(t, e[1]) \in msgs' \/ Back(t, e[1]) \in msgs') <=> e \in kept
      <3>1. PICK k \in Keys : e = <<k, failed>> /\ e[1] = k OBVIOUS
      <3>2. (Sent(t, k) \in msgs') <=> (<<k, failed>> \in kept) BY <1>11
      <3>3. Back(t, k) \notin msgs' BY <1>11
      <3> QED BY <3>1, <3>2, <3>3
    <2>2. InFlight(t)' = {e \in Keys \X {failed} : Sent(t, e[1]) \in msgs' \/ Back(t, e[1]) \in msgs'}
      BY <1>1 DEF InFlight
    <2> QED BY <1>3, <2>1, <2>2
  <1>14. TransferOK(t)'
    BY <1>1, <1>4, <1>9, <1>11, <1>12, <1>13 DEF TransferOK
  <1>15. ASSUME NEW u \in Servers, u # t
         PROVE  /\ (Migrate(u) \in msgs') <=> (Migrate(u) \in msgs)
                /\ (Migrated(u) \in msgs') <=> (Migrated(u) \in msgs)
                /\ \A k \in Keys : ((Sent(u, k) \in msgs') <=> (Sent(u, k) \in msgs))
                                   /\ ((Back(u, k) \in msgs') <=> (Back(u, k) \in msgs))
    <2>1. Migrate(u) # m /\ Migrated(u) # m /\ \A k \in Keys : Sent(u, k) # m /\ Back(u, k) # m
      <3>1. Migrate(u) # m BY <1>2, <1>15, MigrationDistinct
      <3> QED BY <1>1, <3>1, MigrationApart
    <2>2. Migrate(u) \notin new /\ \A k \in Keys : Back(u, k) \notin new BY <1>5, MigrationApart
    <2>3. Migrated(u) \notin new
      <3>1. Migrated(u) # Migrated(t) /\ \A e \in kept : Migrated(u) # Sent(t, e[1])
        BY <1>15, MigrationApart DEF Migrated
      <3> QED BY <1>0, <3>1
    <2>4. ASSUME NEW k \in Keys PROVE Sent(u, k) \notin new
      <3>1. Sent(u, k) # Migrated(t) BY MigrationApart
      <3>2. \A e \in kept : Sent(u, k) # Sent(t, e[1]) BY <1>15 DEF Sent
      <3> QED BY <1>0, <3>1, <3>2
    <2> QED BY <1>1, <2>1, <2>2, <2>3, <2>4
  <1>16. ASSUME NEW u \in Servers PROVE TransferOK(u)'
    <2>1. CASE u = t BY <1>14, <2>1
    <2>2. CASE u # t
      <3>1. TransferOK(u) BY DEF RemappingInv
      <3>2. (u \in syncing') <=> (u \in syncing) BY <1>1
      <3> QED BY <1>1, <1>4, <1>15, <2>2, <3>1, <3>2, TransferStays
    <2> QED BY <2>1, <2>2
  <1>17. ASSUME NEW r \in before', NEW c \in Chunks(r) PROVE Arriving(KeyOf[r], c)'
    <2>1. r \in Requests /\ KeyOf[r] \in Keys /\ Arriving(KeyOf[r], c)
      BY <1>1, ChunksType DEF RemappingInv, RemappingTypes
    <2>2. CASE KeyOf[r] \in stored[c] BY <1>1, <2>2 DEF Arriving
    <2>3. ASSUME c = failed, NEW u \in Servers, <<KeyOf[r], failed>> \in buffer[u], Migrate(u) \in msgs
          PROVE  Arriving(KeyOf[r], c)'
      <3>1. CASE u = t
        <4>0. <<KeyOf[r], failed>> \in kept BY <1>3, <2>3, <3>1
        <4>1. Sent(t, KeyOf[r]) \in msgs' BY <1>11, <2>1, <4>0
        <4> QED BY <1>1, <1>2, <2>3, <4>1 DEF Arriving
      <3>2. CASE u # t
        BY <1>1, <1>4, <1>15, <2>3, <3>2 DEF Arriving
      <3> QED BY <3>1, <3>2
    <2>4. ASSUME c = failed, NEW u \in Servers, Sent(u, KeyOf[r]) \in msgs
          PROVE  Arriving(KeyOf[r], c)'
      <3>1. u # t BY <1>9, <2>1, <2>4
      <3> QED BY <1>1, <1>15, <2>1, <2>4, <3>1 DEF Arriving
    <2> QED BY <2>1, <2>2, <2>3, <2>4 DEF Arriving
  <1>18. /\ \A k \in Keys : records'[k] \in Choices
         /\ \A s \in Servers : buffer'[s] \subseteq buffer[s]
         /\ state' = "RETURNED" => syncing' = {}
    BY <1>1, <1>4 DEF RemappingInv
  <1>19. \A n \in msgs' : n \in msgs \/ n.type \in {"MIGRATE", "MIGRATED", "SET", "SET_BACK"}
    BY <1>1, <1>5
  <1> QED BY <1>1, <1>2, <1>7, <1>16, <1>17, <1>18, <1>19, LateStep

(* The set of what is on its way, with the messages of the next state.     *)
LEMMA InFlightNext ==
    ASSUME NEW t, failed' = failed
    PROVE  /\ \A k \in Keys : (<<k, failed>> \in InFlight(t))
                                  <=> (Sent(t, k) \in msgs \/ Back(t, k) \in msgs)
           /\ \A k \in Keys : (<<k, failed>> \in InFlight(t)')
                                  <=> (Sent(t, k) \in msgs' \/ Back(t, k) \in msgs')
           /\ \A e \in InFlight(t) \cup InFlight(t)' : \E k \in Keys : e = <<k, failed>>
  <1>1. \A k \in Keys : <<k, failed>> \in Keys \X {failed} /\ <<k, failed>>[1] = k OBVIOUS
  <1>2. \A e \in Keys \X {failed} : \E k \in Keys : e = <<k, failed>> OBVIOUS
  <1> QED BY <1>1, <1>2 DEF InFlight

(* handleSetRequest from a peer: the object arrives.                       *)
LEMMA SetKeeps ==
    ASSUME Layout, RemappingInv, NEW m \in msgs, HandleSet(m)
    PROVE  RemappingInv'
  <1>0. PICK t, k : t = m.from /\ k = m.key OBVIOUS
  <1>1. /\ RemappingTypes /\ m.type = "SET"
        /\ stored' = [stored EXCEPT ![failed] = @ \cup {k}]
        /\ msgs' = (msgs \ {m}) \cup {Back(t, k)}
        /\ UNCHANGED <<failed, state, records, syncing, before, view, req, buffer, moving>>
    BY <1>0 DEF RemappingInv, HandleSet, coordinatorVars, Back
  <1>2. t \in Servers /\ k \in Keys /\ m = Sent(t, k) /\ Late /\ Late'
    BY <1>0, <1>1, MigrationShape DEF RemappingInv, RemappingTypes, MsgOK, Late
  <1>3. k \in stored'[failed] /\ \A s \in Servers : stored[s] \subseteq stored'[s]
    BY <1>1 DEF RemappingTypes
  <1>4. RemappingTypes'
    <2>1. stored' \in [Servers -> SUBSET Keys] BY <1>1, <1>2 DEF RemappingTypes
    <2>2. msgs' \subseteq Message BY <1>1, <1>2, TransferDistinct DEF RemappingTypes
    <2> QED BY <1>1, <2>1, <2>2 DEF RemappingTypes
  <1>5. \A u \in Servers :
            /\ (Migrate(u) \in msgs') <=> (Migrate(u) \in msgs)
            /\ (Migrated(u) \in msgs') <=> (Migrated(u) \in msgs)
    BY <1>1, MigrationApart
  <1>6. \A u \in Servers : \A j \in Keys :
            u # t \/ j # k =>
                /\ (Sent(u, j) \in msgs') <=> (Sent(u, j) \in msgs)
                /\ (Back(u, j) \in msgs') <=> (Back(u, j) \in msgs)
    BY <1>1, <1>2, MigrationApart, TransferDistinct
  <1>7. Sent(t, k) \in msgs /\ Sent(t, k) \notin msgs' /\ Back(t, k) \in msgs'
    BY <1>1, <1>2, MigrationApart
  <1>8. ASSUME NEW u \in Servers PROVE TransferOK(u)'
    <2>1. TransferOK(u) BY DEF RemappingInv
    <2>2. InFlight(u)' = InFlight(u)
      <3>1. ASSUME NEW j \in Keys
            PROVE  (Sent(u, j) \in msgs' \/ Back(u, j) \in msgs') <=> (Sent(u, j) \in msgs \/ Back(u, j) \in msgs)
        BY <1>6, <1>7
      <3>2. \A j \in Keys : <<j, failed>> \in InFlight(u)' <=> <<j, failed>> \in InFlight(u)
        BY <1>1, <3>1, InFlightNext
      <3> QED BY <1>1, <3>2, InFlightNext
    <2>3. \A j \in Keys : ~(Sent(u, j) \in msgs' /\ Back(u, j) \in msgs')
      BY <1>6, <1>7, <2>1 DEF TransferOK
    <2> QED BY <1>1, <1>5, <2>1, <2>2, <2>3 DEF TransferOK
  <1>9. ASSUME NEW r \in before', NEW c \in Chunks(r) PROVE Arriving(KeyOf[r], c)'
    <2>1. r \in Requests /\ KeyOf[r] \in Keys /\ Arriving(KeyOf[r], c) /\ c \in Servers
      BY <1>1, ChunksType DEF RemappingInv, RemappingTypes
    <2>2. CASE KeyOf[r] \in stored'[c] BY <2>2 DEF Arriving
    <2>3. CASE KeyOf[r] \notin stored'[c]
      <3>1. c = failed => KeyOf[r] # k BY <1>3, <2>3
      <3> QED BY <1>1, <1>3, <1>5, <1>6, <2>1, <2>3, <3>1 DEF Arriving
    <2> QED BY <2>2, <2>3
  <1>10. /\ \A j \in Keys : records'[j] \in Choices
         /\ \A s \in Servers : buffer'[s] \subseteq buffer[s]
         /\ state' = "RETURNED" => syncing' = {}
    BY <1>1 DEF RemappingInv
  <1>11. \A n \in msgs' : n \in msgs \/ n.type \in {"MIGRATE", "MIGRATED", "SET", "SET_BACK"}
    BY <1>1, MigrationApart
  <1> QED BY <1>1, <1>2, <1>4, <1>8, <1>9, <1>10, <1>11, LateStep

(* handleSetResponse: the count of objects on their way, and its end.      *)
LEMMA SetBackKeeps ==
    ASSUME Layout, RemappingInv, NEW m \in msgs, HandleSetResponse(m)
    PROVE  RemappingInv'
  <1>0. PICK t, k, new : /\ t = m.from /\ k = m.key
                         /\ new = (IF moving[t] - 1 = 0 THEN {Migrated(t)} ELSE {})
    OBVIOUS
  <1>1. /\ RemappingTypes /\ m.type = "SET_BACK"
        /\ moving' = [moving EXCEPT ![t] = moving[t] - 1]
        /\ msgs' = (msgs \ {m}) \cup new
        /\ UNCHANGED <<failed, state, records, syncing, before, view, req, stored, buffer>>
    BY <1>0 DEF RemappingInv, HandleSetResponse, coordinatorVars, Migrated, AllMoved
  <1>2. t \in Servers /\ k \in Keys /\ m = Back(t, k) /\ Late /\ Late'
    BY <1>0, <1>1, MigrationShape DEF RemappingInv, RemappingTypes, MsgOK, Late
  <1>3. moving'[t] = moving[t] - 1 /\ \A u \in Servers : u # t => moving'[u] = moving[u]
    BY <1>1, <1>2 DEF RemappingTypes
  <1>4. RemappingTypes'
    <2>1. moving' \in [Servers -> Int]
      <3>1. moving[t] - 1 \in Int BY <1>1, <1>2 DEF RemappingTypes
      <3> QED BY <1>1, <3>1 DEF RemappingTypes
    <2>2. msgs' \subseteq Message BY <1>0, <1>1, <1>2, MigrationDistinct DEF RemappingTypes
    <2> QED BY <1>1, <2>1, <2>2 DEF RemappingTypes
  <1>5. TransferOK(t) /\ Back(t, k) \in msgs BY <1>2 DEF RemappingInv
  <1>6. /\ <<k, failed>> \in InFlight(t) /\ Sent(t, k) \notin msgs
        /\ Migrate(t) \notin msgs /\ Migrated(t) \notin msgs /\ t \in syncing
        /\ Cardinality(InFlight(t)) = moving[t]
    <2>1. <<k, failed>> \in InFlight(t) BY <1>1, <1>2, <1>5, InFlightNext
    <2> QED BY <1>2, <1>5, <2>1 DEF TransferOK
  <1>7. \A u \in Servers :
            /\ (Migrate(u) \in msgs') <=> (Migrate(u) \in msgs)
            /\ u # t => ((Migrated(u) \in msgs') <=> (Migrated(u) \in msgs))
    <2>1. \A n \in new : n = Migrated(t) BY <1>0
    <2>2. \A u \in Servers : Migrate(u) \notin new /\ Migrate(u) # m /\ Migrated(u) # m
      BY <1>1, <2>1, MigrationApart
    <2>3. \A u \in Servers : u # t => Migrated(u) \notin new BY <1>2, <2>1, MigrationDistinct
    <2> QED BY <1>1, <2>2, <2>3
  <1>8. \A u \in Servers : \A j \in Keys :
            /\ (Sent(u, j) \in msgs') <=> (Sent(u, j) \in msgs)
            /\ u # t \/ j # k => ((Back(u, j) \in msgs') <=> (Back(u, j) \in msgs))
    <2>1. \A n \in new : n.type = "MIGRATED" BY <1>0, MigrationApart
    <2>2. \A u \in Servers : \A j \in Keys : Sent(u, j) \notin new /\ Back(u, j) \notin new /\ Sent(u, j) # m
      BY <1>1, <2>1, MigrationApart
    <2>3. \A u \in Servers : \A j \in Keys : u # t \/ j # k => Back(u, j) # m
      BY <1>2, TransferDistinct
    <2> QED BY <1>1, <2>2, <2>3
  <1>9. Back(t, k) \notin msgs'
    <2>1. Back(t, k) \notin new BY <1>0, MigrationApart
    <2> QED BY <1>1, <1>2, <2>1
  <1>10. InFlight(t)' = InFlight(t) \ {<<k, failed>>}
    <2>1. ASSUME NEW j \in Keys
          PROVE  (<<j, failed>> \in InFlight(t)') <=> (<<j, failed>> \in InFlight(t) /\ j # k)
      <3>1. (<<j, failed>> \in InFlight(t)') <=> (Sent(t, j) \in msgs' \/ Back(t, j) \in msgs')
        BY <1>1, InFlightNext
      <3>2. (<<j, failed>> \in InFlight(t)) <=> (Sent(t, j) \in msgs \/ Back(t, j) \in msgs)
        BY <1>1, InFlightNext
      <3>3. CASE j = k BY <1>2, <1>6, <1>8, <1>9, <3>1, <3>3
      <3>4. CASE j # k BY <1>2, <1>8, <3>1, <3>2, <3>4
      <3> QED BY <3>3, <3>4
    <2>2. \A e \in InFlight(t) \cup InFlight(t)' : \E j \in Keys : e = <<j, failed>>
      BY <1>1, InFlightNext
    <2>3. ASSUME NEW e \in InFlight(t)' PROVE e \in InFlight(t) /\ e # <<k, failed>>
      <3>1. PICK j \in Keys : e = <<j, failed>> BY <2>2
      <3> QED BY <2>1, <3>1
    <2>4. ASSUME NEW e \in InFlight(t), e # <<k, failed>> PROVE e \in InFlight(t)'
      <3>1. PICK j \in Keys : e = <<j, failed>> BY <2>2
      <3> QED BY <2>1, <2>4, <3>1
    <2> QED BY <2>3, <2>4
  <1>11. /\ Cardinality(InFlight(t)') = moving[t] - 1
         /\ (moving[t] - 1 = 0) <=> (InFlight(t)' = {})
    <2>1. IsFiniteSet(InFlight(t))
      <3>1. IsFiniteSet({failed}) BY FS_Singleton
      <3>2. IsFiniteSet(Keys \X {failed}) BY <3>1, FS_Product DEF Layout
      <3> QED BY <3>2, FS_Subset DEF InFlight
    <2>2. IsFiniteSet(InFlight(t) \ {<<k, failed>>})
          /\ Cardinality(InFlight(t) \ {<<k, failed>>}) = Cardinality(InFlight(t)) - 1
      BY <1>6, <2>1, FS_RemoveElement
    <2> QED BY <1>6, <1>10, <2>2, FS_EmptySet
  <1>12. TransferOK(t)'
    <2>1. (Migrated(t) \in msgs') <=> (InFlight(t)' = {})
      <3>1. (Migrated(t) \in new) <=> (moving[t] - 1 = 0) BY <1>0
      <3> QED BY <1>1, <1>6, <1>11, <3>1
    <2>2. \A j \in Keys : ~(Sent(t, j) \in msgs' /\ Back(t, j) \in msgs')
      BY <1>2, <1>5, <1>8, <1>9 DEF TransferOK
    <2>3. Migrate(t) \notin msgs' BY <1>2, <1>6, <1>7
    <2>4. Cardinality(InFlight(t)') = moving'[t] /\ t \in syncing' BY <1>1, <1>3, <1>6, <1>11
    <2> QED BY <2>1, <2>2, <2>3, <2>4 DEF TransferOK
  <1>13. ASSUME NEW u \in Servers PROVE TransferOK(u)'
    <2>1. CASE u = t BY <1>12, <2>1
    <2>2. CASE u # t
      <3>1. TransferOK(u) BY DEF RemappingInv
      <3>2. /\ (u \in syncing') <=> (u \in syncing)
            /\ moving'[u] = moving[u]
            /\ (Migrate(u) \in msgs') <=> (Migrate(u) \in msgs)
            /\ (Migrated(u) \in msgs') <=> (Migrated(u) \in msgs)
            /\ \A j \in Keys : ((Sent(u, j) \in msgs') <=> (Sent(u, j) \in msgs))
                               /\ ((Back(u, j) \in msgs') <=> (Back(u, j) \in msgs))
        BY <1>1, <1>3, <1>7, <1>8, <2>2
      <3> QED BY <1>1, <3>1, <3>2, TransferStays
    <2> QED BY <2>1, <2>2
  <1>14. ASSUME NEW r \in before', NEW c \in Chunks(r) PROVE Arriving(KeyOf[r], c)'
    <2>1. r \in Requests /\ KeyOf[r] \in Keys /\ Arriving(KeyOf[r], c)
      BY <1>1, ChunksType DEF RemappingInv, RemappingTypes
    <2> QED BY <1>1, <1>7, <1>8, <2>1 DEF Arriving
  <1>15. /\ \A j \in Keys : records'[j] \in Choices
         /\ \A s \in Servers : buffer'[s] \subseteq buffer[s]
         /\ state' = "RETURNED" => syncing' = {}
    BY <1>1 DEF RemappingInv
  <1>16. \A n \in msgs' : n \in msgs \/ n.type \in {"MIGRATE", "MIGRATED", "SET", "SET_BACK"}
    BY <1>0, <1>1, MigrationApart
  <1> QED BY <1>1, <1>2, <1>4, <1>13, <1>14, <1>15, <1>16, LateStep

(* The coordinator counts the servers that have migrated.                  *)
LEMMA MigratedKeeps ==
    ASSUME Layout, RemappingInv, NEW m \in msgs, HandleMigrated(m)
    PROVE  RemappingInv'
  <1>0. PICK t : t = m.from OBVIOUS
  <1>1. /\ RemappingTypes /\ m.type = "MIGRATED" /\ syncing' = syncing \ {t}
        /\ msgs' = msgs \ {m}
        /\ UNCHANGED <<failed, before, view, req, stored, buffer, moving>>
        /\ \/ /\ syncing = {t} /\ state' = "RETURNED"
              /\ records' = [k \in Keys |-> IF Home[k] = failed THEN {} ELSE records[k]]
           \/ UNCHANGED <<records, state>>
    BY <1>0 DEF RemappingInv, HandleMigrated, serverVars
  <1>2. t \in Servers /\ m = Migrated(t) /\ Late /\ Late'
    BY <1>0, <1>1, MigrationShape DEF RemappingInv, RemappingTypes, MsgOK, Late
  <1>3. (\A k \in Keys : records'[k] \in Choices) /\ RemappingTypes'
    <2>1. \A k \in Keys : records[k] \in Choices BY DEF RemappingInv
    <2>2. {} \in Choices BY DEF Choices
    <2>3. records' \in [Keys -> SUBSET Pairs] BY <1>1 DEF RemappingTypes
    <2>4. \A k \in Keys : records'[k] \in Choices BY <1>1, <2>1, <2>2
    <2> QED BY <1>1, <2>3, <2>4 DEF RemappingTypes
  <1>4. ASSUME NEW u \in Servers
        PROVE  /\ (Migrate(u) \in msgs') <=> (Migrate(u) \in msgs)
               /\ \A k \in Keys : ((Sent(u, k) \in msgs') <=> (Sent(u, k) \in msgs))
                                  /\ ((Back(u, k) \in msgs') <=> (Back(u, k) \in msgs))
    BY <1>1, MigrationApart
  <1>5. ASSUME NEW u \in Servers PROVE TransferOK(u)'
    <2>1. TransferOK(u) BY DEF RemappingInv
    <2>2. InFlight(u)' = InFlight(u) BY <1>1, <1>4 DEF InFlight
    <2>3. CASE u = t
      <3>1. Migrated(t) \in msgs /\ Migrated(t) \notin msgs' BY <1>1, <1>2
      <3>2. Migrate(u) \notin msgs' /\ InFlight(u)' = {}
        BY <1>4, <2>1, <2>2, <2>3, <3>1 DEF TransferOK
      <3> QED BY <1>1, <1>4, <2>1, <2>2, <3>2 DEF TransferOK
    <2>4. CASE u # t
      <3>1. /\ (u \in syncing') <=> (u \in syncing)
            /\ moving'[u] = moving[u]
            /\ (Migrated(u) \in msgs') <=> (Migrated(u) \in msgs)
        BY <1>1, <1>2, <2>4, MigrationDistinct
      <3> QED BY <1>1, <1>4, <2>1, <3>1, TransferStays
    <2> QED BY <2>3, <2>4
  <1>6. ASSUME NEW r \in before', NEW c \in Chunks(r) PROVE Arriving(KeyOf[r], c)'
    <2>1. r \in Requests /\ KeyOf[r] \in Keys /\ Arriving(KeyOf[r], c)
      BY <1>1, ChunksType DEF RemappingInv, RemappingTypes
    <2> QED BY <1>1, <1>4, <2>1 DEF Arriving
  <1>7. /\ \A s \in Servers : buffer'[s] \subseteq buffer[s]
        /\ state' = "RETURNED" => syncing' = {}
    BY <1>1 DEF RemappingInv
  <1>8. \A n \in msgs' : n \in msgs \/ n.type \in {"MIGRATE", "MIGRATED", "SET", "SET_BACK"}
    BY <1>1
  <1> QED BY <1>1, <1>2, <1>3, <1>5, <1>6, <1>7, <1>8, LateStep

-----------------------------------------------------------------------------
(* The inductive invariant.                                                *)
LEMMA RemappingInvariant ==
    ASSUME Layout
    PROVE  Spec => []RemappingInv
  <1>1. Init => RemappingInv
    <2>1. SUFFICES ASSUME Init PROVE RemappingInv OBVIOUS
    <2>2. RemappingTypes
      <3>1. Idle \in [pc : {"idle", "locking", "sent", "answered"}, wait : SUBSET Pairs] BY DEF Idle
      <3> QED BY <2>1, <3>1, ChunksType DEF Init, RemappingTypes
    <2>3. Quiet BY <2>1 DEF Init, Quiet, Idle
    <2>4. \A k \in Keys : records[k] \in Choices BY <2>1 DEF Init, Choices
    <2>5. \A r \in Requests : ReqOK(r) BY <2>1 DEF Init, ReqOK, Open, Idle
    <2>6. ASSUME NEW t \in Servers PROVE TransferOK(t)
      <3>1. InFlight(t) = {} BY <2>1 DEF Init, InFlight
      <3>2. Cardinality(InFlight(t)) = moving[t] BY <2>1, <3>1, FS_EmptySet DEF Init
      <3> QED BY <2>1, <3>1, <3>2 DEF Init, TransferOK
    <2>7. /\ \A s \in Servers : \A e \in buffer[s] : e[2] = failed
          /\ msgs = {} /\ before = {} /\ syncing = {}
      BY <2>1 DEF Init
    <2> QED BY <2>2, <2>3, <2>4, <2>5, <2>6, <2>7 DEF RemappingInv
  <1>2. RemappingInv /\ [Next]_vars => RemappingInv'
    <2>1. SUFFICES ASSUME RemappingInv, [Next]_vars PROVE RemappingInv' OBVIOUS
    <2>2. CASE UNCHANGED vars
      <3>1. UNCHANGED <<failed, state, records, syncing, before, view, req, stored, buffer, moving, msgs>>
        BY <2>2 DEF vars, coordinatorVars, serverVars
      <3>2. RemappingTypes' /\ Quiet' BY <2>1, <3>1 DEF RemappingInv, RemappingTypes, Quiet
      <3>3. /\ \A m \in msgs : MsgOK(m)' <=> MsgOK(m)
            /\ \A r \in Requests : ReqOK(r)' <=> ReqOK(r)
        BY <3>1 DEF MsgOK, LockOK, LockedOK, SetOK, DoneOK, ReqOK, Open, Placed, Kept, Early, Late, Choices
      <3>4. /\ \A t \in Servers : TransferOK(t)' <=> TransferOK(t)
            /\ \A k \in Keys, c \in Servers : Arriving(k, c)' <=> Arriving(k, c)
        BY <3>1 DEF TransferOK, InFlight, Arriving
      <3>5. Choices' = Choices /\ (Late' <=> Late) BY <3>1 DEF Choices, Late
      <3>6. \A r \in before' : \A c \in Chunks(r) : Arriving(KeyOf[r], c)'
        BY <2>1, <3>1, <3>4, ChunksType DEF RemappingInv, RemappingTypes
      <3> QED BY <2>1, <3>1, <3>2, <3>3, <3>4, <3>5, <3>6 DEF RemappingInv
    <2>3. ASSUME NEW s \in Failing, Degrade(s) PROVE RemappingInv'
      BY <2>1, <2>3, DegradeKeeps
    <2>4. CASE Learn BY <2>1, <2>4, LearnKeeps
    <2>5. CASE Return BY <2>1, <2>5, ReturnKeeps
    <2>6. CASE Synchronize BY <2>1, <2>6, SynchronizeKeeps
    <2>7. ASSUME NEW r \in Requests, HandleDegradedSetRequest(r) PROVE RemappingInv'
      BY <2>1, <2>7, SetRequestKeeps
    <2>8. ASSUME NEW m \in msgs, Deliver(m) PROVE RemappingInv'
      BY <2>1, <2>8, LockRequestKeeps, LockResponseKeeps, DegradedSetKeeps, SetResponseKeeps,
         RemappedDataKeeps, SetKeeps, SetBackKeeps, MigratedKeeps DEF Deliver
    <2> QED BY <2>1, <2>2, <2>3, <2>4, <2>5, <2>6, <2>7, <2>8 DEF Next
  <1> QED BY <1>1, <1>2, PTL DEF Spec

(* For any number of data and parity servers (at least as many of the      *)
(* former as a SET goes to), keys and SETs: while a server is degraded,    *)
(* every SET that was answered is stored at the servers of its key, or the *)
(* record leads to the server that keeps the object, although clients      *)
(* propose different servers for the same key (RemappingRecordMap::insert, *)
(* RemappedBuffer::insert).                                                *)
THEOREM RecordsLead ==
    ASSUME Layout
    PROVE  Spec => []RecordLeads
  <1>1. RemappingInv => RecordLeads
    <2>1. SUFFICES ASSUME RemappingInv, state = "DEGRADED", NEW r \in Answered, NEW c \in Chunks(r)
                   PROVE  KeyOf[r] \in stored[c] \/ Kept(KeyOf[r], c)
      BY DEF RecordLeads
    <2>2. r \in Requests /\ req[r].pc = "answered" /\ ReqOK(r) /\ Early
      BY <2>1 DEF Answered, RemappingInv, Early
    <2> QED BY <2>2 DEF ReqOK, Open, Placed
  <1> QED BY <1>1, RemappingInvariant, PTL

(* In the same setting, when the server is back to normal, the objects of  *)
(* all SETs that were answered before it began to return are at all        *)
(* servers of their keys, in whatever order the servers migrate them       *)
(* (decrementRemapDataRequest).                                            *)
THEOREM AllMigrated ==
    ASSUME Layout
    PROVE  Spec => []AnsweredMigrated
  <1>1. RemappingInv => AnsweredMigrated
    <2>1. SUFFICES ASSUME RemappingInv, state = "RETURNED", NEW r \in before, NEW c \in Chunks(r)
                   PROVE  KeyOf[r] \in stored[c]
      BY DEF AnsweredMigrated
    <2>2. /\ Arriving(KeyOf[r], c) /\ syncing = {} /\ KeyOf[r] \in Keys
      BY <2>1, ChunksType DEF RemappingInv, RemappingTypes
    <2>3. ASSUME NEW t \in Servers PROVE Migrate(t) \notin msgs /\ Sent(t, KeyOf[r]) \notin msgs
      <3>1. TransferOK(t) BY <2>1 DEF RemappingInv
      <3>2. Migrate(t) \notin msgs /\ InFlight(t) = {} BY <2>2, <3>1 DEF TransferOK
      <3>3. <<KeyOf[r], failed>> \in Keys \X {failed} /\ <<KeyOf[r], failed>>[1] = KeyOf[r] BY <2>2
      <3> QED BY <3>2, <3>3 DEF InFlight
    <2> QED BY <2>2, <2>3 DEF Arriving
  <1> QED BY <1>1, RemappingInvariant, PTL
=============================================================================
