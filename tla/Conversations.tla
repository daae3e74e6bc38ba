---------------------------- MODULE Conversations ----------------------------
(***************************************************************************)
(* Who says what to whom.                                                  *)
(*                                                                         *)
(* A handler that has something to say builds an event with a constructor; *)
(* dispatch turns the event's type into a header, a magic number with an   *)
(* opcode; the receiver looks the two up in switches of its own.  The      *)
(* tables are kept by hand in eight event classes and ten switches.  The   *)
(* module follows one conversation from the message that opens it: a       *)
(* request is handled in stages, each of which sends requests to others    *)
(* and waits for all answers, and ends with the answer to the request.     *)
(* What the requests do to the data is the subject of other modules.       *)
(***************************************************************************)
EXTENDS Naturals, Sequences, FiniteSets

CONSTANT Gaps       \* with the handlers that never answer

VARIABLES
    msgs,           \* messages under way
    jobs            \* requests that are being handled
conversationsVars == <<msgs, jobs>>

\* The key's own server, another data server of the stripe, the parity server, and
\* the server that stands in for one that failed.
Servers == {"data", "data2", "parity", "other"}
Kind(p) == IF p \in Servers THEN "server" ELSE p

-----------------------------------------------------------------------------
(***************************************************************************)
(* Headers                                                                 *)
(***************************************************************************)

Opcodes ==
    {"REGISTER", "REGISTER_NAMED_PIPE",
     "SYNC", "SERVER_CONNECTED", "SEAL_CHUNKS", "FLUSH_CHUNKS", "RECONSTRUCTION",
     "RECONSTRUCTION_UNSEALED", "SYNC_META", "RELEASE_DEGRADED_LOCKS",
     "SERVER_RECONSTRUCTED", "BACKUP_SERVER_PROMOTED", "PARITY_MIGRATE",
     "GET", "SET", "UPDATE", "DELETE", "UPDATE_CHECK", "DELETE_CHECK",
     "DEGRADED_GET", "DEGRADED_UPDATE", "DEGRADED_DELETE", "DEGRADED_SET",
     "DEGRADED_LOCK", "ACK_METADATA", "ACK_PARITY_DELTA", "REVERT_DELTA",
     "REMAPPING_LOCK",
     "SEAL_CHUNK", "UPDATE_CHUNK", "DELETE_CHUNK", "GET_CHUNK", "SET_CHUNK",
     "SET_CHUNK_UNSEALED", "FORWARD_CHUNK", "FORWARD_KEY", "REMAPPED_UPDATE",
     "REMAPPED_DELETE", "BATCH_CHUNKS", "BATCH_KEY_VALUES", "UPDATE_CHUNK_CHECK",
     "DELETE_CHUNK_CHECK"}

Header(magic, to, opcode) == [magic |-> magic, to |-> to, opcode |-> opcode]
Message(from, to, header) == [from |-> from, to |-> to, header |-> header]
Result(ok) == IF ok THEN "SUCCESS" ELSE "FAILURE"

\* Protocol::parseHeader
parseHeader(receiver, h) == h.to = receiver /\ h.opcode \in Opcodes

-----------------------------------------------------------------------------
(***************************************************************************)
(* Events and what dispatch makes of them.  The first operator of each     *)
(* pair stands for the constructors: the type of the event that answers    *)
(* an opcode.                                                              *)
(***************************************************************************)

Degraded == {"DEGRADED_GET", "DEGRADED_UPDATE", "DEGRADED_DELETE"}
Plainly(op) ==
    CASE op = "DEGRADED_GET"    -> "GET"
      [] op = "DEGRADED_UPDATE" -> "UPDATE"
      [] op = "DEGRADED_DELETE" -> "DELETE"
      [] OTHER                  -> op

\* A server answers a client: GET, UPDATE and DELETE have one type for both opcodes.
ServerClientEvent(op) == [type |-> Plainly(op), isDegraded |-> op \in Degraded]
ServerClientDispatch(e, ok) ==
    Header(IF e.type = "ACK_PARITY_DELTA" THEN "ACKNOWLEDGEMENT" ELSE Result(ok),
           "client",
           IF e.isDegraded
           THEN CHOOSE op \in Degraded : Plainly(op) = e.type
           ELSE e.type)

\* A mutant: the answer to batched chunks has a type of its own.
ServerPeerEventLiteral(op) == op

\* A server answers another: there is no type for checked deltas, for single and
\* batched chunks apart, and for unsealed chunks.
ServerPeerEvent(op) ==
    CASE op = "UPDATE_CHUNK_CHECK" -> "UPDATE_CHUNK"
      [] op = "DELETE_CHUNK_CHECK" -> "DELETE_CHUNK"
      [] op = "SET_CHUNK_UNSEALED" -> "SET_CHUNK"
      [] op = "BATCH_CHUNKS"       -> "GET_CHUNK"
      [] op = "BATCH_KEY_VALUES"   -> "UNSEALED_KEYS"
      [] OTHER                     -> op

\* What dispatch sends for the types about objects, and for those about chunks.
ObjectResponses(ok) ==
    [t \in {"REGISTER", "SET", "FORWARD_KEY", "GET", "UPDATE", "DELETE", "REMAPPED_UPDATE",
            "REMAPPED_DELETE"} |-> Header(Result(ok), "server", t)]
ChunkResponses(ok) ==
    [t \in {"UPDATE_CHUNK", "DELETE_CHUNK", "GET_CHUNK", "SET_CHUNK", "FORWARD_CHUNK",
            "UNSEALED_KEYS"} |->
        Header(Result(ok), "server", IF t = "UNSEALED_KEYS" THEN "BATCH_KEY_VALUES" ELSE t)]
ServerPeerDispatch(type, ok) ==
    CASE type \in DOMAIN ObjectResponses(ok) -> ObjectResponses(ok)[type]
      [] type \in DOMAIN ChunkResponses(ok) -> ChunkResponses(ok)[type]
      [] OTHER -> Header(Result(ok), "nobody", type)

\* A server answers the coordinator, which it only does when it succeeds.
ServerCoordinatorEvent(op) ==
    IF op = "SERVER_RECONSTRUCTED" THEN "SERVER_RECONSTRUCTED_MESSAGE_RESPONSE" ELSE op
ServerCoordinatorDispatch(type) ==
    Header("SUCCESS", "coordinator",
           IF type = "SERVER_RECONSTRUCTED_MESSAGE_RESPONSE"
           THEN "SERVER_RECONSTRUCTED" ELSE type)

\* The coordinator answers a client: a lock that is held by another, is not there or
\* is not needed is a failure.
DegradedLockEvents == {"IS_LOCKED", "WAS_LOCKED", "NOT_LOCKED", "NOT_FOUND", "REMAPPED"}
CoordinatorClientEvents(op) ==
    CASE op = "DEGRADED_LOCK"  -> DegradedLockEvents
      [] op = "REMAPPING_LOCK" -> {"SET_LOCK_SUCCESS", "SET_LOCK_FAILURE"}
      [] OTHER                 -> {"REGISTER_SUCCESS", "REGISTER_FAILURE"}
CoordinatorClientDispatch(type) ==
    CASE type \in DegradedLockEvents ->
            Header(Result(type = "IS_LOCKED"), "client", "DEGRADED_LOCK")
      [] type \in {"SET_LOCK_SUCCESS", "SET_LOCK_FAILURE"} ->
            Header(Result(type = "SET_LOCK_SUCCESS"), "client", "REMAPPING_LOCK")
      [] OTHER -> Header(Result(type = "REGISTER_SUCCESS"), "client", "REGISTER")

\* The coordinator answers a server.
CoordinatorServerDispatch(op, ok) ==
    Header(IF op = "SYNC" THEN "SUCCESS" ELSE Result(ok), "server", op)

\* A client answers an application.
ApplicationDispatch(op, ok) == Header(Result(ok), "application", op)

\* The headers a request may be answered with.
Answers(p, q, op) ==
    CASE Kind(p) = "server" /\ Kind(q) = "client" ->
            {ServerClientDispatch(ServerClientEvent(op), ok) : ok \in BOOLEAN}
      [] Kind(p) = "server" /\ Kind(q) = "server" ->
            {ServerPeerDispatch(ServerPeerEvent(op), ok) : ok \in BOOLEAN}
      [] Kind(p) = "server" /\ Kind(q) = "coordinator" ->
            {ServerCoordinatorDispatch(ServerCoordinatorEvent(op))}
      [] p = "coordinator" /\ Kind(q) = "client" ->
            {CoordinatorClientDispatch(t) : t \in CoordinatorClientEvents(op)}
      [] p = "coordinator" /\ Kind(q) = "server" ->
            {CoordinatorServerDispatch(op, ok) : ok \in BOOLEAN}
      [] OTHER -> {ApplicationDispatch(op, ok) : ok \in BOOLEAN}

\* Requests are sent with the opcode of what is asked for, most with one magic number.
ApplicationRequest(op) == Header("REQUEST", "client", op)
ClientServerRequest(op) == Header("REQUEST", "server", op)
ClientCoordinatorRequest(op) ==
    CASE op = "LOADING_STATS" -> Header("LOADING_STATS", "coordinator", "REGISTER")
      [] op = "SYNC"          -> Header("HEARTBEAT", "coordinator", op)
      [] OTHER                -> Header("REQUEST", "coordinator", op)
CoordinatorClientRequest(op) ==
    IF op = "LOADING_STATS" THEN Header("LOADING_STATS", "client", "REGISTER")
    ELSE Header("ANNOUNCEMENT", "client", op)
Announcements == {"SERVER_CONNECTED", "SERVER_RECONSTRUCTED", "BACKUP_SERVER_PROMOTED"}
CoordinatorServerRequest(op) ==
    Header(CASE op = "PARITY_MIGRATE"  -> "REMAPPING"
             [] op \in Announcements   -> "ANNOUNCEMENT"
             [] OTHER                  -> "REQUEST", "server", op)
ServerCoordinatorRequest(op) ==
    Header(IF op = "SYNC" THEN "HEARTBEAT" ELSE "REQUEST", "coordinator", op)
ServerClientRequest(op) == Header("ACKNOWLEDGEMENT", "client", op)
ServerPeerRequest(op) == Header("REQUEST", "server", op)

Request(p, q, op) ==
    LET k == <<Kind(p), Kind(q)>>
    IN  Message(p, q,
            CASE p = "application"              -> ApplicationRequest(op)
              [] k = <<"client", "server">>      -> ClientServerRequest(op)
              [] k = <<"client", "coordinator">> -> ClientCoordinatorRequest(op)
              [] k = <<"coordinator", "client">> -> CoordinatorClientRequest(op)
              [] k = <<"coordinator", "server">> -> CoordinatorServerRequest(op)
              [] k = <<"server", "coordinator">> -> ServerCoordinatorRequest(op)
              [] k = <<"server", "client">>      -> ServerClientRequest(op)
              [] OTHER                           -> ServerPeerRequest(op))

-----------------------------------------------------------------------------
(***************************************************************************)
(* The switches over magic number and opcode.                              *)
(***************************************************************************)

Results == {"SUCCESS", "FAILURE"}
AnyMagic == Results \cup {"REQUEST", "HEARTBEAT", "ANNOUNCEMENT", "LOADING_STATS",
                          "REMAPPING", "ACKNOWLEDGEMENT"}

UnderstoodByApplication == Results \X {"REGISTER", "SET", "GET", "UPDATE", "DELETE"}

UnderstoodFromApplication == {"REQUEST"} \X {"REGISTER", "GET", "SET", "UPDATE", "DELETE"}

UnderstoodFromClient ==
    {"REQUEST"} \X {"REGISTER", "GET", "SET", "DEGRADED_SET", "UPDATE", "UPDATE_CHECK",
                    "DELETE", "DELETE_CHECK", "DEGRADED_GET", "DEGRADED_UPDATE",
                    "DEGRADED_DELETE", "ACK_PARITY_DELTA", "REVERT_DELTA"}

\* ACKNOWLEDGEMENT counts as success, and the opcode decides what was acknowledged.
UnderstoodByClientFromServer ==
    (Results \cup {"ACKNOWLEDGEMENT"}) \X
    {"REGISTER", "GET", "DEGRADED_GET", "SET", "DEGRADED_SET", "UPDATE",
     "DEGRADED_UPDATE", "DELETE", "DEGRADED_DELETE", "ACK_METADATA",
     "ACK_PARITY_DELTA", "REVERT_DELTA"}

UnderstoodByClientFromCoordinator ==
    ((Results \cup {"LOADING_STATS"}) \X {"REGISTER"})
    \cup (AnyMagic \X {"DEGRADED_LOCK", "SERVER_RECONSTRUCTED"})
    \cup (Results \X {"REMAPPING_LOCK"})

UnderstoodByCoordinatorFromClient ==
    {<<"REQUEST", "REGISTER">>, <<"REQUEST", "REMAPPING_LOCK">>,
     <<"REQUEST", "DEGRADED_LOCK">>, <<"HEARTBEAT", "SYNC">>}
    \cup ({"LOADING_STATS"} \X Opcodes)

UnderstoodByCoordinatorFromServer ==
    {<<"REQUEST", "REGISTER">>, <<"HEARTBEAT", "SYNC">>}
    \cup ({"SUCCESS"} \X {"RELEASE_DEGRADED_LOCKS", "SERVER_RECONSTRUCTED",
                          "RECONSTRUCTION", "RECONSTRUCTION_UNSEALED",
                          "BACKUP_SERVER_PROMOTED"})
    \cup (AnyMagic \X {"PARITY_MIGRATE"})

UnderstoodByServerFromCoordinator ==
    (Results \X {"REGISTER"})
    \cup (AnyMagic \X {"SERVER_CONNECTED", "SERVER_RECONSTRUCTED", "BACKUP_SERVER_PROMOTED",
                       "SEAL_CHUNKS", "FLUSH_CHUNKS", "SYNC_META", "RELEASE_DEGRADED_LOCKS",
                       "PARITY_MIGRATE", "SYNC"})
    \cup {<<"REQUEST", "RECONSTRUCTION">>, <<"SUCCESS", "RECONSTRUCTION">>,
          <<"REQUEST", "RECONSTRUCTION_UNSEALED">>}

ObjectsUnderstoodByPeer ==
    (Results \cup {"REQUEST"}) \X
    {"REGISTER", "SEAL_CHUNK", "FORWARD_KEY", "SET", "GET", "UPDATE", "DELETE",
     "REMAPPED_UPDATE", "REMAPPED_DELETE"}
ChunksUnderstoodByPeer ==
    ((Results \cup {"REQUEST"}) \X
     {"UPDATE_CHUNK", "UPDATE_CHUNK_CHECK", "DELETE_CHUNK", "DELETE_CHUNK_CHECK", "GET_CHUNK",
      "SET_CHUNK", "SET_CHUNK_UNSEALED", "FORWARD_CHUNK", "BATCH_KEY_VALUES"})
    \cup {<<"REQUEST", "BATCH_CHUNKS">>}
UnderstoodByPeer == ObjectsUnderstoodByPeer \cup ChunksUnderstoodByPeer

Understands(receiver, sender) ==
    CASE receiver = "application" -> UnderstoodByApplication
      [] receiver = "client" /\ sender = "application" -> UnderstoodFromApplication
      [] receiver = "client" /\ sender = "server" -> UnderstoodByClientFromServer
      [] receiver = "client" /\ sender = "coordinator" -> UnderstoodByClientFromCoordinator
      [] receiver = "coordinator" /\ sender = "client" -> UnderstoodByCoordinatorFromClient
      [] receiver = "coordinator" /\ sender = "server" -> UnderstoodByCoordinatorFromServer
      [] receiver = "server" /\ sender = "client" -> UnderstoodFromClient
      [] receiver = "server" /\ sender = "coordinator" -> UnderstoodByServerFromCoordinator
      [] OTHER -> UnderstoodByPeer

Accepted(m) ==
    /\ parseHeader(Kind(m.to), m.header)
    /\ <<m.header.magic, m.header.opcode>> \in Understands(Kind(m.to), Kind(m.from))

\* A mutant: every opcode has a pending set of its own.
PendingOfOpcode(op) == op

\* The pending set a request is kept in, and the set the handler of an answer erases
\* from.
PendingOf(op) ==
    CASE op \in Degraded -> Plainly(op)
      [] op \in {"UPDATE_CHUNK_CHECK", "DELETE_CHUNK_CHECK", "SET_CHUNK_UNSEALED",
                 "BATCH_CHUNKS"} -> ServerPeerEvent(op)
      [] OTHER -> op

-----------------------------------------------------------------------------
(***************************************************************************)
(* The stages of handling a request: in each, requests are sent and all    *)
(* answers awaited.                                                        *)
(***************************************************************************)

One(p, op) == {<<p, op>>}
Lock == One("coordinator", "DEGRADED_LOCK")
Survivors == {<<"data2", "GET_CHUNK">>, <<"parity", "GET_CHUNK">>}

ClientStages(op) ==
    CASE op = "SET" -> {<< {<<"data", "SET">>, <<"parity", "SET">>} >>,
                        << One("coordinator", "REMAPPING_LOCK"),
                           {<<"other", "DEGRADED_SET">>, <<"parity", "DEGRADED_SET">>} >>}
      [] op \in {"GET", "UPDATE", "DELETE"} ->
            {<<One("data", op)>>, <<Lock, One("data", op)>>, <<Lock, One("other", op)>>}
            \cup {<<Lock, One("other", d)>> : d \in {x \in Degraded : Plainly(x) = op}}
      [] OTHER -> {<<>>}

\* UPDATE and DELETE at the key's server send the delta to the parity servers, of the
\* chunk when it is sealed.  A remapped object is updated at the parity servers as
\* an object; its DELETE is not answered at all.
UpdateStages(p) ==
    IF p = "other" THEN {<<>>, <<One("parity", "REMAPPED_UPDATE")>>}
    ELSE {<<>>, <<One("parity", "UPDATE_CHUNK")>>, <<One("parity", "UPDATE")>>}
DeleteStages(p) ==
    IF p = "other" THEN {<<>>}
    ELSE {<<>>, <<One("parity", "DELETE_CHUNK")>>, <<One("parity", "DELETE")>>}

\* A degraded request rebuilds the chunk from k survivors, or reads the object of an
\* unsealed chunk from a parity server, unless that was done before.
DegradedStages(op) ==
    CASE op = "DEGRADED_GET" -> {<<>>, <<Survivors>>, <<One("parity", "GET")>>}
      [] op = "DEGRADED_UPDATE" ->
            {<<>>, <<One("parity", "UPDATE_CHUNK")>>,
             <<Survivors, One("parity", "UPDATE_CHUNK")>>,
             <<Survivors, One("parity", "UPDATE_CHUNK_CHECK")>>,
             <<One("parity", "GET"), One("parity", "UPDATE")>>}
      [] OTHER ->
            {<<>>, <<Survivors, One("parity", "DELETE_CHUNK_CHECK")>>,
             <<One("parity", "GET"), One("parity", "DELETE")>>}

\* What the coordinator asks of a server.
ReconstructionStages(op) ==
    CASE op = "RELEASE_DEGRADED_LOCKS" ->
            {<<>>, <<One("data", "SET_CHUNK")>>, <<One("data", "SET_CHUNK_UNSEALED")>>}
      [] op = "RECONSTRUCTION" ->
            {<<One("parity", "BATCH_CHUNKS"), One("other", "SET_CHUNK")>>}
      [] op = "RECONSTRUCTION_UNSEALED" -> {<<One("other", "BATCH_KEY_VALUES")>>}
      [] op = "PARITY_MIGRATE" -> {<<>>, <<One("data", "SET")>>}
      [] OTHER -> {<<>>}

Stages(p, op) ==
    CASE p = "client" -> ClientStages(op)
      [] p \in {"data", "other"} /\ op = "UPDATE" -> UpdateStages(p)
      [] p \in {"data", "other"} /\ op = "DELETE" -> DeleteStages(p)
      [] p = "other" /\ op \in Degraded -> DegradedStages(op)
      [] Kind(p) = "server" -> ReconstructionStages(op)
      [] OTHER -> {<<>>}

\* Which answers keep a request from going on to the next stage.
Refused(op, magic) == magic = "FAILURE" /\ op \in {"REMAPPING_LOCK", "GET"}

\* Messages that nobody answers.
OneWay(m) ==
    \/ m.header.magic = "LOADING_STATS"
    \/ m.header.opcode \in {"SERVER_CONNECTED", "SEAL_CHUNKS", "FLUSH_CHUNKS", "SYNC_META",
                            "SEAL_CHUNK", "ACK_METADATA"}
    \/ m.header.opcode = "SYNC" /\ m.from = "client"
    \/ m.header.opcode = "SERVER_RECONSTRUCTED" /\ m.to = "client"

\* The DELETE of a remapped object, and a degraded GET at a server that holds the
\* object itself: the answer to the forwarded key is not expected for a GET.
Forgotten(m) ==
    Gaps /\ m.to = "other" /\ m.header.opcode \in {"DELETE", "DEGRADED_GET"}

-----------------------------------------------------------------------------
(***************************************************************************)
(* Handling                                                                *)
(***************************************************************************)

\* What the process that opened a conversation says when it has the answer: a metadata
\* backup that the coordinator has is acknowledged to the client, the end of a
\* recovery to the server that took over.
LastWords(j) ==
    CASE j.op = "SYNC" -> {Request(j.at, "client", "ACK_METADATA")}
      [] j.op = "BACKUP_SERVER_PROMOTED" ->
            {Message(j.at, j.peer, CoordinatorServerDispatch("RECONSTRUCTION", TRUE))}
      [] OTHER -> {}

\* The next stage, or the answer when there is none.
Sends(j) ==
    CASE j.rest # <<>> -> {{Request(j.at, w[1], w[2]) : w \in Head(j.rest)}}
      [] j.rest = <<>> /\ j.opened -> {LastWords(j)}
      [] OTHER -> {{Message(j.at, j.peer, h)} : h \in Answers(j.at, j.peer, j.op)}
GoesOn(j) ==
    IF j.rest = <<>> THEN {}
    ELSE {[j EXCEPT !.rest = Tail(@), !.awaits = {<<w[1], PendingOf(w[2])>> : w \in Head(j.rest)}]}

\* ACKNOWLEDGEMENT answers the request that deltas be acknowledged.
IsAnswer(m) ==
    \/ m.header.magic \in Results
    \/ m.header.magic = "ACKNOWLEDGEMENT" /\ m.header.opcode = "ACK_PARITY_DELTA"
Answering(m) == <<m.from, PendingOf(m.header.opcode)>>
Waiting(m) == {j \in jobs : j.at = m.to /\ Answering(m) \in j.awaits}

\* A request arrives and is handled as far as its first stage.
HandleRequest(m) ==
    /\ Accepted(m) /\ ~ IsAnswer(m) /\ ~ OneWay(m) /\ ~ Forgotten(m)
    /\ \E s \in Stages(m.to, m.header.opcode) :
          LET j == [at |-> m.to, peer |-> m.from, op |-> m.header.opcode, opened |-> FALSE,
                    rest |-> s, awaits |-> {}]
          IN  /\ \E out \in Sends(j) : msgs' = (msgs \ {m}) \cup out
              /\ jobs' = jobs \cup GoesOn(j)

\* An answer erases what it answers from a pending set; the last one lets the request
\* go on.
HandleAnswer(m) ==
    /\ Accepted(m) /\ IsAnswer(m)
    /\ \E j \in Waiting(m) :
          IF j.awaits # {Answering(m)}
          THEN /\ jobs' = (jobs \ {j}) \cup {[j EXCEPT !.awaits = @ \ {Answering(m)}]}
               /\ msgs' = msgs \ {m}
          ELSE LET k == [j EXCEPT !.rest = IF Refused(m.header.opcode, m.header.magic)
                                           THEN <<>> ELSE @]
               IN  /\ \E out \in Sends(k) : msgs' = (msgs \ {m}) \cup out
                   /\ jobs' = (jobs \ {j}) \cup GoesOn(k)

\* Nothing is done for a message without a case in the switch, an answer that nobody
\* waits for, or a message that needs no answer.
Ignored(m) ==
    \/ ~ Accepted(m) \/ Forgotten(m)
    \/ IF IsAnswer(m) THEN Waiting(m) = {} ELSE OneWay(m)
HandleOther(m) ==
    /\ Ignored(m)
    /\ msgs' = msgs \ {m}
    /\ UNCHANGED jobs

-----------------------------------------------------------------------------
\* What opens a conversation.
Openings ==
    ({"application"} \X {"client"} \X {"REGISTER", "GET", "SET", "UPDATE", "DELETE"})
    \cup ({"client"} \X {"coordinator"} \X {"REGISTER", "SYNC", "LOADING_STATS"})
    \cup ({"client"} \X {"data"} \X {"REGISTER", "ACK_PARITY_DELTA", "REVERT_DELTA"})
    \cup ({"coordinator"} \X {"client"} \X {"LOADING_STATS", "SERVER_RECONSTRUCTED"})
    \cup ({"coordinator"} \X {"data2", "other"} \X
          {"SERVER_CONNECTED", "SEAL_CHUNKS", "FLUSH_CHUNKS", "SYNC_META",
           "RELEASE_DEGRADED_LOCKS", "BACKUP_SERVER_PROMOTED", "SERVER_RECONSTRUCTED",
           "PARITY_MIGRATE"})
    \cup ({"coordinator"} \X {"data2"} \X {"RECONSTRUCTION", "RECONSTRUCTION_UNSEALED"})
    \cup ({"data"} \X {"coordinator"} \X {"REGISTER", "SYNC"})
    \cup ({"data"} \X {"parity"} \X {"REGISTER", "SEAL_CHUNK"})
    \cup ({"other"} \X {"parity"} \X {"FORWARD_KEY", "FORWARD_CHUNK"})

Opened(o) ==
    LET m == Request(o[1], o[2], o[3])
    IN  /\ msgs = {m}
        /\ jobs = IF OneWay(m) THEN {}
                  ELSE {[at |-> o[1], peer |-> o[2], op |-> o[3], opened |-> TRUE,
                         rest |-> <<>>, awaits |-> {<<o[2], PendingOf(o[3])>>}]}

ConversationsInit == \E o \in Openings : Opened(o)

ConversationsNext ==
    \E m \in msgs :
        HandleRequest(m) \/ HandleAnswer(m) \/ HandleOther(m)

-----------------------------------------------------------------------------
(***************************************************************************)
(* Properties                                                              *)
(***************************************************************************)

\* What a process sends, the process that receives it has a case for.
Understood == \A m \in msgs : Accepted(m)

\* When no message is under way nobody waits for an answer: every request was
\* answered, by the opcode its sender looks for.
Answered == msgs = {} => jobs = {}
=============================================================================
