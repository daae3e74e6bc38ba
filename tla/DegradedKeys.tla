---------------------------- MODULE DegradedKeys ----------------------------
(***************************************************************************)
(* Degraded requests for a key whose chunk was not sealed when its data    *)
(* server failed.  Parity servers keep such objects one by one in their    *)
(* chunk buffers.  The server the chunk is redirected to fetches the       *)
(* object from one of them (GET), keeps it in its degraded map and changes *)
(* it there; the parity servers get the changes.  Requests that come while *)
(* the object is fetched wait for it under its key.                        *)
(*                                                                         *)
(* The object is the set of updates it holds; requests update different    *)
(* parts of it.  Where the code goes on with memory it has freed anything  *)
(* may happen: `corrupt' is set and the behaviour ends.                    *)
(*                                                                         *)
(* The server is neither the data server nor a parity server of the        *)
(* stripe, so that performDegradedRead never finds itself (socket->self)   *)
(* and forwards no key (FORWARD_KEY).  BasicRemappingScheme::redirect      *)
(* excludes them if a stripe has as many data servers as a key has         *)
(* servers.  The data server, when parity servers are redirected, gets     *)
(* there with a DELETE, which the handler is not ready for                 *)
(* (degraded_worker.cc:690), or with an UPDATE of a key it does not have.  *)
(***************************************************************************)
EXTENDS Naturals, FiniteSets, FiniteSetsExt, Sequences, SequencesExt

CONSTANTS
    Ops,      \* Ops[r]: "GET", "UPDATE" or "DELETE", what request r asks for
    Parity,   \* the parity servers of the stripe list
    Gone,     \* those redirected to other data servers
    Sealing,  \* those that a SEAL_CHUNK of the data server may still reach
    Pool,     \* TRUE: several workers handle messages at once
    None

Requests == DOMAIN Ops
Surviving == Parity \ Gone

VARIABLES
    at,             \* at[r]: client, found, read, reread, waiting or done
    value,          \* the object in the degraded map, unsealed.values
    waiting,        \* the requests under the key in degraded.keys
    reconstructed,  \* the key is in degraded.reconstructedKeys
    freed,          \* UPDATEs whose operands were freed
    batch,          \* batch[r]: requests served by the response to r's GET
    object,         \* object[p]: the object in the chunk buffer of parity server p
    peers,          \* peers[r]: parity servers that have not responded to r
    answers,        \* answers[r]: the answers sent to the client
    floor,          \* floor[r]: updates acknowledged when r arrived
    misplaced,      \* parity servers with a delta at a place it is not for
    corrupt,        \* freed memory has been used
    msgs

vars == <<at, value, waiting, reconstructed, freed, batch, object, peers, answers, floor,
          misplaced, corrupt, msgs>>

Init ==
    /\ at = [r \in Requests |-> "client"]
    /\ value = None
    /\ waiting = <<>>
    /\ reconstructed = FALSE
    /\ freed = {}
    /\ batch = [r \in Requests |-> None]
    /\ object = [p \in Parity |-> {}]
    /\ peers = [r \in Requests |-> {}]
    /\ answers = [r \in Requests |-> <<>>]
    /\ floor = [r \in Requests |-> {}]
    /\ misplaced = {}
    /\ corrupt = FALSE
    /\ msgs = {}

(* One worker finishes a handler before it takes the next event.           *)
Free == Pool \/ \A r \in Requests : at[r] \notin {"found", "read", "reread"} /\ batch[r] = None

Answer(r, ok, val) == answers' = [answers EXCEPT ![r] = Append(@, [ok |-> ok, val |-> val])]

Acknowledged == {r \in Requests : Ops[r] = "UPDATE" /\ \E i \in DOMAIN answers[r] : answers[r][i].ok}

(* sendModifyChunkRequest for an unsealed chunk: the entries of all parity *)
(* servers are pending before the first request is sent.                   *)
Modify(r) ==
    /\ peers' = [peers EXCEPT ![r] = Parity]
    /\ msgs' = msgs \cup {[type |-> Ops[r], to |-> p, req |-> r] : p \in Parity}

-----------------------------------------------------------------------------
(* The flow of handleDegradedGetRequest, handleDegradedUpdateRequest and    *)
(* handleDegradedDeleteRequest: the object that is found is used after the  *)
(* lock of the map is given back.                                          *)

(* DegradedMap::findValueByKey in unsealed.values                          *)
findValueByKey == value # None

Place(r, next) == at' = [at EXCEPT ![r] = next]

Arrive(r) ==
    /\ Free
    /\ at[r] = "client"
    /\ floor' = [floor EXCEPT ![r] = Acknowledged]
    /\ Place(r, IF findValueByKey THEN "found" ELSE "read")
    /\ UNCHANGED <<value, waiting, reconstructed, freed, batch, object, peers, answers,
                   misplaced, corrupt, msgs>>

(* DegradedMap::deleteValue; the key is remembered as deleted, so that the *)
(* data server is told when it is back.                                    *)
deleteValue == value' = None

(* DegradedChunkBuffer::deleteKey of an object that is not sealed          *)
deleteKey == deleteValue

(* The delta of an update is its difference to the object: applied to the  *)
(* object here, and to those of the parity servers.                        *)
Applied(v, r) == SymDiff(v, {r})

Using(r) ==
    /\ at[r] = "found"
    /\ Place(r, "done")
    /\ UNCHANGED <<waiting, reconstructed, freed, batch, object, floor, misplaced>>

UseFreed(r) ==
    /\ Using(r)
    /\ value = None /\ Ops[r] # "DELETE"
    /\ corrupt' = TRUE
    /\ UNCHANGED <<value, peers, answers, msgs>>

UseGet(r) ==
    /\ Using(r)
    /\ value # None /\ Ops[r] = "GET"
    /\ Answer(r, TRUE, value)
    /\ UNCHANGED <<value, peers, corrupt, msgs>>

UseUpdate(r) ==
    /\ Using(r)
    /\ value # None /\ Ops[r] = "UPDATE"
    /\ value' = Applied(value, r)
    /\ Modify(r)
    /\ UNCHANGED <<answers, corrupt>>

UseDelete(r) ==
    /\ Using(r)
    /\ Ops[r] = "DELETE"
    /\ deleteKey
    /\ Modify(r)
    /\ UNCHANGED <<answers, corrupt>>

(* insertDegradedKey                                                       *)
Waits(r) == Append(waiting, r)

(* A surviving parity server is asked for the object.                      *)
ReadFrom(p, r) == msgs' = msgs \cup {[type |-> "FETCH", to |-> p, req |-> r]}

(* performDegradedRead, and what the handlers do with its result: the      *)
(* first request fetches the object from a surviving parity server, others *)
(* wait for it.  That server is another one: see above.  An UPDATE that    *)
(* has to wait is refused, its operands are freed, and it waits            *)
(* nevertheless.                                                           *)
Read(r) ==
    /\ at[r] \in {"read", "reread"}
    /\ ~reconstructed
    /\ Place(r, "waiting")
    /\ waiting' = Waits(r)
    /\ IF waiting = <<>>
       THEN /\ \E p \in Surviving : ReadFrom(p, r)
            /\ UNCHANGED <<freed, answers>>
       ELSE /\ IF Ops[r] = "UPDATE"
               THEN Answer(r, FALSE, {}) /\ freed' = freed \cup {r}
               ELSE UNCHANGED <<freed, answers>>
            /\ UNCHANGED msgs
    /\ UNCHANGED <<value, reconstructed, batch, object, peers, floor, misplaced, corrupt>>

(* The object has been fetched before.  GET looks it up once more; UPDATE  *)
(* and DELETE turn to the server's own objects, where the key is not.      *)
ReadAgain(r) ==
    /\ at[r] \in {"read", "reread"}
    /\ reconstructed
    /\ IF Ops[r] = "GET" /\ at[r] = "read"
       THEN /\ Place(r, IF findValueByKey THEN "found" ELSE "reread")
            /\ UNCHANGED answers
       ELSE Place(r, "done") /\ Answer(r, FALSE, {})
    /\ UNCHANGED <<value, waiting, reconstructed, freed, batch, object, peers, floor, misplaced,
                   corrupt, msgs>>

-----------------------------------------------------------------------------
(* Parity servers *)

(* ParityChunkBuffer::findValueByKey                                       *)
Holds(p) == object[p] # None

(* handleGetRequest of a server peer: the object in the chunk buffer       *)
Fetch(m) ==
    /\ m.type = "FETCH"
    /\ msgs' = (msgs \ {m}) \cup {[type |-> "FETCHED", to |-> m.to, req |-> m.req,
                                   ok |-> Holds(m.to), val |-> object[m.to]]}
    /\ UNCHANGED <<at, value, waiting, reconstructed, freed, batch, object, peers, answers,
                   floor, misplaced, corrupt>>

Responds(p, r) == {[type |-> "MODIFIED", to |-> p, req |-> r]}

(* handleUpdateRequest and handleDeleteRequest of a server peer.  A server *)
(* in place of a parity server has nothing to change.  At a parity server  *)
(* that has sealed the chunk, the delta is added where the object began.   *)
ModifyObject(m) ==
    LET p == m.to
    IN /\ m.type \in {"UPDATE", "DELETE"}
       /\ object' = IF p \in Gone \/ ~Holds(p) THEN object
                    ELSE [object EXCEPT ![p] = IF m.type = "UPDATE" THEN Applied(@, m.req)
                                                                    ELSE None]
       /\ misplaced' = IF m.type = "UPDATE" /\ p \notin Gone /\ ~Holds(p)
                       THEN misplaced \cup {p} ELSE misplaced
       /\ msgs' = (msgs \ {m}) \cup Responds(p, m.req)
       /\ UNCHANGED <<at, value, waiting, reconstructed, freed, batch, peers, answers, floor,
                      corrupt>>

(* SEAL_CHUNK: the object leaves the chunk buffer for the parity chunk.    *)
Seal(p) ==
    /\ p \in Sealing
    /\ Holds(p)
    /\ object' = [object EXCEPT ![p] = None]
    /\ UNCHANGED <<at, value, waiting, reconstructed, freed, batch, peers, answers, floor,
                   misplaced, corrupt, msgs>>

-----------------------------------------------------------------------------
(* Responses at the server the chunk is redirected to *)

(* handleUpdateResponse: the client is answered with the last response.    *)
(* handleDeleteResponse looks under the client's identifier and finds      *)
(* nothing.                                                                *)
Modified(m) ==
    LET left == peers[m.req] \ {m.to}
    IN /\ m.type = "MODIFIED"
       /\ Free
       /\ msgs' = msgs \ {m}
       /\ IF Ops[m.req] = "UPDATE"
          THEN /\ peers' = [peers EXCEPT ![m.req] = left]
               /\ IF left = {} THEN Answer(m.req, TRUE, {}) ELSE UNCHANGED answers
          ELSE UNCHANGED <<peers, answers>>
       /\ UNCHANGED <<at, value, waiting, reconstructed, freed, batch, object, floor, misplaced,
                      corrupt>>

(* DegradedMap::deleteDegradedKey                                          *)
deleteDegradedKey(ok) == waiting' = <<>> /\ reconstructed' = (reconstructed \/ ok)

(* handleGetResponse takes the waiting requests off the map ...            *)
Fetched(m) ==
    /\ m.type = "FETCHED"
    /\ Free
    /\ msgs' = msgs \ {m}
    /\ deleteDegradedKey(m.ok)
    /\ batch' = [batch EXCEPT ![m.req] = [todo |-> waiting, ok |-> m.ok, val |-> m.val,
                                          inserted |-> FALSE]]
    /\ UNCHANGED <<at, value, freed, object, peers, answers, floor, misplaced, corrupt>>

(* ... and serves them one by one.  The first GET or UPDATE puts the       *)
(* object into the degraded map, and the others share its memory, which a  *)
(* DELETE frees.                                                           *)
Current(f) == IF batch[f].inserted THEN value ELSE batch[f].val

Unsound(f, r) ==
    \/ r \in freed
    \/ batch[f].ok /\ Ops[r] = "DELETE" /\ (batch[f].inserted \/ Len(batch[f].todo) > 1)
    \/ batch[f].ok /\ Current(f) = None

Serving(f, r) ==
    /\ batch[f] # None
    /\ r = Head(batch[f].todo)
    /\ Place(r, "done")
    /\ batch' = [batch EXCEPT ![f] = IF Len(@.todo) = 1 THEN None
                    ELSE [@ EXCEPT !.todo = Tail(@), !.inserted = batch[f].ok]]
    /\ UNCHANGED <<waiting, reconstructed, freed, object, floor, misplaced>>

ServeFreed(f, r) ==
    /\ Serving(f, r)
    /\ Unsound(f, r)
    /\ corrupt' = TRUE
    /\ UNCHANGED <<value, peers, answers, msgs>>

(* Whatever was asked for, the parity server does not have the object.     *)
ServeNone(f, r) ==
    /\ Serving(f, r)
    /\ ~Unsound(f, r) /\ ~batch[f].ok
    /\ Answer(r, FALSE, {})
    /\ UNCHANGED <<value, peers, corrupt, msgs>>

(* DegradedMap::insertValue                                                *)
insertValue(v) == value' = v

ServeGet(f, r) ==
    /\ Serving(f, r)
    /\ ~Unsound(f, r) /\ batch[f].ok /\ Ops[r] = "GET"
    /\ insertValue(Current(f))
    /\ Answer(r, TRUE, Current(f))
    /\ UNCHANGED <<peers, corrupt, msgs>>

ServeUpdate(f, r) ==
    /\ Serving(f, r)
    /\ ~Unsound(f, r) /\ batch[f].ok /\ Ops[r] = "UPDATE"
    /\ insertValue(Applied(Current(f), r))
    /\ Modify(r)
    /\ UNCHANGED <<answers, corrupt>>

ServeDelete(f, r) ==
    /\ Serving(f, r)
    /\ ~Unsound(f, r) /\ batch[f].ok /\ Ops[r] = "DELETE"
    /\ deleteValue
    /\ Modify(r)
    /\ UNCHANGED <<answers, corrupt>>

Next ==
    /\ ~corrupt
    /\ \/ \E r \in Requests : Arrive(r) \/ Read(r) \/ ReadAgain(r)
       \/ \E r \in Requests : UseFreed(r) \/ UseGet(r) \/ UseUpdate(r) \/ UseDelete(r)
       \/ \E m \in msgs : Fetch(m) \/ ModifyObject(m) \/ Modified(m) \/ Fetched(m)
       \/ \E f, r \in Requests :
             \/ ServeFreed(f, r) \/ ServeNone(f, r)
             \/ ServeGet(f, r) \/ ServeUpdate(f, r) \/ ServeDelete(f, r)
       \/ \E p \in Parity : Seal(p)

Spec == Init /\ [][Next]_vars

-----------------------------------------------------------------------------
Quiet == msgs = {} /\ ~corrupt /\ \A r \in Requests : at[r] \in {"client", "done", "waiting"} /\ batch[r] = None

Answered(r) == answers[r] # <<>>

(* When all is quiet every GET and UPDATE was answered: requests wait only *)
(* while the object is fetched (insertDegradedKey, deleteDegradedKey).     *)
KeysAnswered == Quiet => \A r \in Requests : at[r] # "client" /\ Ops[r] # "DELETE" => Answered(r)

(* While no freed memory is used, a request has one answer: an UPDATE that *)
(* was refused because it had to wait is not answered a second time.       *)
KeysOnce == \A r \in Requests : Len(answers[r]) <= 1

(* A GET reads every update acknowledged before it came, whether it waited *)
(* for the object, found it in the map or looked twice.                    *)
KeysRead == \A r \in Requests : \A i \in DOMAIN answers[r] :
                Ops[r] = "GET" /\ answers[r][i].ok => floor[r] \subseteq answers[r][i].val

(* An acknowledged UPDATE is in the objects of all surviving parity        *)
(* servers, and when all is quiet these are the object in the degraded     *)
(* map, if no parity server seals the chunk meanwhile.                     *)
KeysKept ==
    LET deleting == \E r \in Requests : Ops[r] = "DELETE" /\ at[r] # "client"
    IN Sealing = {} /\ ~deleting =>
        /\ \A p \in Surviving : Acknowledged \subseteq object[p]
        /\ Quiet /\ value # None => \A p \in Surviving : object[p] = value

(* With one worker, a GET is refused only if a parity server has sealed    *)
(* the chunk, or if a DELETE came before.                                  *)
KeysRefused ==
    ~Pool => \A r \in Requests : \A i \in DOMAIN answers[r] :
                Ops[r] = "GET" /\ ~answers[r][i].ok =>
                    \/ \E p \in Parity : object[p] = None
                    \/ \E d \in Requests : Ops[d] = "DELETE" /\ at[d] = "done"
=============================================================================
