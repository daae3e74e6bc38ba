------------------------------ MODULE MCClient ------------------------------
(* Three specifications of what clients keep, one of them chosen at the    *)
(* start: the deltas of UPDATEs and DELETEs that parity servers back up    *)
(* for them (ParityDelta, with requests in flight together or one at a     *)
(* time across the wrap-around of timestamps), the requests of             *)
(* applications (ClientRequests), and the metadata of SETs (MetadataSync). *)
EXTENDS ParityDelta, Timestamps, TLC
CONSTANTS o1, o2, o3, Deletes, s1, s2, s3, r1, r2, r3, r4, None, c1, k1, k2, x1,
          Servers, Requests, MaxIssued, MaxChanges, MaxBeats

VARIABLES
    unit,       \* the specification that is run
    state, changes, replaying, issued, hand, app, entries, locks, sent, replays,
    answers,
    now, stored, ops, sealed, owed, beatAck, beat, beats, requests, begun,
    known, chunks, metadata, toCoordinator, toServer, toClient, answered

requestVars == <<state, changes, replaying, issued, hand, app, entries, locks, sent,
                 replays, answers>>
metadataVars == <<now, stored, ops, sealed, owed, beatAck, beat, beats, requests, begun,
                  known, chunks, metadata, toCoordinator, toServer, toClient, answered>>

MCKind == [o \in Ops |-> IF o \in Deletes THEN "delete" ELSE "update"]

Serial == INSTANCE ParityDelta
    WITH FirstTs <- TsMod - 2, MaxOutstanding <- 1, InOrder <- TRUE

(* Two workers, and two requests at a time.                                *)
Pooled == INSTANCE ParityDelta WITH Workers <- 2, MaxOutstanding <- 2

MCOp == [r \in Requests |-> CASE r = r1 -> "SET" [] r = r2 -> "GET"
                              [] r = r3 -> "UPDATE" [] OTHER -> "DELETE"]

(* The object of the GET is large, with a part at each data server.        *)
R == INSTANCE ClientRequests
    WITH Clients <- {}, Parity <- {s3}, Op <- MCOp,
         Parts <- [r \in Requests |-> IF r = r2 THEN 2 ELSE 1],
         PartServer <- (0 :> s1 @@ 1 :> s2), KeyServer <- (0 :> s1 @@ 1 :> s1), Failing <- {s1}

M == INSTANCE MetadataSync
    WITH Clients <- {c1}, Keys <- {k1, k2}, Chunks <- {x1}, Deleting <- {k2},
         lastAck <- beatAck, backup <- metadata

MCInit ==
    /\ unit \in {"deltas", "pooled", "serial", "requests", "metadata"}
    /\ IF unit = "serial" THEN Serial!Init ELSE Init
    /\ R!Init
    /\ M!Init

MCNext ==
    /\ UNCHANGED unit
    /\ \/ unit = "deltas" /\ Next /\ UNCHANGED <<requestVars, metadataVars>>
       \/ unit = "pooled" /\ Pooled!Next /\ UNCHANGED <<requestVars, metadataVars>>
       \/ unit = "serial" /\ Serial!Next /\ UNCHANGED <<requestVars, metadataVars>>
       \/ unit = "requests" /\ R!Next /\ UNCHANGED <<vars, metadataVars>>
       \/ unit = "metadata" /\ M!Next /\ UNCHANGED <<vars, requestVars>>

MCSpec == MCInit /\ [][MCNext]_<<unit, vars, requestVars, metadataVars>>

(* The deltas of requests in flight together, alone.                       *)
DeltaSpec == unit = "deltas" /\ MCSpec

(* Nothing tells o1 and o2 apart.                                          *)
UpdateSymmetry == Permutations({o1, o2})

(* Acknowledging in batches bounds the backups of a client that has one    *)
(* request at a time: with no acknowledgement under way a parity server    *)
(* keeps at most a batch of them, and none is left that no acknowledgement *)
(* to come would drop, also when the timestamps wrap around.               *)
BackupsLimited == unit = "serial" => BackupsBounded /\ BackupsReclaimed

(* With one worker, an acknowledged range ends before every pending UPDATE *)
(* unless the first timestamp of all is pending (ackParityDelta).          *)
AckEndsBeforePendingByOne ==
    [][unit = "deltas" /\ 0 \notin PendingStamps("update") => EndsBeforePending]_vars

(* An application gets at most one answer to a GET, an UPDATE or a DELETE, *)
(* however often it is replayed and however late responses arrive; and an  *)
(* UPDATE or DELETE is carried out once at a time: a replay starts only    *)
(* when the client no longer expects an answer to the attempt before.      *)
AnsweredOnce == R!AnsweredOnce /\ R!OneAttempt

(* A request without an answer is not forgotten: it is among the           *)
(* application's requests or in the queue of replays.                      *)
NoneForgotten == R!NoneForgotten

(* A SET is answered when all servers it was sent to have answered, or     *)
(* what they were sent is replayed.                                        *)
SetByAll == R!SetByAll

(* Metadata that a client was told of survives a crash of the server: the  *)
(* coordinator knows it, or a message to the coordinator holds it, or a    *)
(* client has a backup.                                                    *)
MetadataDurable == M!MetadataDurable
=============================================================================
