----------------------------- MODULE MCServers -----------------------------
(* Specifications of what servers do when others fail, one of them chosen  *)
(* at the start: degraded requests on a stripe (DegradedOps) and           *)
(* for a key of an unsealed chunk (DegradedKeys, with one worker and with  *)
(* several), requests that wait for a failing parity server                *)
(* (ServerRequests, with one worker and with several), SETs that are       *)
(* redirected (Remapping, of one key and of two) and the recovery of       *)
(* crashed servers (Recovery).                                             *)
EXTENDS DegradedOps
CONSTANTS r1, r2, r3, p1, p2, k1, k2, s1, s2, s3, b1, b2

(* A data chunk redirected to the server that reconstructs it or to the    *)
(* parity server, and a parity chunk.                                      *)
LockSet == {[entries |-> <<[orig |-> 0, to |-> 1]>>, ongoing |-> 1],
            [entries |-> <<[orig |-> 0, to |-> K]>>, ongoing |-> 1],
            [entries |-> <<[orig |-> K, to |-> 1]>>, ongoing |-> 0]}

VARIABLES
    unit,       \* the specification that is run
    handled, todo, clients, peers, reported, crashed, refusing, replies, acked,
    modifyMsgs,
    failed, state, clientView, records, sets, stored, buffer, moving, syncing,
    before, remapMsgs,
    alive, ready, slotAt, backups, recovering, queue, triggers, work, recovery,
    recon, log, view, tasks, home, recoveryMsgs,
    keyAt, value, waiting, reconstructed, freed, batch, object, keyPeers, keyAnswers, floor,
    misplaced, corrupt, keyMsgs

modifyVars == <<handled, todo, clients, peers, reported, crashed, refusing, replies,
                acked, modifyMsgs>>
remapVars == <<failed, state, clientView, records, sets, stored, buffer, moving, syncing,
               before, remapMsgs>>
recoveryVars == <<alive, ready, slotAt, backups, recovering, queue, triggers, work,
                  recovery, recon, log, view, tasks, home, recoveryMsgs>>
keyVars == <<keyAt, value, waiting, reconstructed, freed, batch, object, keyPeers,
             keyAnswers, floor, misplaced, corrupt, keyMsgs>>

(* Two parity servers, one of them replaced by the data server or by a     *)
(* chunk that it forwards itself                                           *)
PooledUpdates ==
    r1 :> [op |-> "UPDATE", where |-> "sealed", targets |-> <<p1, p2>>]
    @@ r2 :> [op |-> "DELETE", where |-> "sealed", targets |-> <<"Gone", p2>>]
    @@ r3 :> [op |-> "UPDATE", where |-> "unsealed", targets |-> <<p2, "Self">>]

(* Objects that are remapped, not found or in no parity chunk              *)
SingleUpdates ==
    r1 :> [op |-> "UPDATE", where |-> "remapped", targets |-> <<p1, p2>>]
    @@ r2 :> [op |-> "DELETE", where |-> "unsealed", targets |-> <<p1, p2>>]
    @@ r3 :> [op |-> "UPDATE", where |-> "sealed", targets |-> <<"Self", "Gone">>]
    @@ p1 :> [op |-> "UPDATE", where |-> "absent", targets |-> <<p1, p2>>]

ParityServers == {p1, p2}
MixedOps == r1 :> "GET" @@ r2 :> "UPDATE" @@ r3 :> "DELETE"
TwoUpdates == r1 :> "UPDATE" @@ r2 :> "GET" @@ r3 :> "UPDATE"
OneFails == {p2}
TwoSets == {r1, r2}
TwoKeyOf == r1 :> k1 @@ r2 :> k2
TwoHomes == k1 :> 0 @@ k2 :> 0
OneKeyOf == r1 :> k1 @@ r2 :> k1
OneHome == k1 :> 0
SmallFails == {0, 2}
LargeFails == {0, K}
Ring == {s1, s2, s3}
BackupList == <<b1, b2>>
StripeLists == <<<<s1, s2, s3>>, <<s2, s3, s1>>>>
KnownChunks == [s \in Ring \cup {b1, b2} |-> IF s \in {s1, s2} THEN {<<1, 0>>} ELSE {}]
KnownKeys == [s \in Ring \cup {b1, b2} |-> IF s = s1 THEN {k1} ELSE {}]
KnownHighest == <<0, 1>>
KnownKeyList == k1 :> 1
TwoCrash == {s1, s2}

Pooled == INSTANCE ServerRequests WITH
    Updates <- PooledUpdates, Parity <- ParityServers, Failing <- ParityServers, Pool <- TRUE,
    at <- handled, answers <- replies, msgs <- modifyMsgs

Single == INSTANCE ServerRequests WITH
    Updates <- SingleUpdates, Parity <- ParityServers, Failing <- OneFails, Pool <- FALSE,
    at <- handled, answers <- replies, msgs <- modifyMsgs

TwoKeys == INSTANCE Remapping WITH
    K <- 2, Requests <- TwoSets, KeyOf <- TwoKeyOf, Home <- TwoHomes, Failing <- SmallFails,
    view <- clientView, req <- sets, msgs <- remapMsgs

OneKey == INSTANCE Remapping WITH
    Requests <- TwoSets, KeyOf <- OneKeyOf, Home <- OneHome, Failing <- LargeFails,
    view <- clientView, req <- sets, msgs <- remapMsgs

(* A server may crash while the recovery of another goes on.               *)
R == INSTANCE Recovery WITH
    Slots <- Ring, Backups <- BackupList, Lists <- 2, Members <- StripeLists,
    DataCount <- 2, Chunks <- KnownChunks, Highest <- KnownHighest, Keys <- KnownKeys,
    KeyList <- KnownKeyList, TaskSize <- 1, Crashing <- TwoCrash,
    at <- slotAt, msgs <- recoveryMsgs

(* A parity server has failed too, or seals the chunk meanwhile.           *)
ManyKeys == INSTANCE DegradedKeys WITH
    Ops <- MixedOps, Parity <- ParityServers, Gone <- OneFails, Sealing <- {}, Pool <- TRUE,
    at <- keyAt, peers <- keyPeers, answers <- keyAnswers, msgs <- keyMsgs

OneWorker == INSTANCE DegradedKeys WITH
    Ops <- TwoUpdates, Parity <- ParityServers, Gone <- {}, Sealing <- OneFails, Pool <- FALSE,
    at <- keyAt, peers <- keyPeers, answers <- keyAnswers, msgs <- keyMsgs

MCInit ==
    /\ unit \in {"degraded", "keys", "keys of one worker", "pooled", "single", "two keys", "one key", "recovery"}
    /\ Init /\ (unit # "degraded" => ~pool)
    /\ IF unit = "single" THEN Single!Init ELSE Pooled!Init
    /\ IF unit = "one key" THEN OneKey!Init ELSE TwoKeys!Init
    /\ R!Init
    /\ IF unit = "keys of one worker" THEN OneWorker!Init ELSE ManyKeys!Init

MCNext ==
    /\ UNCHANGED unit
    /\ \/ unit = "degraded" /\ Next /\ UNCHANGED <<modifyVars, remapVars, recoveryVars, keyVars>>
       \/ unit = "pooled" /\ Pooled!Next /\ UNCHANGED <<vars, remapVars, recoveryVars, keyVars>>
       \/ unit = "single" /\ Single!Next /\ UNCHANGED <<vars, remapVars, recoveryVars, keyVars>>
       \/ unit = "two keys" /\ TwoKeys!Next /\ UNCHANGED <<vars, modifyVars, recoveryVars, keyVars>>
       \/ unit = "one key" /\ OneKey!Next /\ UNCHANGED <<vars, modifyVars, recoveryVars, keyVars>>
       \/ unit = "keys" /\ ManyKeys!Next
             /\ UNCHANGED <<vars, modifyVars, remapVars, recoveryVars>>
       \/ unit = "keys of one worker" /\ OneWorker!Next
             /\ UNCHANGED <<vars, modifyVars, remapVars, recoveryVars>>
       \/ unit = "recovery" /\ R!Next /\ UNCHANGED <<vars, modifyVars, remapVars, keyVars>>

MCSpec == MCInit /\ [][MCNext]_<<unit, vars, modifyVars, remapVars, recoveryVars, keyVars>>

(* Degraded requests on a stripe only.                                     *)
DegradedSpec == unit = "degraded" /\ MCSpec

(* A client is answered when every parity server has responded; if some    *)
(* have failed, when these and the responses are as many as the request    *)
(* was sent to.  An UPDATE of an unsealed key is answered when it is in    *)
(* the objects of all surviving parity servers, and is read from then on.  *)
AnsweredAfterCount ==
    /\ unit = "pooled" => Pooled!AnsweredAfterCount
    /\ unit = "single" => Single!AnsweredAfterCount
    /\ unit = "keys" => ManyKeys!KeysKept /\ ManyKeys!KeysRead
    /\ unit = "keys of one worker" => OneWorker!KeysKept /\ OneWorker!KeysRead

(* No client waits for ever, if the request is for one parity server, or   *)
(* none of its parity servers fails: the revert answers what it drops.     *)
(* GETs and UPDATEs that wait for an unsealed key are answered, and once.  *)
NoneLeftWaiting ==
    /\ unit = "pooled" => Pooled!NoneLeftWaiting
    /\ unit = "single" => Single!NoneLeftWaiting
    /\ unit = "keys" => ManyKeys!KeysAnswered /\ ManyKeys!KeysOnce
    /\ unit = "keys of one worker" => OneWorker!KeysAnswered /\ OneWorker!KeysOnce
                                     /\ OneWorker!KeysRefused

(* While a server is degraded, every SET that was answered is stored at    *)
(* the servers of its key, or the coordinator's record for it leads to the *)
(* server that keeps the object.                                           *)
RecordLeads == IF unit = "one key" THEN OneKey!RecordLeads ELSE TwoKeys!RecordLeads

(* When a server is back to normal it has every object of a SET that was   *)
(* answered before it began to return, and so have all servers of the key. *)
AnsweredMigrated == IF unit = "one key" THEN OneKey!AnsweredMigrated ELSE TwoKeys!AnsweredMigrated

(* When the coordinator logs a recovery, the server that replaces the one  *)
(* that crashed has every chunk and every unsealed key of it, and what was *)
(* rebuilt went to the promoted server, never to the crashed one.          *)
RecoveredAll == R!RecoveredAll /\ R!SentToReplacement

(* No chunk decoded from the survivors is a mixture of versions, and when  *)
(* all is quiet a parity chunk, reconstructed or not, holds exactly the    *)
(* updates of the data chunks; those that waited behind a request for      *)
(* another chunk once, under some chunk.                                   *)
ChunksSound == DecodeClean /\ ParityCurrent
=============================================================================
