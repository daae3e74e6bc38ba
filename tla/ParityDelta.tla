---------------------------- MODULE ParityDelta ----------------------------
(***************************************************************************)
(* Parity delta backups.  A client stamps each UPDATE and DELETE request   *)
(* to a data server with the next timestamp of that server; a parity       *)
(* server keeps a backup of the delta it applied, so that the delta can be *)
(* undone if the data server fails.  After a response the client may tell  *)
(* the parity servers which range of timestamps needs no backup any more   *)
(* (ackParityDelta); when the data server leaves the normal state the      *)
(* client asks them to undo what it still waits for (revertDelta).         *)
(*                                                                         *)
(* One client, one data server and one parity server: clients, data        *)
(* servers and parity servers share no timestamps and no backups.          *)
(***************************************************************************)
EXTENDS Integers, FiniteSets, FiniteSetsExt, Sequences

CONSTANTS
    Ops,            \* UPDATE and DELETE requests
    Kind,           \* Kind[o]: "update" or "delete"
    TsMod,          \* 2^32: timestamps are uint32_t
    SharedIds,      \* requests with the application ID of one to another server
    FirstTs,        \* timestamp of the first request: 0 at a new client
    BatchSize,      \* ackBatchSize of the configuration
    Workers,        \* worker threads of the client
    MaxOutstanding, \* bound: requests in progress at a time
    InOrder         \* one event worker per process: messages keep their order

(* Who is in ackParityDelta: no one, the worker of a request, or the       *)
(* reader thread, in revertDelta.                                          *)
NoOne  == "no one"
Reader == "reader"

ASSUME DeltaAssumption ==
    /\ IsFiniteSet(Ops) /\ NoOne \notin Ops /\ Reader \notin Ops
    /\ Kind \in [Ops -> {"update", "delete"}]
    /\ SharedIds \subseteq Ops
    /\ TsMod \in Nat \ {0}
    /\ FirstTs \in 0 .. TsMod - 1
    /\ BatchSize \in Nat
    /\ {Workers, MaxOutstanding} \subseteq Nat \ {0}
    /\ InOrder \in BOOLEAN

Timestamps == 0 .. TsMod - 1

VARIABLES
    current,    \* timestamp.current of the data server at the client
    lastAck,    \* timestamp.lastAck
    opState,    \* opState[o]: how far the client is with the request
    ts,         \* ts[o]: its timestamp
    acker,      \* the thread in ackParityDelta and what it has read
    phase,      \* the client's state of the data server
    listed,     \* timestamps that revertDelta has listed
    forwarded,  \* requests whose delta is on its way to the parity server
    applied,    \* requests whose delta the parity server has applied
    undone,     \* requests whose delta it has undone
    backup,     \* requests whose delta it has a backup of
    channel,    \* messages from the client to the parity server
    passed,     \* history: requests that lastAck has overtaken on their way
    settled     \* history: requests with a response when the server failed

stampVars  == <<current, opState, ts>>
ackVars    == <<lastAck, acker>>
revertVars == <<phase, listed>>
parityVars == <<forwarded, applied, undone, backup>>
history    == <<passed, settled>>
vars == <<stampVars, ackVars, revertVars, parityVars, channel, history>>

Idle == [who |-> NoOne, pc |-> "idle", from |-> 0, to |-> 0, update |-> 0]

AckMessages    == [type : {"ack"}, from : Timestamps, to : Timestamps]
RevertMessages == [type : {"revert"}, stamps : SUBSET Timestamps]

OpStates == {"idle", "normal", "coordinated", "stamped", "degraded",
             "pending", "erased", "answered"}

TypeOK ==
    /\ current \in Timestamps
    /\ lastAck \in Timestamps
    /\ opState \in [Ops -> OpStates]
    /\ ts \in [Ops -> Timestamps]
    /\ acker \in [who : Ops \cup {NoOne, Reader}, pc : {"idle", "update", "del"},
                  from : Timestamps, to : Timestamps, update : Timestamps]
    /\ phase \in {"normal", "revert", "list", "list del", "intermediate", "wait"}
    /\ listed \subseteq Timestamps
    /\ forwarded \subseteq Ops
    /\ applied \subseteq forwarded
    /\ undone \subseteq applied
    /\ backup \subseteq applied
    /\ channel \in Seq(AckMessages \cup RevertMessages)
    /\ passed \subseteq Ops
    /\ settled \subseteq Ops

Init ==
    /\ current = FirstTs
    /\ lastAck = FirstTs
    /\ opState = [o \in Ops |-> "idle"]
    /\ ts = [o \in Ops |-> 0]
    /\ acker = Idle
    /\ phase = "normal"
    /\ listed = {}
    /\ forwarded = {}
    /\ applied = {}
    /\ undone = {}
    /\ backup = {}
    /\ channel = <<>>
    /\ passed = {}
    /\ settled = {}

-----------------------------------------------------------------------------
(* Timestamps                                                              *)

NextVal(t) == (t + 1) % TsMod

Before(t) == (t - 1) % TsMod

(* Timestamp::operator-: UINT32_MAX, not 2^32, is added on wrap-around.    *)
Minus(to, from) ==
    IF to < from THEN (to - from + TsMod - 1) % TsMod ELSE (to - from) % TsMod

(* The timestamps the server takes for from..to, both ends included.       *)
InRange(t, from, to) ==
    IF from > to THEN from <= t \/ t <= to ELSE from <= t /\ t <= to

-----------------------------------------------------------------------------
(* Requests at the client                                                  *)

PendingOps(kind) == {o \in Ops : Kind[o] = kind /\ opState[o] = "pending"}
PendingStamps(kind) == {ts[o] : o \in PendingOps(kind)}

(* Requests a worker thread is busy with, or whose response it is handling.*)
Busy == {o \in Ops : opState[o] \in {"normal", "coordinated", "stamped", "erased"}}
Outstanding == Busy \cup {o \in Ops : opState[o] = "pending"}

(* getServers: the flow of a request is decided from the server's state.   *)
GetServers(o) ==
    /\ opState[o] = "idle"
    /\ Cardinality(Busy) < Workers
    /\ Cardinality(Outstanding) < MaxOutstanding
    /\ opState' = [opState EXCEPT ![o] =
            IF phase = "normal" THEN "normal" ELSE "coordinated"]
    /\ UNCHANGED <<current, ts, ackVars, revertVars, parityVars, channel, history>>

(* The timestamp is taken in either flow.                                  *)
Stamp(o) ==
    /\ opState[o] \in {"normal", "coordinated"}
    /\ ts' = [ts EXCEPT ![o] = current]
    /\ current' = NextVal(current)
    /\ opState' = [opState EXCEPT ![o] =
            IF @ = "normal" THEN "stamped" ELSE "degraded"]
    /\ UNCHANGED <<ackVars, revertVars, parityVars, channel, history>>

(* insertUpdate or insertDel, and the request is sent.                     *)
SendRequest(o) ==
    /\ opState[o] = "stamped"
    /\ opState' = [opState EXCEPT ![o] = "pending"]
    /\ UNCHANGED <<current, ts, ackVars, revertVars, parityVars, channel, history>>

(* The response, sent once every parity server has answered: eraseUpdate   *)
(* or eraseDel.  A client that waits for DEGRADED does not accept it.      *)
HandleResponse(o) ==
    /\ opState[o] = "pending"
    /\ o \in applied
    /\ phase # "wait"
    /\ Cardinality(Busy) < Workers
    /\ opState' = [opState EXCEPT ![o] = "erased"]
    /\ UNCHANGED <<current, ts, ackVars, revertVars, parityVars, channel, history>>

-----------------------------------------------------------------------------
(* ackParityDelta                                                          *)

(* Mutant: lastAck is set at once, also if no acknowledgement follows.     *)
AckBeginAhead(who) ==
    /\ acker = Idle
    /\ \/ who = Reader /\ phase = "revert"
       \/ who \in Ops /\ opState[who] = "erased"
    /\ acker' = [who |-> who, pc |-> "update",
                 from |-> lastAck, to |-> current, update |-> current]
    /\ lastAck' = current
    /\ UNCHANGED <<stampVars, revertVars, parityVars, channel, history>>

(* Under ackParityDeltaBackupLock: lastAck and current are read.           *)
AckBegin(who) ==
    /\ acker = Idle
    /\ \/ who = Reader /\ phase = "revert"
       \/ who \in Ops /\ opState[who] = "erased"
    /\ acker' = [who |-> who, pc |-> "update",
                 from |-> lastAck, to |-> current, update |-> current]
    /\ UNCHANGED <<stampVars, lastAck, revertVars, parityVars, channel, history>>

(* Under updateLock: the smallest pending UPDATE.                          *)
AckReadUpdate ==
    /\ acker.pc = "update"
    /\ acker' = [acker EXCEPT !.pc = "del", !.update =
            IF PendingOps("update") = {} THEN acker.to
            ELSE Before(Min(PendingStamps("update")))]
    /\ UNCHANGED <<stampVars, lastAck, revertVars, parityVars, channel, history>>

(* Mutant: the older of the two is not looked for.                         *)
SmallAckedCurrent(to, update, del) == to

(* The timestamp up to which backups are acknowledged.  A pending DELETE   *)
(* counts only if an UPDATE is pending.                                    *)
SmallAcked(to, update, del) ==
    IF update < to THEN IF del < update THEN del ELSE update ELSE to

BelowThreshold(to, from) == Minus(to, from) < BatchSize

(* Requests on their way that no acknowledgement from lastAck on reaches.  *)
Overtaken(last) ==
    {o \in Ops : opState[o] \in {"stamped", "pending"} /\ ~InRange(ts[o], last, current)}

(* Under delLock: the smallest pending DELETE.  Unless the thread is in    *)
(* revertDelta (force), nothing happens below the threshold; otherwise the *)
(* event is dispatched and lastAck is set.                                 *)
AckFinish ==
    LET del == IF PendingOps("delete") = {} THEN acker.to
               ELSE Before(Min(PendingStamps("delete")))
        to  == SmallAcked(acker.to, acker.update, del)
    IN
    /\ acker.pc = "del"
    /\ IF acker.who # Reader /\ BelowThreshold(to, acker.from)
       THEN UNCHANGED <<lastAck, channel, passed>>
       ELSE /\ channel' = Append(channel, [type |-> "ack", from |-> acker.from, to |-> to])
            /\ lastAck' = to
            /\ passed' = passed \cup Overtaken(to)
    /\ opState' = [o \in Ops |-> IF o = acker.who THEN "answered" ELSE opState[o]]
    /\ phase' = IF acker.who = Reader THEN "list" ELSE phase
    /\ acker' = Idle
    /\ UNCHANGED <<current, ts, listed, parityVars, settled>>

-----------------------------------------------------------------------------
(* revertDelta                                                             *)

(* The data server is INTERMEDIATE: the reader thread calls revertDelta,   *)
(* which first acknowledges (AckBegin, with force).                        *)
EnterIntermediate ==
    /\ phase = "normal"
    /\ phase' = "revert"
    /\ settled' = {o \in Ops : opState[o] \in {"erased", "answered"}}
    /\ UNCHANGED <<stampVars, ackVars, listed, parityVars, channel, passed>>

(* Under updateLock: the pending UPDATEs.  isPendingRequest compares IDs   *)
(* of the application with those of the requests to other data servers     *)
(* that wait for this one, so a request that shares its ID may be skipped. *)
ListUpdates ==
    /\ phase = "list"
    /\ \E skipped \in SUBSET SharedIds :
        listed' = {ts[o] : o \in PendingOps("update") \ skipped}
    /\ phase' = "list del"
    /\ UNCHANGED <<stampVars, ackVars, parityVars, channel, history>>

(* Under delLock: the pending DELETEs; the event is dispatched, also when  *)
(* nothing was listed.                                                     *)
RevertDelta ==
    /\ phase = "list del"
    /\ \E skipped \in SUBSET SharedIds :
        listed' = listed \cup {ts[o] : o \in PendingOps("delete") \ skipped}
    /\ channel' = Append(channel, [type |-> "revert", stamps |-> listed'])
    /\ phase' = "intermediate"
    /\ UNCHANGED <<stampVars, ackVars, parityVars, history>>

(* The parity server has acknowledged the revert and the client waits for  *)
(* DEGRADED (checkAckForServer).                                           *)
WaitDegraded ==
    /\ phase = "intermediate"
    /\ \A i \in DOMAIN channel : channel[i].type # "revert"
    /\ phase' = "wait"
    /\ UNCHANGED <<stampVars, ackVars, listed, parityVars, channel, history>>

-----------------------------------------------------------------------------
(* The servers                                                             *)

(* The data server handles the request and forwards its delta.             *)
Forward(o) ==
    /\ opState[o] = "pending"
    /\ o \notin forwarded
    /\ forwarded' = forwarded \cup {o}
    /\ UNCHANGED <<stampVars, ackVars, revertVars, applied, undone, backup, channel, history>>

(* The parity server applies the delta and keeps a backup.  It may do so   *)
(* long after the data server, or the client, has moved on.                *)
HandleUpdateRequest(o) ==
    /\ o \in forwarded \ applied
    /\ applied' = applied \cup {o}
    /\ backup' = backup \cup {o}
    /\ UNCHANGED <<stampVars, ackVars, revertVars, forwarded, undone, channel, history>>

Arrives(i) == i \in DOMAIN channel /\ (InOrder => i = 1)
Taken(i) == channel' = SubSeq(channel, 1, i - 1) \o SubSeq(channel, i + 1, Len(channel))

(* removeParityUpdate and removeParityDelete with a range.                 *)
HandleAckParityDeltaBackup(i) ==
    /\ Arrives(i)
    /\ channel[i].type = "ack"
    /\ backup' = {o \in backup : ~InRange(ts[o], channel[i].from, channel[i].to)}
    /\ Taken(i)
    /\ UNCHANGED <<stampVars, ackVars, revertVars, forwarded, applied, undone, history>>

(* Mutant: every backup in the range is undone, listed or not.             *)
RevertedUnlisted(S) ==
    LET from == IF S = {} THEN 0 ELSE Min(S)
        to   == Cardinality(S)
    IN  {o \in backup : InRange(ts[o], from, to)}

(* The backups that removeParityUpdate and removeParityDelete return for a *)
(* set of timestamps.  The code reads *begin() and *end(); with libstdc++, *)
(* *end() is the number of elements, as is *begin() of an empty set, for   *)
(* which nothing is filtered out.                                          *)
Reverted(S) ==
    LET from == IF S = {} THEN 0 ELSE Min(S)
        to   == Cardinality(S)
    IN  {o \in backup : InRange(ts[o], from, to) /\ (S # {} => ts[o] \in S)}

(* The parity server knows by now that the data server is INTERMEDIATE.    *)
HandleRevertDelta(i) ==
    /\ Arrives(i)
    /\ channel[i].type = "revert"
    /\ undone' = undone \cup Reverted(channel[i].stamps)
    /\ backup' = backup \ Reverted(channel[i].stamps)
    /\ Taken(i)
    /\ UNCHANGED <<stampVars, ackVars, revertVars, forwarded, applied, history>>

Next ==
    \/ \E o \in Ops :
        \/ GetServers(o) \/ Stamp(o) \/ SendRequest(o) \/ HandleResponse(o)
        \/ Forward(o) \/ HandleUpdateRequest(o)
    \/ \E who \in Ops \cup {Reader} : AckBegin(who)
    \/ AckReadUpdate
    \/ AckFinish
    \/ EnterIntermediate
    \/ ListUpdates
    \/ RevertDelta
    \/ WaitDegraded
    \/ \E i \in DOMAIN channel :
        HandleAckParityDeltaBackup(i) \/ HandleRevertDelta(i)

Spec == Init /\ [][Next]_vars

-----------------------------------------------------------------------------
(* Properties                                                              *)

Answered == {o \in Ops : opState[o] = "answered"}
AcksInChannel == {i \in DOMAIN channel : channel[i].type = "ack"}

(* No backup is leaked while the data server is normal: what an answered   *)
(* request left at the parity server is in the range that the next         *)
(* acknowledgement starts from, or in that of one on its way; but for the  *)
(* requests that lastAck overtook before they had a response.              *)
BackupsReclaimed ==
    phase = "normal" =>
        \A o \in (backup \cap Answered) \ passed :
            \/ InRange(ts[o], lastAck, current)
            \/ \E i \in AcksInChannel : InRange(ts[o], channel[i].from, channel[i].to)

(* Acknowledging in batches bounds the backups of a client that has one    *)
(* request at a time: with no acknowledgement under way there are at most  *)
(* a batch of them.                                                        *)
BackupsBounded ==
    phase = "normal" /\ acker = Idle /\ AcksInChannel = {} =>
        Cardinality(backup \cap Answered) <= BatchSize

EndsBeforePending ==
    AckFinish /\ acker.who # Reader /\ channel' # channel =>
        \A o \in PendingOps("update") : channel'[Len(channel')].to < ts[o]

(* The range that a worker acknowledges after a response ends before the   *)
(* oldest UPDATE that the client still waits for.                          *)
AckBeforePending == [][EndsBeforePending]_vars

(* It does so unless the very first timestamp is pending, below which      *)
(* there is none: 0 - 1 is taken as the largest one.                       *)
AckEndsBeforePending == [][0 \notin PendingStamps("update") => EndsBeforePending]_vars

(* A revert undoes only what the client listed.                            *)
RevertOnlyListed ==
    [][\A i \in DOMAIN channel : HandleRevertDelta(i) =>
        \A o \in undone' \ undone : ts[o] \in channel[i].stamps]_vars

(* The delta of a request that had its response when the data server left  *)
(* the normal state is never undone, in whatever order the revert and the  *)
(* acknowledgements arrive; but for timestamp 0, which an empty list takes *)
(* in.                                                                     *)
SettledKept == \A o \in settled \cap undone : ts[o] = 0

(* While the data server is normal, no acknowledgement drops the backup of *)
(* a request that the client still waits for: its delta must be undone if  *)
(* the data server fails.                                                  *)
AckKeepsPending ==
    [][phase = "normal" =>
        \A i \in DOMAIN channel : HandleAckParityDeltaBackup(i) =>
            \A o \in backup \ backup' : opState[o] # "pending"]_vars

(* A revert undoes every delta that is applied, that the client listed and *)
(* that it still waits for.                                                *)
RevertComplete ==
    [][\A i \in DOMAIN channel : HandleRevertDelta(i) =>
        \A o \in applied : opState[o] = "pending" /\ ts[o] \in channel[i].stamps =>
            o \in undone']_vars

(* The delta of a request that was answered is not undone.                 *)
AnsweredKept ==
    [][\A o \in undone' \ undone : opState[o] \notin {"erased", "answered"}]_vars
=============================================================================
