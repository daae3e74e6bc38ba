--------------------------- MODULE DegradedLocks ---------------------------
(***************************************************************************)
(* Degraded locks at the coordinator.  A client that cannot reach a server *)
(* of a stripe asks the coordinator for a degraded lock: it records where  *)
(* the lost chunks of the stripe are reconstructed.  Requests are handled  *)
(* by a pool of CoordinatorWorker threads.  Before a server returns to     *)
(* NORMAL, a state transit worker has remapped data synchronized and the   *)
(* degraded locks released (transitToNormalEnd): the chunks move from      *)
(* where they were reconstructed to their servers.  It holds the lock of   *)
(* the server's state all the while, and both tasks are done by the pool.  *)
(*                                                                         *)
(* A stripe has one chunk per server, all sealed; keys exist and are not   *)
(* remapped.  How states change is the subject of StateTransit; here a     *)
(* server goes round the four states at any time.                          *)
(***************************************************************************)
EXTENDS ServerStates, Functions, FiniteSetsExt

CONSTANTS
    Switchable,     \* servers that may become degraded
    Stripes,        \* stripes, of one stripe list
    Requests,       \* degraded lock requests
    StripeOf,       \* StripeOf[r]: the stripe of the requested key
    Workers,        \* threads of the CoordinatorWorker pool
    MaxSwitches     \* bound: transitions to degraded

ASSUME LocksAssumption ==
    /\ Switchable \subseteq Servers
    /\ IsFiniteSet(Stripes)
    /\ StripeOf \in [Requests -> Stripes]
    /\ None \notin Stripes \cup Requests
    /\ MaxSwitches \in Nat

VARIABLES
    serversState,   \* states of the servers at the coordinator
    switches,       \* how many transitions to degraded were started
    returning,      \* returning[s]: what transitToNormalEnd waits for
    done,           \* done[s]: its flag
    syncing,        \* syncing[s]: servers yet to answer PARITY_MIGRATE
    degradedLocks,  \* degradedLocks[t]: original server |-> reconstructed at
    releasingDegradedLocks,
    request,        \* request[r]: a lock request on its way, or None
    worker,         \* worker[w]: what a thread of the pool is doing
    lastId,         \* the last request id that was given to a release
    pending,        \* pending[i]: chunks of release i not yet confirmed
    migrating,      \* release requests at the servers
    responses,      \* their responses, not yet handled
    aborted         \* an assertion failed

stateVars   == <<serversState, switches>>
returnVars  == <<returning, done, syncing>>
lockVars    == <<degradedLocks, releasingDegradedLocks>>
releaseVars == <<lastId, pending, migrating, responses>>
vars == <<stateVars, returnVars, lockVars, request, worker, releaseVars, aborted>>

(* Where chunks are reconstructed: a function on some servers.             *)
Redirections == UNION {[D -> Servers] : D \in SUBSET Servers}
NoLock       == [s \in {} |-> None]
NoLocks      == [t \in Stripes |-> NoLock]

Chunks   == Stripes \X Servers
Releases == [id : Nat, for : Servers, dst : Servers, chunks : SUBSET Chunks]

IdleWorker == [pc |-> "idle", stripe |-> None, todo |-> {}, surviving |-> {},
               targets |-> NoLock, for |-> None, id |-> 0, chunks |-> {}]

TypeOK ==
    /\ serversState \in [Servers -> CoordStates]
    /\ switches \in 0 .. MaxSwitches
    /\ returning \in [Servers -> {"no", "sync request", "sync",
                                  "release request", "release"}]
    /\ done \in [Servers -> BOOLEAN]
    /\ syncing \in [Servers -> SUBSET Servers]
    /\ degradedLocks \in [Stripes -> Redirections]
    /\ releasingDegradedLocks \in [Stripes -> Redirections]
    /\ request \in [Requests -> Redirections \cup {None}]
    /\ worker \in [Workers -> [
            pc : {"idle", "surviving", "targets", "release"},
            stripe : Stripes \cup {None}, todo : SUBSET Servers,
            surviving : SUBSET Servers, targets : Redirections,
            for : Servers \cup {None}, id : Nat, chunks : SUBSET (Chunks \X Servers)]]
    /\ lastId \in Nat
    /\ DOMAIN pending \subseteq 1 .. lastId
    /\ pending \in [DOMAIN pending -> Nat \ {0}]
    /\ migrating \subseteq Releases
    /\ responses \subseteq Releases
    /\ aborted \in BOOLEAN

Init ==
    /\ serversState = [s \in Servers |-> NORMAL]
    /\ switches = 0
    /\ returning = [s \in Servers |-> "no"]
    /\ done = [s \in Servers |-> FALSE]
    /\ syncing = [s \in Servers |-> {}]
    /\ degradedLocks = NoLocks
    /\ releasingDegradedLocks = NoLocks
    /\ request = [r \in Requests |-> None]
    /\ worker = [w \in Workers |-> IdleWorker]
    /\ lastId = 0
    /\ pending = <<>>
    /\ migrating = {}
    /\ responses = {}
    /\ aborted = FALSE

-----------------------------------------------------------------------------
(* States                                                                  *)

(* serversStateLock[s] is held from transitToNormalEnd's start to its end. *)
StateLocked(s) == returning[s] # "no"

AllowRemapping(s) == serversState[s] \in {INTERMEDIATE, DEGRADED}

(* A step of the transition of s: to INTERMEDIATE, DEGRADED, COORDINATED.  *)
Advance(s) ==
    /\ ~aborted
    /\ ~StateLocked(s)
    /\ \/ /\ serversState[s] = NORMAL
          /\ switches < MaxSwitches
          /\ serversState' = [serversState EXCEPT ![s] = INTERMEDIATE]
          /\ switches' = switches + 1
       \/ /\ serversState[s] = INTERMEDIATE
          /\ serversState' = [serversState EXCEPT ![s] = DEGRADED]
          /\ UNCHANGED switches
       \/ /\ serversState[s] = DEGRADED
          /\ serversState' = [serversState EXCEPT ![s] = COORDINATED]
          /\ UNCHANGED switches
    /\ UNCHANGED <<returnVars, lockVars, request, worker, releaseVars, aborted>>

(* All clients have acknowledged COORDINATED: transitToNormalEnd begins by *)
(* having remapped data synchronized.                                      *)
TransitToNormalEnd(s) ==
    /\ ~aborted
    /\ ~StateLocked(s)
    /\ serversState[s] = COORDINATED
    /\ returning' = [returning EXCEPT ![s] = "sync request"]
    /\ done' = [done EXCEPT ![s] = FALSE]
    /\ UNCHANGED <<stateVars, syncing, lockVars, request, worker, releaseVars, aborted>>

(* Remapped data is synchronized: have the degraded locks released.        *)
ReleaseDegradedLock(s) ==
    /\ ~aborted
    /\ returning[s] = "sync"
    /\ done[s]
    /\ returning' = [returning EXCEPT ![s] = "release request"]
    /\ done' = [done EXCEPT ![s] = FALSE]
    /\ UNCHANGED <<stateVars, syncing, lockVars, request, worker, releaseVars, aborted>>

TransitToNormal(s) ==
    /\ ~aborted
    /\ returning[s] = "release"
    /\ done[s]
    /\ returning' = [returning EXCEPT ![s] = "no"]
    /\ serversState' = [serversState EXCEPT ![s] = NORMAL]
    /\ UNCHANGED <<switches, done, syncing, lockVars, request, worker, releaseVars, aborted>>

-----------------------------------------------------------------------------
(* Lock requests                                                           *)

(* redirect, at a client: servers that it knows to be degraded, each with  *)
(* another server, in normal state, to reconstruct its chunk at; with the  *)
(* server itself when all of these are taken.                              *)
Redirect(targets) ==
    LET normal == {d \in Servers : serversState[d] = NORMAL}
    IN  /\ DOMAIN targets \subseteq Servers \ normal
        /\ IsInjective(targets)
        /\ \A s \in DOMAIN targets :
                \/ targets[s] \in normal
                \/ targets[s] = s /\ normal \subseteq Range(targets)

(* A client asks for the lock of a stripe.                                 *)
SendDegradedLockRequest(r, targets) ==
    /\ ~aborted
    /\ request[r] = None
    /\ DOMAIN targets # {}
    /\ Redirect(targets)
    /\ request' = [request EXCEPT ![r] = targets]
    /\ UNCHANGED <<stateVars, returnVars, lockVars, worker, releaseVars, aborted>>

(* handleDegradedLockRequest, on an idle worker.                           *)
HandleDegradedLockRequest(w, r) ==
    /\ ~aborted
    /\ worker[w].pc = "idle"
    /\ request[r] # None
    /\ DOMAIN request[r] # {}
    /\ worker' = [worker EXCEPT ![w] =
            [IdleWorker EXCEPT !.pc = "surviving", !.stripe = StripeOf[r],
                               !.todo = Servers, !.targets = request[r]]]
    /\ request' = [request EXCEPT ![r] = NoLock]
    /\ UNCHANGED <<stateVars, returnVars, lockVars, releaseVars, aborted>>

(* The first loop: which servers survive?  allowRemapping waits for the    *)
(* lock of the server's state.                                             *)
CheckSurviving(w, s) ==
    /\ ~aborted
    /\ worker[w].pc = "surviving"
    /\ s \in worker[w].todo
    /\ ~StateLocked(s)
    /\ worker' = [worker EXCEPT
            ![w].surviving = IF AllowRemapping(s) THEN @ ELSE @ \cup {s},
            ![w].todo = IF @ = {s} THEN DOMAIN worker[w].targets ELSE @ \ {s},
            ![w].pc = IF worker[w].todo = {s} THEN "targets" ELSE @]
    /\ UNCHANGED <<stateVars, returnVars, lockVars, request, releaseVars, aborted>>

(* The second loop: servers that are not degraded are no targets.          *)
CheckTarget(w, s) ==
    /\ ~aborted
    /\ worker[w].pc = "targets"
    /\ s \in worker[w].todo
    /\ ~StateLocked(s)
    /\ worker' = [worker EXCEPT
            ![w].targets = IF AllowRemapping(s) THEN @ ELSE Restrict(@, DOMAIN @ \ {s}),
            ![w].todo = @ \ {s}]
    /\ UNCHANGED <<stateVars, returnVars, lockVars, request, releaseVars, aborted>>

Joined(f, g) == [s \in DOMAIN f \cup DOMAIN g |-> IF s \in DOMAIN f THEN f[s] ELSE g[s]]

(* dup: a chunk neither surviving nor listed is redirected as well, to a   *)
(* surviving server not yet used.  If there is none the entry is not       *)
(* initialized (any server, here).  The count of these entries takes a     *)
(* server both surviving and listed for two: some entries are cut off.     *)
Unhandled(w) == Servers \ (worker[w].surviving \cup DOMAIN worker[w].targets)
Unused(w) == worker[w].surviving \ Range(worker[w].targets)

NewCount(w) == Cardinality(Servers) - Cardinality(worker[w].surviving)
                                    - Cardinality(DOMAIN worker[w].targets)

(* The assertion of dup: the count of new entries does not wrap around.    *)
SurvivorsDistinct(w) == NewCount(w) >= 0

(* Mutant: the new entries replace those of the lock.                      *)
ExpandReplacing(lock, targets) == Joined(targets, lock)

Expand(lock, targets) == Joined(lock, targets)

(* Under degradedLocksLock: the lock of the stripe is expanded, or, if     *)
(* there are targets, inserted.                                            *)
InsertDegradedLock(w) ==
    LET t == worker[w].stripe
        targets == worker[w].targets
    IN
    /\ ~aborted
    /\ worker[w].pc = "targets"
    /\ worker[w].todo = {}
    /\ worker' = [worker EXCEPT ![w] = IdleWorker]
    /\ \/ /\ degradedLocks[t] # NoLock
          /\ degradedLocks' = [degradedLocks EXCEPT ![t] = Expand(@, targets)]
          /\ UNCHANGED aborted
       \/ /\ degradedLocks[t] = NoLock
          /\ targets = NoLock
          /\ UNCHANGED <<degradedLocks, aborted>>
       \/ /\ degradedLocks[t] = NoLock
          /\ targets # NoLock
          /\ IF SurvivorsDistinct(w)
             THEN /\ \E added \in kSubset(NewCount(w), Unhandled(w)),
                        d \in IF Unused(w) = {} THEN Servers ELSE Unused(w) :
                        degradedLocks' = [degradedLocks EXCEPT ![t] =
                            Joined(targets, [s \in added |-> d])]
                  /\ UNCHANGED aborted
             ELSE aborted' = TRUE /\ UNCHANGED degradedLocks
    /\ UNCHANGED <<stateVars, returnVars, releasingDegradedLocks, request, releaseVars>>

-----------------------------------------------------------------------------
(* Synchronizing remapped data                                             *)

(* The count of answers is inserted before the requests are queued.        *)
SyncRemappedData(w, s) ==
    /\ ~aborted
    /\ worker[w].pc = "idle"
    /\ returning[s] = "sync request"
    /\ returning' = [returning EXCEPT ![s] = "sync"]
    /\ syncing' = [syncing EXCEPT ![s] = Servers]
    /\ UNCHANGED <<stateVars, done, lockVars, request, worker, releaseVars, aborted>>

(* Server p has migrated and an idle worker handles the answer.            *)
DecrementRemappedDataRequest(w, s, p) ==
    /\ ~aborted
    /\ worker[w].pc = "idle"
    /\ p \in syncing[s]
    /\ syncing' = [syncing EXCEPT ![s] = @ \ {p}]
    /\ done' = [done EXCEPT ![s] = syncing[s] = {p}]
    /\ UNCHANGED <<stateVars, returning, lockVars, request, worker, releaseVars, aborted>>

-----------------------------------------------------------------------------
(* Releasing locks                                                         *)

(* The locked chunks, each with where it was reconstructed.                *)
Locked == UNION {{<<<<t, s>>, degradedLocks[t][s]>> : s \in DOMAIN degradedLocks[t]}
                    : t \in Stripes}

(* Mutant: the locks are copied, not swapped out.                          *)
SwapKeepsLocks ==
    releasingDegradedLocks' = degradedLocks /\ UNCHANGED degradedLocks

Swap ==
    /\ degradedLocks' = releasingDegradedLocks
    /\ releasingDegradedLocks' = degradedLocks

(* handleReleaseDegradedLockRequest, under degradedLocksLock: collect what *)
(* is locked and swap the map with that of the locks being released.  Both *)
(* maps are static: they hold the locks of all servers.  A release of      *)
(* chunks gets the next request id (ids do not wrap around here).          *)
HandleReleaseRequest(w, s) ==
    /\ ~aborted
    /\ worker[w].pc = "idle"
    /\ returning[s] = "release request"
    /\ returning' = [returning EXCEPT ![s] = "release"]
    /\ Swap
    /\ IF Locked = {}
       THEN done' = [done EXCEPT ![s] = TRUE] /\ UNCHANGED <<worker, lastId>>
       ELSE /\ lastId' = lastId + 1
            /\ worker' = [worker EXCEPT ![w] =
                    [IdleWorker EXCEPT !.pc = "release", !.for = s, !.id = lastId',
                                       !.chunks = Locked]]
            /\ UNCHANGED done
    /\ UNCHANGED <<stateVars, syncing, request, pending, migrating, responses, aborted>>

(* Mutant: a request counts as one chunk.                                  *)
ReleaseCountOne(chunks) == 1

ReleaseCount(chunks) == Cardinality(chunks)

(* The count of release i; there is no entry for one that is completed.    *)
Count(i) == IF i \in DOMAIN pending THEN pending[i] ELSE 0

(* addReleaseDegradedLock: n more chunks.                                  *)
Counted(i, n) == [j \in DOMAIN pending \cup {i} |-> IF j = i THEN Count(i) + n ELSE pending[j]]

(* removeReleaseDegradedLock: n fewer; the entry is erased at zero.        *)
Uncounted(i, n) ==
    [j \in IF Count(i) = n THEN DOMAIN pending \ {i} ELSE DOMAIN pending
        |-> IF j = i THEN pending[i] - n ELSE pending[j]]

(* For one destination: its chunks are added to the pending count, and the *)
(* request is sent.                                                        *)
AddReleaseDegradedLock(w, d) ==
    LET mine == {c \in worker[w].chunks : c[2] = d}
        i == worker[w].id
    IN
    /\ ~aborted
    /\ worker[w].pc = "release"
    /\ mine # {}
    /\ pending' = Counted(i, ReleaseCount(mine))
    /\ migrating' = migrating \cup
            {[id |-> i, for |-> worker[w].for, dst |-> d, chunks |-> {c[1] : c \in mine}]}
    /\ worker' = [worker EXCEPT ![w] =
            IF mine = @.chunks THEN IdleWorker ELSE [worker[w] EXCEPT !.chunks = @ \ mine]]
    /\ UNCHANGED <<stateVars, returnVars, lockVars, request, lastId, responses, aborted>>

(* A server has moved all the chunks of a request (SET_CHUNK), and answers.*)
SetChunkResponse(m) ==
    /\ ~aborted
    /\ m \in migrating
    /\ migrating' = migrating \ {m}
    /\ responses' = responses \cup {m}
    /\ UNCHANGED <<stateVars, returnVars, lockVars, request, worker, lastId, pending, aborted>>

(* Mutant: each response counts as one chunk.                              *)
ConfirmedOne(m) == 1

Confirmed(m) == Cardinality(m.chunks)

(* Mutant: the thread is told at the first response.                       *)
ReleaseCompletedFirst(m) == m.id \in DOMAIN pending

ReleaseCompleted(m) == m.id \in DOMAIN pending /\ pending[m.id] = Confirmed(m)

(* handleReleaseDegradedLockResponse: the count goes down, and at zero the *)
(* waiting thread is told.                                                 *)
HandleReleaseResponse(w, m) ==
    /\ ~aborted
    /\ worker[w].pc = "idle"
    /\ m \in responses
    /\ responses' = responses \ {m}
    /\ pending' = Uncounted(m.id, Confirmed(m))
    /\ done' = [done EXCEPT ![m.for] = @ \/ ReleaseCompleted(m)]
    /\ UNCHANGED <<stateVars, returning, syncing, lockVars, request, worker, lastId,
                   migrating, aborted>>

-----------------------------------------------------------------------------
TransitStep(s) == TransitToNormalEnd(s) \/ ReleaseDegradedLock(s) \/ TransitToNormal(s)

WorkerStep(w) ==
    \/ \E r \in Requests : HandleDegradedLockRequest(w, r)
    \/ \E s \in Servers : CheckSurviving(w, s) \/ CheckTarget(w, s)
    \/ InsertDegradedLock(w)
    \/ \E s \in Servers : SyncRemappedData(w, s) \/ HandleReleaseRequest(w, s)
    \/ \E s, p \in Servers : DecrementRemappedDataRequest(w, s, p)
    \/ \E d \in Servers : AddReleaseDegradedLock(w, d)
    \/ \E m \in responses : HandleReleaseResponse(w, m)

Next ==
    \/ \E s \in Switchable : Advance(s)
    \/ \E s \in Servers : TransitStep(s)
    \/ \E r \in Requests, targets \in Redirections : SendDegradedLockRequest(r, targets)
    \/ \E w \in Workers : WorkerStep(w)
    \/ \E m \in migrating : SetChunkResponse(m)

Spec == Init /\ [][Next]_vars

(* Every thread keeps running, and the servers answer.                     *)
Fairness ==
    /\ \A s \in Servers : WF_vars(TransitStep(s))
    /\ \A w \in Workers : WF_vars(WorkerStep(w))
    /\ WF_vars(\E m \in migrating : SetChunkResponse(m))

LiveSpec == Spec /\ Fairness

-----------------------------------------------------------------------------
(* Properties                                                              *)

(* What a release for s has yet to move.                                   *)
ToMigrate(s) ==
    UNION ({m.chunks : m \in {x \in migrating : x.for = s}} \cup
           {{c[1] : c \in worker[w].chunks} : w \in {x \in Workers : worker[x].for = s}})

(* The requests of release i whose response is not yet handled.            *)
Requested(i) == {m \in migrating \cup responses : m.id = i}

(* The pending count of a release is the number of chunks at the servers   *)
(* or confirmed but not yet handled.                                       *)
ReleaseCountExact ==
    \A i \in 1 .. lastId :
        Count(i) = SumFunctionOnSet([m \in Requested(i) |-> Cardinality(m.chunks)], Requested(i))

NormalWhenMigrated ==
    \A s \in Servers : serversState[s] = COORDINATED /\ serversState'[s] = NORMAL =>
        ToMigrate(s) = {}

(* A server becomes NORMAL only when the chunks that were reconstructed    *)
(* elsewhere are back.                                                     *)
MigratedBeforeNormal == [][NormalWhenMigrated]_vars

(* No chunk of a server in normal state is locked: requests to it would be *)
(* redirected to a stale copy.                                             *)
LockedOnlyDegraded ==
    \A t \in Stripes, s \in Servers :
        s \in DOMAIN degradedLocks[t] => serversState[s] # NORMAL

InsertKeepsRedirections ==
    \A w \in Workers : InsertDegradedLock(w) =>
        \A t \in Stripes : \A s \in DOMAIN degradedLocks[t] :
            s \in DOMAIN degradedLocks'[t] /\ degradedLocks'[t][s] = degradedLocks[t][s]

(* A lock that exists keeps its redirections: clients use them already.    *)
RedirectionStable == [][InsertKeepsRedirections]_vars

(* A lock to be released does not become a lock again.                     *)
ReleasedNotRevived ==
    [][\A w \in Workers, s \in Servers : HandleReleaseRequest(w, s) =>
        \A t \in Stripes : degradedLocks'[t] = NoLock]_vars

(* The release for a server moves chunks of this server only.              *)
ReleasesOwnChunks ==
    \A m \in migrating : \A c \in m.chunks : c[2] = m.for

(* The assertion of dup holds.                                             *)
NoAbort == ~aborted

(* A server whose transition to NORMAL has begun becomes NORMAL.           *)
ReturnsToNormal ==
    \A s \in Servers : serversState[s] = COORDINATED ~> serversState[s] = NORMAL
=============================================================================
