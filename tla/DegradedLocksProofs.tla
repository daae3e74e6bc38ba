------------------------ MODULE DegradedLocksProofs ------------------------
(***************************************************************************)
(* Proofs about DegradedLocks: the pending count of a release is the       *)
(* number of chunks at the servers or confirmed but not yet handled, locks *)
(* keep their redirections, and, with one thread in the pool, a server     *)
(* becomes NORMAL only when its chunks are back, and, the first time,      *)
(* leaves no lock behind.                                                  *)
(***************************************************************************)
EXTENDS DegradedLocks, SumLemmas

InFlight == migrating \cup responses

(* Every request counts chunks and has a release of its own; a release     *)
(* sends one request to a server, from one worker.                         *)
RequestsDistinct ==
    /\ IsFiniteSet(migrating) /\ IsFiniteSet(responses) /\ migrating \cap responses = {}
    /\ \A m \in InFlight : m.chunks # {} /\ m.id \in 1 .. lastId
    /\ \A m, n \in InFlight : m.id = n.id /\ m.dst = n.dst => m = n
    /\ \A w \in Workers : worker[w].pc = "release" =>
        /\ worker[w].id \in 1 .. lastId /\ worker[w].for \in Servers
        /\ \A m \in InFlight : m.id = worker[w].id =>
                \A c \in worker[w].chunks : c[2] # m.dst
        /\ \A v \in Workers : worker[v].pc = "release" /\ worker[v].id = worker[w].id => v = w

LocksInv == TypeOK /\ RequestsDistinct /\ ReleaseCountExact

-----------------------------------------------------------------------------
(* Redirections                                                            *)

LEMMA RedirectionsAre ==
    /\ \A f : f \in Redirections <=> \E D \in SUBSET Servers : f \in [D -> Servers]
    /\ \A f \in Redirections : /\ DOMAIN f \subseteq Servers
                               /\ f = [s \in DOMAIN f |-> f[s]]
                               /\ \A s \in DOMAIN f : f[s] \in Servers
    /\ NoLock \in Redirections
  <1>1. \A f : f \in Redirections <=> \E D \in SUBSET Servers : f \in [D -> Servers]
    BY DEF Redirections
  <1>2. NoLock \in [{} -> Servers] BY DEF NoLock
  <1> QED BY <1>1, <1>2

LEMMA JoinedType ==
    ASSUME NEW f \in Redirections, NEW g \in Redirections
    PROVE  Joined(f, g) \in Redirections
  <1>1. Joined(f, g) \in [DOMAIN f \cup DOMAIN g -> Servers] BY RedirectionsAre DEF Joined
  <1>2. DOMAIN f \cup DOMAIN g \in SUBSET Servers BY RedirectionsAre
  <1> QED BY <1>1, <1>2, RedirectionsAre

LEMMA RestrictType ==
    ASSUME NEW f \in Redirections, NEW S
    PROVE  Restrict(f, DOMAIN f \ S) \in Redirections
  <1>1. Restrict(f, DOMAIN f \ S) \in [DOMAIN f \ S -> Servers] BY RedirectionsAre DEF Restrict
  <1>2. DOMAIN f \ S \in SUBSET Servers BY RedirectionsAre
  <1> QED BY <1>1, <1>2, RedirectionsAre

LEMMA ConstantType ==
    ASSUME NEW S \in SUBSET Servers, NEW d \in Servers
    PROVE  [s \in S |-> d] \in Redirections
  <1>1. [s \in S |-> d] \in [S -> Servers] OBVIOUS
  <1> QED BY <1>1, RedirectionsAre

LEMMA ChunksFinite == IsFiniteSet(Chunks) /\ \A C \in SUBSET Chunks : IsFiniteSet(C)
  <1>1. IsFiniteSet(Chunks) BY LocksAssumption, NetworkAssumption, FS_Product DEF Chunks
  <1> QED BY <1>1, FS_Subset

LEMMA LockedType ==
    ASSUME TypeOK
    PROVE  Locked \in SUBSET (Chunks \X Servers)
  <1>1. ASSUME NEW t \in Stripes, NEW s \in DOMAIN degradedLocks[t]
        PROVE  <<<<t, s>>, degradedLocks[t][s]>> \in Chunks \X Servers
    <2>1. degradedLocks[t] \in Redirections BY DEF TypeOK
    <2>2. s \in Servers /\ degradedLocks[t][s] \in Servers BY <2>1, RedirectionsAre
    <2> QED BY <2>2 DEF Chunks
  <1> QED BY <1>1 DEF Locked
-----------------------------------------------------------------------------
(* Counts                                                                  *)

(* The number of chunks of a request.                                      *)
Weight == [m \in Releases |-> Cardinality(m.chunks)]

LEMMA WeightOf ==
    /\ \A m \in Releases : Weight[m] = Cardinality(m.chunks) /\ Weight[m] \in Nat
    /\ \A m \in Releases : m.chunks # {} => Weight[m] > 0
  <1>1. \A m \in Releases : IsFiniteSet(m.chunks) BY ChunksFinite DEF Releases
  <1>2. \A C : IsFiniteSet(C) => Cardinality(C) \in Nat /\ (Cardinality(C) = 0 <=> C = {})
    BY FS_CardinalityType, FS_EmptySet
  <1> QED BY <1>1, <1>2 DEF Weight

LEMMA RequestedFinite ==
    ASSUME TypeOK, IsFiniteSet(migrating), IsFiniteSet(responses), NEW i
    PROVE  IsFiniteSet(Requested(i)) /\ Requested(i) \subseteq Releases
  <1>1. IsFiniteSet(migrating \cup responses) BY FS_Union
  <1> QED BY <1>1, FS_Subset DEF Requested, TypeOK

(* ReleaseCountExact, with one function for all sums.                      *)
LEMMA CountsAre ==
    ASSUME TypeOK, IsFiniteSet(migrating), IsFiniteSet(responses)
    PROVE  ReleaseCountExact <=>
                \A i \in 1 .. lastId : Count(i) = SumFunctionOnSet(Weight, Requested(i))
  <1>1. ASSUME NEW i
        PROVE  SumFunctionOnSet([m \in Requested(i) |-> Cardinality(m.chunks)], Requested(i))
                   = SumFunctionOnSet(Weight, Requested(i))
    BY RequestedFinite, SumSame DEF Weight
  <1> QED BY <1>1 DEF ReleaseCountExact

(* A request that is not handled is part of the count, and only it is when *)
(* the count is the number of its chunks.                                  *)
LEMMA CountCovers ==
    ASSUME LocksInv, NEW m \in InFlight
    PROVE  /\ Confirmed(m) \in Nat \ {0} /\ m.id \in DOMAIN pending
           /\ Requested(m.id) \ {m} \subseteq Releases
           /\ SumFunctionOnSet(Weight, Requested(m.id) \ {m}) \in Nat
           /\ pending[m.id] =
                Confirmed(m) + SumFunctionOnSet(Weight, Requested(m.id) \ {m})
           /\ pending[m.id] = Confirmed(m) => Requested(m.id) = {m}
  <1> DEFINE R == Requested(m.id)
  <1>1. IsFiniteSet(R) /\ R \subseteq Releases /\ m \in R /\ m.id \in 1 .. lastId
    BY RequestedFinite DEF LocksInv, RequestsDistinct, Requested, InFlight
  <1>2. \A x \in R : Weight[x] \in Nat /\ Weight[x] > 0
    BY <1>1, WeightOf DEF LocksInv, RequestsDistinct, Requested, InFlight
  <1>3. Count(m.id) = SumFunctionOnSet(Weight, R)
    BY <1>1, CountsAre DEF LocksInv, RequestsDistinct
  <1>4. Confirmed(m) = Weight[m] BY <1>1, WeightOf DEF Confirmed
  <1> HIDE DEF R
  <1>5. SumFunctionOnSet(Weight, R) = Weight[m] + SumFunctionOnSet(Weight, R \ {m})
    BY <1>1, <1>2, SumRemove
  <1>6. IsFiniteSet(R \ {m}) BY <1>1, FS_Subset
  <1>7. SumFunctionOnSet(Weight, R \ {m}) \in Nat
    <2>1. \A x \in R \ {m} : Weight[x] \in Nat BY <1>2
    <2> QED BY <1>6, <2>1, SumType
  <1>8. Count(m.id) > 0 BY <1>1, <1>2, <1>3, <1>5, <1>7
  <1>9. m.id \in DOMAIN pending /\ Count(m.id) = pending[m.id] BY <1>8 DEF Count
  <1>10. SumFunctionOnSet(Weight, R \ {m}) = 0 => R \ {m} = {}
    <2> SUFFICES ASSUME NEW x \in R \ {m} PROVE SumFunctionOnSet(Weight, R \ {m}) > 0
      BY <1>7
    <2> DEFINE Q == R \ {m}
    <2>1. \A y \in Q : Weight[y] \in Int BY <1>2
    <2>2. IsFiniteSet(Q \ {x}) BY <1>6, FS_Subset
    <2>3. \A y \in Q \ {x} : Weight[y] \in Nat BY <1>2
    <2>4. x \in Q OBVIOUS
    <2>5. IsFiniteSet(Q) BY <1>6
    <2> HIDE DEF Q
    <2>6. SumFunctionOnSet(Weight, Q) = Weight[x] + SumFunctionOnSet(Weight, Q \ {x})
      BY <2>1, <2>4, <2>5, SumRemove
    <2>7. SumFunctionOnSet(Weight, Q \ {x}) \in Nat BY <2>2, <2>3, SumType
    <2>8. SumFunctionOnSet(Weight, Q) > 0 BY <1>2, <2>6, <2>7
    <2> QED BY <2>8 DEF Q
  <1> QED BY <1>1, <1>2, <1>3, <1>4, <1>5, <1>7, <1>9, <1>10 DEF R
-----------------------------------------------------------------------------
(* Type correctness                                                        *)

WorkerRecords ==
    [pc : {"idle", "surviving", "targets", "release"},
     stripe : Stripes \cup {None}, todo : SUBSET Servers,
     surviving : SUBSET Servers, targets : Redirections,
     for : Servers \cup {None}, id : Nat, chunks : SUBSET (Chunks \X Servers)]

LEMMA IdleWorkerType == IdleWorker \in WorkerRecords
  BY RedirectionsAre DEF IdleWorker, WorkerRecords

LEMMA CountsType ==
    ASSUME TypeOK, NEW i \in 1 .. lastId
    PROVE  /\ \A n \in Nat \ {0} :
                /\ Counted(i, n) \in [DOMAIN Counted(i, n) -> Nat \ {0}]
                /\ DOMAIN Counted(i, n) \subseteq 1 .. lastId
           /\ \A n \in Nat \ {0} : i \in DOMAIN pending /\ pending[i] - n \in Nat =>
                /\ Uncounted(i, n) \in [DOMAIN Uncounted(i, n) -> Nat \ {0}]
                /\ DOMAIN Uncounted(i, n) \subseteq 1 .. lastId
  <1>1. /\ DOMAIN pending \subseteq 1 .. lastId
        /\ \A j \in DOMAIN pending : pending[j] \in Nat \ {0}
        /\ Count(i) \in Nat
    BY DEF TypeOK, Count
  <1>2. ASSUME NEW n \in Nat \ {0}
        PROVE  /\ Counted(i, n) \in [DOMAIN Counted(i, n) -> Nat \ {0}]
               /\ DOMAIN Counted(i, n) \subseteq 1 .. lastId
    <2>1. Count(i) + n \in Nat \ {0} BY <1>1
    <2> QED BY <1>1, <2>1 DEF Counted
  <1>3. ASSUME NEW n \in Nat \ {0}, i \in DOMAIN pending, pending[i] - n \in Nat
        PROVE  /\ Uncounted(i, n) \in [DOMAIN Uncounted(i, n) -> Nat \ {0}]
               /\ DOMAIN Uncounted(i, n) \subseteq 1 .. lastId
    <2>1. Count(i) # n => pending[i] - n \in Nat \ {0} BY <1>1, <1>3 DEF Count
    <2>2. \A j \in DOMAIN Uncounted(i, n) : Uncounted(i, n)[j] \in Nat \ {0}
      BY <1>1, <2>1 DEF Uncounted
    <2>3. DOMAIN Uncounted(i, n) \subseteq 1 .. lastId BY <1>1 DEF Uncounted
    <2>4. Uncounted(i, n) = [j \in DOMAIN Uncounted(i, n) |-> Uncounted(i, n)[j]]
      BY DEF Uncounted
    <2> HIDE DEF Uncounted
    <2> QED BY <2>2, <2>3, <2>4
  <1> QED BY <1>2, <1>3

LEMMA LocksTypeStep ==
    ASSUME LocksInv, Next
    PROVE  TypeOK'
  <1> USE DEF CoordStates
  <1>0. TypeOK BY DEF LocksInv
  <1>n. /\ lastId \in Nat /\ switches \in 0 .. MaxSwitches /\ MaxSwitches \in Nat
        /\ \A j \in DOMAIN pending : j \in 1 .. lastId /\ pending[j] \in Nat \ {0}
    BY <1>0, LocksAssumption DEF TypeOK
  <1>1. ASSUME NEW s \in Switchable, Advance(s) PROVE TypeOK'
    <2>1. s \in Servers BY LocksAssumption
    <2>2. serversState' \in [Servers -> CoordStates]
      BY <1>0, <1>1, <2>1 DEF TypeOK, Advance
    <2>3. switches' \in 0 .. MaxSwitches
      <3>1. CASE UNCHANGED switches BY <1>0, <3>1 DEF TypeOK
      <3>2. CASE switches < MaxSwitches /\ switches' = switches + 1
        BY <1>n, <3>2
      <3> QED BY <1>1, <3>1, <3>2 DEF Advance
    <2> QED BY <1>0, <1>1, <2>2, <2>3 DEF TypeOK, Advance, returnVars, lockVars, releaseVars
  <1>2. ASSUME NEW s \in Servers, TransitToNormalEnd(s) PROVE TypeOK'
    BY <1>0, <1>2 DEF TypeOK, TransitToNormalEnd, stateVars, lockVars, releaseVars
  <1>3. ASSUME NEW s \in Servers, ReleaseDegradedLock(s) PROVE TypeOK'
    BY <1>0, <1>3 DEF TypeOK, ReleaseDegradedLock, stateVars, lockVars, releaseVars
  <1>4. ASSUME NEW s \in Servers, TransitToNormal(s) PROVE TypeOK'
    BY <1>0, <1>4 DEF TypeOK, TransitToNormal, lockVars, releaseVars
  <1>5. ASSUME NEW r \in Requests, NEW targets \in Redirections,
               SendDegradedLockRequest(r, targets)
        PROVE  TypeOK'
    <2>1. request' \in [Requests -> Redirections \cup {None}]
      BY <1>0, <1>5 DEF TypeOK, SendDegradedLockRequest
    <2> QED BY <1>0, <1>5, <2>1
        DEF TypeOK, SendDegradedLockRequest, stateVars, returnVars, lockVars, releaseVars
  <1>6. ASSUME NEW w \in Workers, NEW r \in Requests, HandleDegradedLockRequest(w, r)
        PROVE  TypeOK'
    <2>1. request' \in [Requests -> Redirections \cup {None}]
      BY <1>0, <1>6, RedirectionsAre DEF TypeOK, HandleDegradedLockRequest
    <2>2. request[r] \in Redirections BY <1>0, <1>6 DEF TypeOK, HandleDegradedLockRequest
    <2>3. StripeOf[r] \in Stripes BY LocksAssumption
    <2>4. worker' \in [Workers -> WorkerRecords]
      BY <1>0, <1>6, <2>2, <2>3, IdleWorkerType DEF TypeOK, HandleDegradedLockRequest, WorkerRecords
    <2> QED BY <1>0, <1>6, <2>1, <2>4
        DEF TypeOK, HandleDegradedLockRequest, stateVars, returnVars, lockVars, releaseVars,
            WorkerRecords
  <1>7. ASSUME NEW w \in Workers, NEW s \in Servers, CheckSurviving(w, s) PROVE TypeOK'
    <2>1. worker[w] \in WorkerRecords BY <1>0 DEF TypeOK, WorkerRecords
    <2>2. DOMAIN worker[w].targets \subseteq Servers
      BY <2>1, RedirectionsAre DEF WorkerRecords
    <2> DEFINE r == [worker[w] EXCEPT
                        !.surviving = IF AllowRemapping(s) THEN @ ELSE @ \cup {s},
                        !.todo = IF @ = {s} THEN DOMAIN worker[w].targets ELSE @ \ {s},
                        !.pc = IF worker[w].todo = {s} THEN "targets" ELSE @]
    <2>3. r \in WorkerRecords BY <2>1, <2>2 DEF WorkerRecords
    <2>4. worker' = [worker EXCEPT ![w] = r] BY <1>0, <1>7 DEF TypeOK, CheckSurviving
    <2>5. worker' \in [Workers -> WorkerRecords]
      BY <1>0, <2>3, <2>4 DEF TypeOK, WorkerRecords
    <2> QED BY <1>0, <1>7, <2>5
        DEF TypeOK, CheckSurviving, stateVars, returnVars, lockVars, releaseVars, WorkerRecords
  <1>8. ASSUME NEW w \in Workers, NEW s \in Servers, CheckTarget(w, s) PROVE TypeOK'
    <2>1. worker[w] \in WorkerRecords BY <1>0 DEF TypeOK, WorkerRecords
    <2>2. Restrict(worker[w].targets, DOMAIN worker[w].targets \ {s}) \in Redirections
      BY <2>1, RestrictType DEF WorkerRecords
    <2>3. worker' \in [Workers -> WorkerRecords]
      BY <1>0, <1>8, <2>1, <2>2 DEF TypeOK, CheckTarget, WorkerRecords
    <2> QED BY <1>0, <1>8, <2>3
        DEF TypeOK, CheckTarget, stateVars, returnVars, lockVars, releaseVars, WorkerRecords
  <1>9. ASSUME NEW w \in Workers, InsertDegradedLock(w) PROVE TypeOK'
    <2> DEFINE t == worker[w].stripe
               targets == worker[w].targets
    <2>1. worker[w] \in WorkerRecords /\ targets \in Redirections
      BY <1>0 DEF TypeOK, WorkerRecords
    <2>2. worker' \in [Workers -> WorkerRecords]
      BY <1>0, <1>9, IdleWorkerType DEF TypeOK, InsertDegradedLock, WorkerRecords
    <2>3. \A x \in Stripes : degradedLocks[x] \in Redirections BY <1>0 DEF TypeOK
    <2>4. aborted' \in BOOLEAN BY <1>0, <1>9 DEF TypeOK, InsertDegradedLock
    <2>5. degradedLocks' \in [Stripes -> Redirections]
      <3>1. CASE UNCHANGED degradedLocks BY <1>0, <3>1 DEF TypeOK
      <3>2. CASE degradedLocks' = [degradedLocks EXCEPT ![t] = Expand(@, targets)]
        <4>1. t \in Stripes => Expand(degradedLocks[t], targets) \in Redirections
          BY <2>1, <2>3, JoinedType DEF Expand
        <4> HIDE DEF t, targets
        <4> QED BY <1>0, <3>2, <4>1 DEF TypeOK
      <3>3. ASSUME NEW added \in kSubset(NewCount(w), Unhandled(w)),
                   NEW d \in (IF Unused(w) = {} THEN Servers ELSE Unused(w)),
                   degradedLocks' = [degradedLocks EXCEPT ![t] = Joined(targets, [s \in added |-> d])]
            PROVE  degradedLocks' \in [Stripes -> Redirections]
        <4>1. added \in SUBSET Servers BY DEF kSubset, Unhandled
        <4>2. d \in Servers BY <2>1 DEF Unused, WorkerRecords
        <4>3. Joined(targets, [s \in added |-> d]) \in Redirections
          BY <2>1, <4>1, <4>2, ConstantType, JoinedType
        <4> HIDE DEF t, targets
        <4> QED BY <1>0, <3>3, <4>3 DEF TypeOK
      <3> QED BY <1>9, <3>1, <3>2, <3>3 DEF InsertDegradedLock
    <2> QED BY <1>0, <1>9, <2>2, <2>4, <2>5
        DEF TypeOK, InsertDegradedLock, stateVars, returnVars, releaseVars, WorkerRecords
  <1>10. ASSUME NEW w \in Workers, NEW s \in Servers, SyncRemappedData(w, s) PROVE TypeOK'
    BY <1>0, <1>10 DEF TypeOK, SyncRemappedData, stateVars, lockVars, releaseVars
  <1>11. ASSUME NEW w \in Workers, NEW s \in Servers, NEW p \in Servers,
                DecrementRemappedDataRequest(w, s, p)
         PROVE  TypeOK'
    <2>1. syncing' \in [Servers -> SUBSET Servers] /\ done' \in [Servers -> BOOLEAN]
      BY <1>0, <1>11 DEF TypeOK, DecrementRemappedDataRequest
    <2> QED BY <1>0, <1>11, <2>1
        DEF TypeOK, DecrementRemappedDataRequest, stateVars, lockVars, releaseVars
  <1>12. ASSUME NEW w \in Workers, NEW s \in Servers, HandleReleaseRequest(w, s) PROVE TypeOK'
    <2>1. lastId' \in Nat /\ lastId' >= lastId /\ worker' \in [Workers -> WorkerRecords]
          /\ done' \in [Servers -> BOOLEAN]
      <3>1. CASE Locked = {}
        <4>1. /\ UNCHANGED <<worker, lastId>> /\ done' = [done EXCEPT ![s] = TRUE]
          BY <1>12, <3>1 DEF HandleReleaseRequest
        <4>2. lastId' \in Nat /\ lastId' >= lastId BY <1>n, <4>1
        <4>3. done' \in [Servers -> BOOLEAN] BY <1>0, <4>1 DEF TypeOK
        <4> QED BY <1>0, <4>1, <4>2, <4>3 DEF TypeOK, WorkerRecords
      <3>2. CASE Locked # {}
        <4>0. lastId' = lastId + 1 /\ UNCHANGED done BY <1>12, <3>2 DEF HandleReleaseRequest
        <4>1. lastId' \in Nat /\ lastId' >= lastId BY <1>n, <4>0
        <4>2. [IdleWorker EXCEPT !.pc = "release", !.for = s, !.id = lastId',
                                 !.chunks = Locked] \in WorkerRecords
          BY <1>0, <4>1, LockedType, IdleWorkerType DEF WorkerRecords
        <4>3. worker' \in [Workers -> WorkerRecords]
          BY <1>0, <1>12, <3>2, <4>2 DEF TypeOK, HandleReleaseRequest, WorkerRecords
        <4> QED BY <1>0, <4>0, <4>1, <4>3 DEF TypeOK
      <3> QED BY <3>1, <3>2
    <2>2. DOMAIN pending' \subseteq 1 .. lastId' /\ pending' \in [DOMAIN pending' -> Nat \ {0}]
      <3>1. UNCHANGED pending BY <1>12 DEF HandleReleaseRequest
      <3>2. 1 .. lastId \subseteq 1 .. lastId' BY <1>n, <2>1
      <3> QED BY <1>0, <3>1, <3>2 DEF TypeOK
    <2>3. /\ degradedLocks' \in [Stripes -> Redirections]
          /\ releasingDegradedLocks' \in [Stripes -> Redirections]
      BY <1>0, <1>12 DEF TypeOK, HandleReleaseRequest, Swap
    <2>4. returning' \in [Servers -> {"no", "sync request", "sync", "release request", "release"}]
      BY <1>0, <1>12 DEF TypeOK, HandleReleaseRequest
    <2> QED BY <1>0, <1>12, <2>1, <2>2, <2>3, <2>4
        DEF TypeOK, HandleReleaseRequest, stateVars, WorkerRecords
  <1>13. ASSUME NEW w \in Workers, NEW d \in Servers, AddReleaseDegradedLock(w, d) PROVE TypeOK'
    <2> DEFINE mine == {c \in worker[w].chunks : c[2] = d}
               i == worker[w].id
               m == [id |-> i, for |-> worker[w].for, dst |-> d, chunks |-> {c[1] : c \in mine}]
    <2>1. worker[w] \in WorkerRecords BY <1>0 DEF TypeOK, WorkerRecords
    <2>2. i \in 1 .. lastId BY <1>13 DEF AddReleaseDegradedLock, LocksInv, RequestsDistinct
    <2>3. worker[w].for \in Servers /\ worker[w].pc = "release"
      BY <1>13 DEF AddReleaseDegradedLock, LocksInv, RequestsDistinct
    <2>4. mine \subseteq Chunks \X Servers /\ IsFiniteSet(mine) /\ mine # {}
      <3>1. mine \subseteq Chunks \X Servers BY <2>1 DEF WorkerRecords
      <3>2. IsFiniteSet(Chunks \X Servers) BY ChunksFinite, NetworkAssumption, FS_Product
      <3> QED BY <1>13, <3>1, <3>2, FS_Subset DEF AddReleaseDegradedLock
    <2>5. ReleaseCount(mine) \in Nat \ {0} BY <2>4, FS_CardinalityType, FS_EmptySet DEF ReleaseCount
    <2>6. m \in Releases BY <2>1, <2>3, <2>4 DEF Releases, WorkerRecords
    <2>7. pending' = Counted(i, ReleaseCount(mine)) /\ migrating' = migrating \cup {m}
      BY <1>13 DEF AddReleaseDegradedLock
    <2>8. worker' \in [Workers -> WorkerRecords]
      <3>1. [worker[w] EXCEPT !.chunks = @ \ mine] \in WorkerRecords BY <2>1 DEF WorkerRecords
      <3>2. worker' = [worker EXCEPT ![w] =
                IF mine = @.chunks THEN IdleWorker ELSE [worker[w] EXCEPT !.chunks = @ \ mine]]
        BY <1>13 DEF AddReleaseDegradedLock
      <3> QED BY <1>0, <3>1, <3>2, IdleWorkerType DEF TypeOK, WorkerRecords
    <2> HIDE DEF mine, m
    <2>9. /\ DOMAIN pending' \subseteq 1 .. lastId
          /\ pending' \in [DOMAIN pending' -> Nat \ {0}]
      BY <1>0, <2>2, <2>5, <2>7, CountsType
    <2>10. UNCHANGED <<stateVars, returnVars, lockVars, request, lastId, responses, aborted>>
      BY <1>13 DEF AddReleaseDegradedLock
    <2> QED BY <1>0, <2>6, <2>7, <2>8, <2>9, <2>10
        DEF TypeOK, stateVars, returnVars, lockVars, WorkerRecords
  <1>14. ASSUME NEW m \in migrating, SetChunkResponse(m) PROVE TypeOK'
    BY <1>0, <1>14 DEF TypeOK, SetChunkResponse, stateVars, returnVars, lockVars
  <1>15. ASSUME NEW w \in Workers, NEW m \in responses, HandleReleaseResponse(w, m) PROVE TypeOK'
    <2>1. /\ Confirmed(m) \in Nat \ {0} /\ m.id \in DOMAIN pending
          /\ pending[m.id] - Confirmed(m) \in Nat /\ m.id \in 1 .. lastId
      <3>1. m \in InFlight BY DEF InFlight
      <3> DEFINE rest == SumFunctionOnSet(Weight, Requested(m.id) \ {m})
      <3>2. /\ Confirmed(m) \in Nat \ {0} /\ m.id \in DOMAIN pending
            /\ rest \in Nat /\ pending[m.id] = Confirmed(m) + rest
        BY <3>1, CountCovers
      <3> HIDE DEF rest
      <3> QED BY <1>n, <3>2
    <2>2. /\ DOMAIN pending' \subseteq 1 .. lastId
          /\ pending' \in [DOMAIN pending' -> Nat \ {0}]
      BY <1>0, <1>15, <2>1, CountsType DEF HandleReleaseResponse
    <2>3. m.for \in Servers BY <1>0 DEF TypeOK, Releases
    <2>4. done' \in [Servers -> BOOLEAN]
      BY <1>0, <1>15, <2>3 DEF TypeOK, HandleReleaseResponse, ReleaseCompleted
    <2> QED BY <1>0, <1>15, <2>2, <2>4 DEF TypeOK, HandleReleaseResponse, stateVars, lockVars
  <1> QED
    BY <1>1, <1>2, <1>3, <1>4, <1>5, <1>6, <1>7, <1>8, <1>9, <1>10, <1>11, <1>12, <1>13, <1>14, <1>15
    DEF Next, TransitStep, WorkerStep
-----------------------------------------------------------------------------
(* The pending count                                                       *)

(* A step that starts no release, sends no request and handles no answer.  *)
NoRelease ==
    /\ UNCHANGED releaseVars
    /\ \A w \in Workers : worker'[w].pc = "release" => worker'[w] = worker[w]

LEMMA ReleaseStepKinds ==
    ASSUME TypeOK, Next
    PROVE  \/ NoRelease
           \/ \E w \in Workers, s \in Servers : HandleReleaseRequest(w, s) /\ Locked # {}
           \/ \E w \in Workers, d \in Servers : AddReleaseDegradedLock(w, d)
           \/ \E m \in migrating : SetChunkResponse(m)
           \/ \E w \in Workers, m \in responses : HandleReleaseResponse(w, m)
  <1>0. worker \in [Workers -> WorkerRecords] BY DEF TypeOK, WorkerRecords
  <1>i. IdleWorker.pc = "idle" BY DEF IdleWorker
  <1>1. ASSUME UNCHANGED <<releaseVars, worker>> PROVE NoRelease BY <1>1 DEF NoRelease
  <1>2. ASSUME NEW w \in Workers, NEW r \in Requests, HandleDegradedLockRequest(w, r) PROVE NoRelease
    <2>1. worker'[w].pc = "surviving" /\ \A v \in Workers \ {w} : worker'[v] = worker[v]
      BY <1>0, <1>2 DEF HandleDegradedLockRequest, IdleWorker
    <2> QED BY <1>2, <2>1 DEF NoRelease, HandleDegradedLockRequest
  <1>3. ASSUME NEW w \in Workers, NEW s \in Servers, CheckSurviving(w, s) PROVE NoRelease
    <2>1. /\ worker'[w].pc \in {"surviving", "targets"}
          /\ \A v \in Workers \ {w} : worker'[v] = worker[v]
      BY <1>0, <1>3 DEF CheckSurviving, WorkerRecords
    <2> QED BY <1>3, <2>1 DEF NoRelease, CheckSurviving
  <1>4. ASSUME NEW w \in Workers, NEW s \in Servers, CheckTarget(w, s) PROVE NoRelease
    <2>1. worker'[w].pc = "targets" /\ \A v \in Workers \ {w} : worker'[v] = worker[v]
      BY <1>0, <1>4 DEF CheckTarget, WorkerRecords
    <2> QED BY <1>4, <2>1 DEF NoRelease, CheckTarget
  <1>5. ASSUME NEW w \in Workers, InsertDegradedLock(w) PROVE NoRelease
    <2>1. worker'[w].pc = "idle" /\ \A v \in Workers \ {w} : worker'[v] = worker[v]
      BY <1>0, <1>5, <1>i DEF InsertDegradedLock
    <2> QED BY <1>5, <2>1 DEF NoRelease, InsertDegradedLock
  <1>6. ASSUME NEW w \in Workers, NEW s \in Servers, HandleReleaseRequest(w, s), Locked = {}
        PROVE  NoRelease
    BY <1>1, <1>6 DEF HandleReleaseRequest, releaseVars
  <1> QED BY <1>1, <1>2, <1>3, <1>4, <1>5, <1>6
      DEF Next, TransitStep, WorkerStep, Advance, TransitToNormalEnd, ReleaseDegradedLock,
          TransitToNormal, SendDegradedLockRequest, SyncRemappedData, DecrementRemappedDataRequest

(* What AddReleaseDegradedLock sends: a new request with as many chunks as *)
(* it counts.                                                              *)
LEMMA AddedRequest ==
    ASSUME LocksInv, NEW w \in Workers, NEW d \in Servers, AddReleaseDegradedLock(w, d)
    PROVE  \E m \in Releases :
            /\ m.id = worker[w].id /\ m.for = worker[w].for /\ m.dst = d /\ m.chunks # {}
            /\ m \notin InFlight /\ InFlight' = InFlight \cup {m} /\ migrating' = migrating \cup {m}
            /\ pending' = Counted(m.id, Weight[m])
            /\ \A c \in worker'[w].chunks : c \in worker[w].chunks /\ c[2] # d
            /\ \A v \in Workers \ {w} : worker'[v] = worker[v]
            /\ worker'[w].pc = "release" =>
                    /\ worker'[w].id = worker[w].id /\ worker'[w].for = worker[w].for
                    /\ worker'[w].chunks # {}
            /\ worker'[w].pc # "release" => worker'[w] = IdleWorker
  <1> DEFINE mine == {c \in worker[w].chunks : c[2] = d}
             m == [id |-> worker[w].id, for |-> worker[w].for, dst |-> d,
                   chunks |-> {c[1] : c \in mine}]
  <1>0. worker \in [Workers -> WorkerRecords] BY DEF LocksInv, TypeOK, WorkerRecords
  <1>1. /\ worker[w].pc = "release" /\ mine # {}
        /\ pending' = Counted(worker[w].id, ReleaseCount(mine))
        /\ migrating' = migrating \cup {m} /\ UNCHANGED responses
        /\ worker' = [worker EXCEPT ![w] =
                IF mine = @.chunks THEN IdleWorker ELSE [worker[w] EXCEPT !.chunks = @ \ mine]]
    BY DEF AddReleaseDegradedLock
  <1>2. worker[w].for \in Servers BY <1>1 DEF LocksInv, RequestsDistinct
  <1>3. mine \subseteq Chunks \X Servers BY <1>0 DEF WorkerRecords
  <1>4. m \in Releases BY <1>0, <1>2, <1>3 DEF Releases, WorkerRecords
  <1>5. Cardinality(m.chunks) = Cardinality(mine)
    <2> DEFINE f == [c \in mine |-> c[1]]
    <2>1. IsFiniteSet(mine)
      <3>1. IsFiniteSet(Chunks \X Servers) BY ChunksFinite, NetworkAssumption, FS_Product
      <3> QED BY <1>3, <3>1, FS_Subset
    <2>2. \A a, b \in mine : a[1] = b[1] => a = b BY <1>3
    <2>3. f \in Bijection(mine, m.chunks)
      BY <2>2 DEF Bijection, Injection, Surjection, IsInjective
    <2> QED BY <2>1, <2>3, FS_Bijection DEF ExistsBijection
  <1>6. m \notin InFlight
    <2>1. PICK c \in mine : TRUE BY <1>1
    <2> QED BY <1>1, <2>1 DEF LocksInv, RequestsDistinct
  <1>7. InFlight' = InFlight \cup {m} BY <1>1 DEF InFlight
  <1>8. worker'[w] = IF mine = worker[w].chunks THEN IdleWorker
                     ELSE [worker[w] EXCEPT !.chunks = @ \ mine]
    BY <1>0, <1>1
  <1>9. pending' = Counted(m.id, Weight[m]) BY <1>1, <1>4, <1>5, WeightOf DEF ReleaseCount
  <1>10. \A c \in worker'[w].chunks : c \in worker[w].chunks /\ c[2] # d
    BY <1>0, <1>8 DEF IdleWorker, WorkerRecords
  <1>11. /\ worker'[w].pc = "release" =>
                    /\ worker'[w].id = worker[w].id /\ worker'[w].for = worker[w].for
                    /\ worker'[w].chunks # {}
         /\ worker'[w].pc # "release" => worker'[w] = IdleWorker
    BY <1>0, <1>1, <1>8 DEF IdleWorker, WorkerRecords
  <1>12. \A v \in Workers \ {w} : worker'[v] = worker[v] BY <1>0, <1>1
  <1>13. m.chunks # {} BY <1>1
  <1> WITNESS m \in Releases
  <1> QED BY <1>1, <1>6, <1>7, <1>9, <1>10, <1>11, <1>12, <1>13

LEMMA RequestsDistinctStep ==
    ASSUME LocksInv, TypeOK', Next
    PROVE  RequestsDistinct'
  <1>0. /\ RequestsDistinct /\ lastId \in Nat /\ worker \in [Workers -> WorkerRecords]
        /\ migrating \subseteq Releases
    BY DEF LocksInv, TypeOK, WorkerRecords
  <1>1. CASE NoRelease BY <1>0, <1>1 DEF NoRelease, RequestsDistinct, InFlight, releaseVars
  <1>2. ASSUME NEW w \in Workers, NEW s \in Servers, HandleReleaseRequest(w, s), Locked # {}
        PROVE  RequestsDistinct'
    <2>1. lastId' = lastId + 1 /\ UNCHANGED <<migrating, responses>> /\ InFlight' = InFlight
      BY <1>2 DEF HandleReleaseRequest, InFlight
    <2>2. 1 .. lastId \subseteq 1 .. lastId' /\ lastId' \in 1 .. lastId' /\ lastId' \notin 1 .. lastId
      BY <1>0, <2>1
    <2>3. /\ worker'[w].pc = "release" /\ worker'[w].id = lastId' /\ worker'[w].for = s
          /\ \A v \in Workers \ {w} : worker'[v] = worker[v]
      BY <1>0, <1>2 DEF HandleReleaseRequest, IdleWorker
    <2>4. \A v \in Workers \ {w} : worker[v].pc = "release" => worker[v].id \in 1 .. lastId
      BY <1>0 DEF RequestsDistinct
    <2>5. ASSUME NEW v \in Workers, worker'[v].pc = "release"
          PROVE  /\ worker'[v].id \in 1 .. lastId' /\ worker'[v].for \in Servers
                 /\ \A m \in InFlight' : m.id = worker'[v].id =>
                        \A c \in worker'[v].chunks : c[2] # m.dst
                 /\ \A u \in Workers :
                        worker'[u].pc = "release" /\ worker'[u].id = worker'[v].id => u = v
      <3>1. CASE v = w BY <1>0, <2>1, <2>2, <2>3, <2>4, <3>1 DEF RequestsDistinct
      <3>2. CASE v # w BY <1>0, <2>1, <2>2, <2>3, <2>4, <2>5, <3>2 DEF RequestsDistinct
      <3> QED BY <3>1, <3>2
    <2> QED BY <1>0, <2>1, <2>2, <2>5 DEF RequestsDistinct
  <1>3. ASSUME NEW w \in Workers, NEW d \in Servers, AddReleaseDegradedLock(w, d)
        PROVE  RequestsDistinct'
    <2>1. PICK m \in Releases :
            /\ m.id = worker[w].id /\ m.for = worker[w].for /\ m.dst = d /\ m.chunks # {}
            /\ m \notin InFlight /\ InFlight' = InFlight \cup {m} /\ migrating' = migrating \cup {m}
            /\ pending' = Counted(m.id, Weight[m])
            /\ \A c \in worker'[w].chunks : c \in worker[w].chunks /\ c[2] # d
            /\ \A v \in Workers \ {w} : worker'[v] = worker[v]
            /\ worker'[w].pc = "release" =>
                    /\ worker'[w].id = worker[w].id /\ worker'[w].for = worker[w].for
                    /\ worker'[w].chunks # {}
            /\ worker'[w].pc # "release" => worker'[w] = IdleWorker
      BY <1>3, AddedRequest
    <2>2. /\ UNCHANGED <<lastId, responses>> /\ worker[w].pc = "release"
          /\ \E c \in worker[w].chunks : c[2] = d
      BY <1>3 DEF AddReleaseDegradedLock
    <2>3. IsFiniteSet(migrating') BY <1>0, <2>1, FS_AddElement DEF RequestsDistinct
    <2>4. migrating' \cap responses' = {} BY <1>0, <2>1, <2>2 DEF RequestsDistinct, InFlight
    <2>5. \A n \in InFlight' : n.chunks # {} /\ n.id \in 1 .. lastId'
      BY <1>0, <2>1, <2>2 DEF RequestsDistinct
    <2>6. \A n \in InFlight : n.id = m.id => n.dst # m.dst
      BY <1>0, <2>1, <2>2 DEF RequestsDistinct
    <2>7. \A n, o \in InFlight' : n.id = o.id /\ n.dst = o.dst => n = o
      BY <1>0, <2>1, <2>6 DEF RequestsDistinct
    <2>8. ASSUME NEW v \in Workers, worker'[v].pc = "release"
          PROVE  /\ worker'[v].id \in 1 .. lastId' /\ worker'[v].for \in Servers
                 /\ \A n \in InFlight' : n.id = worker'[v].id =>
                        \A c \in worker'[v].chunks : c[2] # n.dst
                 /\ \A u \in Workers :
                        worker'[u].pc = "release" /\ worker'[u].id = worker'[v].id => u = v
      <3>1. worker[v].pc = "release" /\ worker'[v].id = worker[v].id /\ worker'[v].for = worker[v].for
        BY <2>1, <2>2, <2>8
      <3>2. worker[v].id = worker[w].id => v = w BY <1>0, <2>2, <3>1 DEF RequestsDistinct
      <3>3. \A c \in worker'[v].chunks : c \in worker[v].chunks BY <2>1
      <3>4. \A n \in InFlight' : n.id = worker'[v].id => \A c \in worker'[v].chunks : c[2] # n.dst
        <4> SUFFICES ASSUME NEW n \in InFlight', n.id = worker'[v].id, NEW c \in worker'[v].chunks
                     PROVE  c[2] # n.dst
          OBVIOUS
        <4>1. CASE n = m BY <2>1, <3>1, <3>2, <4>1
        <4>2. CASE n \in InFlight BY <1>0, <3>1, <3>3, <4>2 DEF RequestsDistinct
        <4> QED BY <2>1, <4>1, <4>2
      <3>5. \A u \in Workers : worker'[u].pc = "release" =>
                worker[u].pc = "release" /\ worker'[u].id = worker[u].id
        BY <2>1, <2>2
      <3> QED BY <1>0, <2>2, <3>1, <3>4, <3>5 DEF RequestsDistinct
    <2> QED BY <1>0, <2>2, <2>3, <2>4, <2>5, <2>7, <2>8 DEF RequestsDistinct
  <1>4. ASSUME NEW m \in migrating, SetChunkResponse(m) PROVE RequestsDistinct'
    <2>1. /\ migrating' = migrating \ {m} /\ responses' = responses \cup {m}
          /\ UNCHANGED <<worker, lastId>>
      BY <1>4 DEF SetChunkResponse
    <2>2. InFlight' = InFlight BY <2>1 DEF InFlight
    <2>3. IsFiniteSet(migrating') /\ IsFiniteSet(responses') /\ migrating' \cap responses' = {}
      BY <1>0, <2>1, FS_AddElement, FS_RemoveElement DEF RequestsDistinct
    <2> QED BY <1>0, <2>1, <2>2, <2>3 DEF RequestsDistinct
  <1>5. ASSUME NEW w \in Workers, NEW m \in responses, HandleReleaseResponse(w, m)
        PROVE  RequestsDistinct'
    <2>1. responses' = responses \ {m} /\ UNCHANGED <<worker, lastId, migrating>>
      BY <1>5 DEF HandleReleaseResponse
    <2>2. InFlight' \subseteq InFlight BY <2>1 DEF InFlight
    <2>3. IsFiniteSet(responses') /\ migrating' \cap responses' = {}
      BY <1>0, <2>1, FS_RemoveElement DEF RequestsDistinct
    <2> QED BY <1>0, <2>1, <2>2, <2>3 DEF RequestsDistinct
  <1> QED BY <1>1, <1>2, <1>3, <1>4, <1>5, ReleaseStepKinds DEF LocksInv

LEMMA ReleaseCountStep ==
    ASSUME LocksInv, TypeOK', RequestsDistinct', Next
    PROVE  ReleaseCountExact'
  <1> DEFINE Sum(S) == SumFunctionOnSet(Weight, S)
  <1>0. /\ TypeOK /\ RequestsDistinct /\ lastId \in Nat /\ DOMAIN pending \subseteq 1 .. lastId
        /\ \A i \in 1 .. lastId : Count(i) = Sum(Requested(i))
    BY CountsAre DEF LocksInv, TypeOK, RequestsDistinct
  <1>R. /\ \A i : Requested(i) = {m \in InFlight : m.id = i}
        /\ \A i : Requested(i)' = {m \in InFlight' : m.id = i}
    BY DEF Requested, InFlight
  <1> SUFFICES ASSUME NEW i \in 1 .. lastId' PROVE Count(i)' = Sum(Requested(i)')
    <2>1. /\ IsFiniteSet(migrating') /\ IsFiniteSet(responses') BY DEF RequestsDistinct
    <2>2. \A j : SumFunctionOnSet([m \in Requested(j)' |-> Cardinality(m.chunks)], Requested(j)')
                    = Sum(Requested(j)')
      <3> SUFFICES ASSUME NEW j
                   PROVE  SumFunctionOnSet([m \in Requested(j)' |-> Cardinality(m.chunks)],
                                           Requested(j)') = Sum(Requested(j)')
        OBVIOUS
      <3>1. IsFiniteSet(migrating' \cup responses') BY <2>1, FS_Union
      <3>2. IsFiniteSet(Requested(j)') BY <3>1, FS_Subset DEF Requested
      <3>3. \A m \in Requested(j)' : m \in Releases BY DEF Requested, TypeOK
      <3> QED BY <3>2, <3>3, SumSame DEF Weight
    <2> QED BY <2>2 DEF ReleaseCountExact
  <1> HIDE DEF Sum
  <1>1. CASE UNCHANGED <<InFlight, pending, lastId>> BY <1>0, <1>R, <1>1 DEF Count
  <1>2. ASSUME NEW w \in Workers, NEW s \in Servers, HandleReleaseRequest(w, s), Locked # {}
        PROVE  Count(i)' = Sum(Requested(i)')
    <2>1. lastId' = lastId + 1 /\ UNCHANGED <<migrating, responses, pending>>
      BY <1>2 DEF HandleReleaseRequest
    <2>2. InFlight' = InFlight BY <2>1 DEF InFlight
    <2>3. CASE i = lastId + 1
      <3>1. i \notin 1 .. lastId BY <1>0, <2>3
      <3>2. Requested(i)' = {} BY <1>0, <1>R, <2>2, <3>1 DEF RequestsDistinct
      <3>3. Count(i)' = 0 BY <1>0, <2>1, <3>1 DEF Count
      <3> QED BY <3>2, <3>3, SumEmpty DEF Sum
    <2>4. CASE i \in 1 .. lastId BY <1>0, <1>R, <2>1, <2>2, <2>4 DEF Count
    <2> QED BY <1>0, <2>1, <2>3, <2>4
  <1>3. ASSUME NEW w \in Workers, NEW d \in Servers, AddReleaseDegradedLock(w, d)
        PROVE  Count(i)' = Sum(Requested(i)')
    <2>1. PICK m \in Releases :
            /\ m.id = worker[w].id /\ m \notin InFlight /\ InFlight' = InFlight \cup {m}
            /\ pending' = Counted(m.id, Weight[m])
      BY <1>3, AddedRequest
    <2>2. UNCHANGED lastId BY <1>3 DEF AddReleaseDegradedLock
    <2>3. DOMAIN pending' = DOMAIN pending \cup {m.id} BY <2>1 DEF Counted
    <2>4. CASE i = m.id
      <3>1. Count(i)' = Count(i) + Weight[m] BY <2>1, <2>3, <2>4 DEF Count, Counted
      <3>2. IsFiniteSet(Requested(i)) /\ Requested(i) \subseteq Releases
        BY <1>0, RequestedFinite DEF RequestsDistinct
      <3>3. Requested(i)' = Requested(i) \cup {m} /\ m \notin Requested(i) BY <1>R, <2>1, <2>4
      <3>4. \A y \in Requested(i) \cup {m} : Weight[y] \in Int BY <3>2, WeightOf
      <3>5. Sum(Requested(i) \cup {m}) = Weight[m] + Sum(Requested(i))
        BY <3>2, <3>3, <3>4, SumInsert DEF Sum
      <3>6. Sum(Requested(i)) \in Nat /\ Weight[m] \in Nat
        <4>1. \A y \in Requested(i) : Weight[y] \in Nat BY <3>2, WeightOf
        <4> QED BY <3>2, <4>1, SumType, WeightOf DEF Sum
      <3>7. Count(i) = Sum(Requested(i)) BY <1>0, <2>2
      <3> QED BY <3>1, <3>3, <3>5, <3>6, <3>7
    <2>5. CASE i # m.id
      <3>1. Count(i)' = Count(i) BY <2>1, <2>3, <2>5 DEF Count, Counted
      <3>2. Requested(i)' = Requested(i) BY <1>R, <2>1, <2>5
      <3> QED BY <1>0, <2>2, <3>1, <3>2
    <2> QED BY <2>4, <2>5
  <1>4. ASSUME NEW w \in Workers, NEW m \in responses, HandleReleaseResponse(w, m)
        PROVE  Count(i)' = Sum(Requested(i)')
    <2>1. /\ responses' = responses \ {m} /\ UNCHANGED <<worker, lastId, migrating>>
          /\ pending' = Uncounted(m.id, Confirmed(m))
      BY <1>4 DEF HandleReleaseResponse
    <2>2. InFlight' = InFlight \ {m} /\ m \in InFlight
      BY <1>0, <2>1 DEF InFlight, RequestsDistinct
    <2>3. /\ Confirmed(m) \in Nat \ {0} /\ m.id \in DOMAIN pending
          /\ Sum(Requested(m.id) \ {m}) \in Nat
          /\ pending[m.id] = Confirmed(m) + Sum(Requested(m.id) \ {m})
      BY <2>2, CountCovers DEF Sum
    <2>4. CASE i = m.id
      <3>1. Requested(i)' = Requested(m.id) \ {m} BY <1>R, <2>2, <2>4
      <3>2. Count(i) = pending[m.id] BY <2>3, <2>4 DEF Count
      <3>3. CASE Count(i) = Confirmed(m)
        <4>1. Count(i)' = 0 BY <2>1, <2>4, <3>3 DEF Count, Uncounted
        <4> QED BY <2>3, <3>1, <3>2, <3>3, <4>1
      <3>4. CASE Count(i) # Confirmed(m)
        <4>1. Count(i)' = pending[m.id] - Confirmed(m) BY <2>1, <2>3, <2>4, <3>4 DEF Count, Uncounted
        <4> QED BY <2>3, <3>1, <4>1
      <3> QED BY <3>3, <3>4
    <2>5. CASE i # m.id
      <3>1. Count(i)' = Count(i) BY <2>1, <2>5 DEF Count, Uncounted
      <3>2. Requested(i)' = Requested(i) BY <1>R, <2>2, <2>5
      <3> QED BY <1>0, <2>1, <3>1, <3>2
    <2> QED BY <2>4, <2>5
  <1>5. ASSUME NEW m \in migrating, SetChunkResponse(m) PROVE Count(i)' = Sum(Requested(i)')
    BY <1>1, <1>5 DEF SetChunkResponse, InFlight
  <1>6. CASE NoRelease BY <1>1, <1>6 DEF NoRelease, releaseVars, InFlight
  <1> QED BY <1>0, <1>2, <1>3, <1>4, <1>5, <1>6, ReleaseStepKinds

LEMMA LocksInvariant == Spec => []LocksInv
  <1>1. Init => LocksInv
    <2> SUFFICES ASSUME Init PROVE LocksInv OBVIOUS
    <2>1. worker \in [Workers -> WorkerRecords] BY IdleWorkerType DEF Init
    <2>2. NoLocks \in [Stripes -> Redirections] BY RedirectionsAre DEF NoLocks
    <2>3. DOMAIN pending = {} /\ pending \in [DOMAIN pending -> Nat \ {0}] BY DEF Init
    <2>4. TypeOK
      <3>1. switches \in 0 .. MaxSwitches BY LocksAssumption DEF Init
      <3>2. DOMAIN pending \subseteq 1 .. lastId BY <2>3
      <3>3. serversState \in [Servers -> CoordStates] BY DEF Init, CoordStates
      <3> QED BY <2>1, <2>2, <2>3, <3>1, <3>2, <3>3 DEF Init, TypeOK, WorkerRecords
    <2>5. RequestsDistinct BY FS_EmptySet DEF Init, RequestsDistinct, InFlight, IdleWorker
    <2>6. lastId = 0 BY DEF Init
    <2>7. ReleaseCountExact BY <2>6 DEF ReleaseCountExact
    <2> QED BY <2>4, <2>5, <2>7 DEF LocksInv
  <1>2. LocksInv /\ [Next]_vars => LocksInv'
    <2> SUFFICES ASSUME LocksInv, [Next]_vars PROVE LocksInv' OBVIOUS
    <2>1. CASE Next
      <3>1. TypeOK' BY <2>1, LocksTypeStep
      <3>2. RequestsDistinct' BY <2>1, <3>1, RequestsDistinctStep
      <3> QED BY <2>1, <3>1, <3>2, ReleaseCountStep DEF LocksInv
    <2>2. CASE UNCHANGED vars
      BY <2>2 DEF LocksInv, TypeOK, RequestsDistinct, ReleaseCountExact, InFlight, Requested, Count,
         vars, stateVars, returnVars, lockVars, releaseVars
    <2> QED BY <2>1, <2>2
  <1> QED BY <1>1, <1>2, PTL DEF Spec

(* The pending count of every release is the number of chunks at the       *)
(* servers or confirmed but not yet handled, however many threads count    *)
(* and confirm at the same time: Pending::addReleaseDegradedLock and       *)
(* removeReleaseDegradedLock never lose or underflow a count.              *)
THEOREM ReleasesCounted == Spec => []ReleaseCountExact
  BY LocksInvariant, PTL DEF LocksInv

(* The state of the coordinator's locks and releases keeps its types; in   *)
(* particular no pending count becomes zero or negative while its entry    *)
(* exists.                                                                 *)
THEOREM LocksTypeCorrect == Spec => []TypeOK
  BY LocksInvariant, PTL DEF LocksInv
-----------------------------------------------------------------------------
(* Locks keep their redirections                                           *)

(* A lock that exists keeps its redirections, whatever number of threads   *)
(* insert and expand locks at the same time: Map::insertDegradedLock and   *)
(* DegradedLock::expand only ever add entries.                             *)
THEOREM RedirectionsKept == Spec => RedirectionStable
  <1>1. LocksInv /\ [Next]_vars => [InsertKeepsRedirections]_vars
    <2> SUFFICES ASSUME LocksInv, NEW w \in Workers, InsertDegradedLock(w),
                        NEW t \in Stripes, NEW s \in DOMAIN degradedLocks[t]
                 PROVE  s \in DOMAIN degradedLocks'[t] /\ degradedLocks'[t][s] = degradedLocks[t][s]
      BY DEF InsertKeepsRedirections
    <2> DEFINE x == worker[w].stripe
               targets == worker[w].targets
    <2>1. degradedLocks \in [Stripes -> Redirections] BY DEF LocksInv, TypeOK
    <2>2. CASE degradedLocks[x] # NoLock
      <3>1. degradedLocks' = [degradedLocks EXCEPT ![x] = Joined(@, targets)]
        BY <2>2 DEF InsertDegradedLock, Expand
      <3>2. degradedLocks'[t] = IF t = x THEN Joined(degradedLocks[t], targets) ELSE degradedLocks[t]
        BY <2>1, <3>1
      <3> QED BY <3>2 DEF Joined
    <2>3. CASE degradedLocks[x] = NoLock
      <3>1. t # x BY <2>3 DEF NoLock
      <3>2. degradedLocks'[t] = degradedLocks[t] BY <2>1, <2>3, <3>1 DEF InsertDegradedLock
      <3> QED BY <3>2
    <2> QED BY <2>2, <2>3
  <1> QED BY <1>1, LocksInvariant, PTL DEF Spec, RedirectionStable
-----------------------------------------------------------------------------
(* One thread                                                              *)

(* Only a worker in a release has chunks to release.                       *)
WorkersClean ==
    \A w \in Workers : worker[w].pc # "release" => worker[w].for = None /\ worker[w].chunks = {}

(* Answers to PARITY_MIGRATE are only awaited by the synchronization, and  *)
(* nothing has told the thread before the step it waits for has begun.     *)
SyncFirst ==
    \A s \in Servers :
        /\ returning[s] # "sync" => syncing[s] = {}
        /\ returning[s] = "sync" /\ done[s] => syncing[s] = {}
        /\ returning[s] \in {"sync request", "release request"} => ~done[s]

(* What is released for a server belongs to one release, the one that its  *)
(* transition waits for.                                                   *)
OneRelease ==
    /\ \A m \in InFlight : returning[m.for] = "release" /\ ~done[m.for]
    /\ \A w \in Workers : worker[w].pc = "release" =>
            returning[worker[w].for] = "release" /\ ~done[worker[w].for]
    /\ \A m, n \in InFlight : m.for = n.for => m.id = n.id
    /\ \A w \in Workers : worker[w].pc = "release" =>
            \A m \in InFlight : m.for = worker[w].for => m.id = worker[w].id

ReturnInv == WorkersClean /\ SyncFirst /\ OneRelease

LEMMA WorkersCleanStep ==
    ASSUME LocksInv, WorkersClean, Next
    PROVE  WorkersClean'
  <1>0. worker \in [Workers -> WorkerRecords] BY DEF LocksInv, TypeOK, WorkerRecords
  <1>i. IdleWorker.for = None /\ IdleWorker.chunks = {} BY DEF IdleWorker
  <1>1. CASE UNCHANGED worker BY <1>1 DEF WorkersClean
  <1>2. ASSUME NEW w \in Workers, \A v \in Workers \ {w} : worker'[v] = worker[v],
               \/ worker'[w].pc = "release"
               \/ worker'[w].for = None /\ worker'[w].chunks = {}
        PROVE  WorkersClean'
    BY <1>2 DEF WorkersClean
  <1>3. ASSUME NEW w \in Workers, NEW r \in Requests, HandleDegradedLockRequest(w, r)
        PROVE  WorkersClean'
    <2>1. /\ worker'[w].for = None /\ worker'[w].chunks = {}
          /\ \A v \in Workers \ {w} : worker'[v] = worker[v]
      BY <1>0, <1>3 DEF HandleDegradedLockRequest, IdleWorker
    <2> QED BY <1>2, <2>1
  <1>4. ASSUME NEW w \in Workers, NEW s \in Servers, CheckSurviving(w, s) PROVE WorkersClean'
    <2>1. /\ worker'[w].for = worker[w].for /\ worker'[w].chunks = worker[w].chunks
          /\ worker[w].pc # "release" /\ \A v \in Workers \ {w} : worker'[v] = worker[v]
      BY <1>0, <1>4 DEF CheckSurviving, WorkerRecords
    <2> QED BY <1>2, <2>1 DEF WorkersClean
  <1>5. ASSUME NEW w \in Workers, NEW s \in Servers, CheckTarget(w, s) PROVE WorkersClean'
    <2>1. /\ worker'[w].for = worker[w].for /\ worker'[w].chunks = worker[w].chunks
          /\ worker[w].pc # "release" /\ \A v \in Workers \ {w} : worker'[v] = worker[v]
      BY <1>0, <1>5 DEF CheckTarget, WorkerRecords
    <2> QED BY <1>2, <2>1 DEF WorkersClean
  <1>6. ASSUME NEW w \in Workers, InsertDegradedLock(w) PROVE WorkersClean'
    <2>1. /\ worker'[w] = IdleWorker /\ \A v \in Workers \ {w} : worker'[v] = worker[v]
      BY <1>0, <1>6 DEF InsertDegradedLock
    <2> QED BY <1>2, <1>i, <2>1
  <1>7. ASSUME NEW w \in Workers, NEW s \in Servers, HandleReleaseRequest(w, s) PROVE WorkersClean'
    <2>1. CASE Locked = {} BY <1>1, <1>7, <2>1 DEF HandleReleaseRequest
    <2>2. CASE Locked # {}
      <3>1. worker'[w].pc = "release" /\ \A v \in Workers \ {w} : worker'[v] = worker[v]
        BY <1>0, <1>7, <2>2 DEF HandleReleaseRequest, IdleWorker
      <3> QED BY <1>2, <3>1
    <2> QED BY <2>1, <2>2
  <1>8. ASSUME NEW w \in Workers, NEW d \in Servers, AddReleaseDegradedLock(w, d) PROVE WorkersClean'
    <2>1. /\ \A v \in Workers \ {w} : worker'[v] = worker[v]
          /\ worker'[w].pc # "release" => worker'[w] = IdleWorker
      BY <1>8, AddedRequest
    <2> QED BY <1>2, <1>i, <2>1
  <1> QED BY <1>1, <1>3, <1>4, <1>5, <1>6, <1>7, <1>8
      DEF Next, TransitStep, WorkerStep, Advance, TransitToNormalEnd, ReleaseDegradedLock,
          TransitToNormal, SendDegradedLockRequest, SyncRemappedData, DecrementRemappedDataRequest,
          SetChunkResponse, HandleReleaseResponse

(* The steps that concern the return of servers.                           *)
ReturnSteps ==
    \/ \E s \in Servers : TransitStep(s)
    \/ \E w \in Workers, s \in Servers : SyncRemappedData(w, s) \/ HandleReleaseRequest(w, s)
    \/ \E w \in Workers, s, p \in Servers : DecrementRemappedDataRequest(w, s, p)
    \/ \E w \in Workers, m \in responses : HandleReleaseResponse(w, m)

LEMMA OtherThanReturn == ASSUME Next, ~ReturnSteps PROVE UNCHANGED returnVars
  BY DEF Next, ReturnSteps, WorkerStep, Advance, SendDegradedLockRequest,
         HandleDegradedLockRequest, CheckSurviving, CheckTarget, InsertDegradedLock,
         AddReleaseDegradedLock, SetChunkResponse

(* A response that completes a release is the last one for its server.     *)
LEMMA LastResponse ==
    ASSUME LocksInv, ReturnInv, \A v, w \in Workers : v = w,
           NEW w \in Workers, NEW m \in responses, HandleReleaseResponse(w, m), ReleaseCompleted(m)
    PROVE  /\ \A n \in InFlight' : n.for # m.for
           /\ \A v \in Workers : worker[v].pc # "release"
  <1>1. m \in InFlight BY DEF InFlight
  <1>2. Requested(m.id) = {m} BY <1>1, CountCovers DEF ReleaseCompleted
  <1>3. \A n \in InFlight : n.for = m.for => n = m
    BY <1>1, <1>2 DEF ReturnInv, OneRelease, Requested, InFlight
  <1>4. InFlight' = InFlight \ {m}
    BY DEF HandleReleaseResponse, InFlight, LocksInv, RequestsDistinct
  <1>5. worker[w].pc = "idle" BY DEF HandleReleaseResponse
  <1> QED BY <1>3, <1>4, <1>5

LEMMA SyncFirstStep ==
    ASSUME LocksInv, ReturnInv, Next
    PROVE  SyncFirst'
  <1>0. /\ returning \in [Servers -> {"no", "sync request", "sync", "release request", "release"}]
        /\ done \in [Servers -> BOOLEAN] /\ syncing \in [Servers -> SUBSET Servers] /\ SyncFirst
    BY DEF LocksInv, TypeOK, ReturnInv
  <1>1. ASSUME NEW s \in Servers, TransitStep(s) PROVE SyncFirst'
    BY <1>0, <1>1 DEF TransitStep, TransitToNormalEnd, ReleaseDegradedLock, TransitToNormal,
       SyncFirst, StateLocked
  <1>2. ASSUME NEW w \in Workers, NEW s \in Servers, SyncRemappedData(w, s) PROVE SyncFirst'
    BY <1>0, <1>2 DEF SyncRemappedData, SyncFirst
  <1>3. ASSUME NEW w \in Workers, NEW s \in Servers, HandleReleaseRequest(w, s) PROVE SyncFirst'
    <2>1. /\ returning[s] = "release request" /\ returning' = [returning EXCEPT ![s] = "release"]
          /\ UNCHANGED syncing /\ (done' = done \/ done' = [done EXCEPT ![s] = TRUE])
      BY <1>3 DEF HandleReleaseRequest
    <2> QED BY <1>0, <2>1 DEF SyncFirst
  <1>4. ASSUME NEW w \in Workers, NEW s \in Servers, NEW p \in Servers,
               DecrementRemappedDataRequest(w, s, p)
        PROVE  SyncFirst'
    <2>1. returning[s] = "sync" BY <1>0, <1>4 DEF DecrementRemappedDataRequest, SyncFirst
    <2> QED BY <1>0, <1>4, <2>1 DEF DecrementRemappedDataRequest, SyncFirst
  <1>5. ASSUME NEW w \in Workers, NEW m \in responses, HandleReleaseResponse(w, m) PROVE SyncFirst'
    <2>1. m.for \in Servers BY DEF LocksInv, TypeOK, Releases
    <2>2. returning[m.for] = "release" BY DEF ReturnInv, OneRelease, InFlight
    <2>3. UNCHANGED <<returning, syncing>> /\ \A s \in Servers \ {m.for} : done'[s] = done[s]
      BY <1>0, <1>5, <2>1 DEF HandleReleaseResponse
    <2> QED BY <1>0, <2>2, <2>3 DEF SyncFirst
  <1>6. CASE UNCHANGED returnVars BY <1>0, <1>6 DEF SyncFirst, returnVars
  <1> QED BY <1>1, <1>2, <1>3, <1>4, <1>5, <1>6, OtherThanReturn DEF ReturnSteps

(* Nothing is in flight, and no worker has anything to release, for s.     *)
NothingFor(s) ==
    /\ \A m \in InFlight : m.for # s
    /\ \A w \in Workers : worker[w].pc = "release" => worker[w].for # s

LEMMA OneReleaseStep ==
    ASSUME LocksInv, ReturnInv, \A v, w \in Workers : v = w, Next
    PROVE  OneRelease'
  <1>0. /\ returning \in [Servers -> {"no", "sync request", "sync", "release request", "release"}]
        /\ done \in [Servers -> BOOLEAN] /\ worker \in [Workers -> WorkerRecords] /\ OneRelease
        /\ \A m \in InFlight : m.for \in Servers
        /\ \A w \in Workers : worker[w].pc = "release" => worker[w].for \in Servers
    BY DEF LocksInv, TypeOK, ReturnInv, InFlight, Releases, RequestsDistinct, WorkerRecords
  <1>1. \A s \in Servers : returning[s] # "release" \/ done[s] => NothingFor(s)
    BY <1>0 DEF OneRelease, NothingFor
  <1>2. ASSUME NEW s \in Servers, NothingFor(s), NoRelease,
               \A x \in Servers \ {s} : returning'[x] = returning[x] /\ done'[x] = done[x]
        PROVE  OneRelease'
    <2>1. InFlight' = InFlight BY <1>2 DEF NoRelease, releaseVars, InFlight
    <2>2. \A w \in Workers : worker'[w].pc = "release" =>
            worker'[w] = worker[w] /\ worker[w].for # s /\ worker[w].for \in Servers
      BY <1>0, <1>2 DEF NoRelease, NothingFor
    <2>3. \A m \in InFlight : returning'[m.for] = "release" /\ ~done'[m.for]
      BY <1>0, <1>2 DEF NothingFor, OneRelease
    <2>4. \A w \in Workers : worker'[w].pc = "release" =>
            /\ worker[w].pc = "release" /\ returning'[worker'[w].for] = "release"
            /\ ~done'[worker'[w].for]
      <3> SUFFICES ASSUME NEW w \in Workers, worker'[w].pc = "release"
                   PROVE  /\ worker[w].pc = "release" /\ returning'[worker'[w].for] = "release"
                          /\ ~done'[worker'[w].for]
        OBVIOUS
      <3>1. worker'[w] = worker[w] /\ worker[w].for \in Servers \ {s} BY <2>2
      <3>2. worker[w].pc = "release" BY <3>1
      <3>3. returning[worker[w].for] = "release" /\ ~done[worker[w].for] BY <1>0, <3>2 DEF OneRelease
      <3>4. /\ returning'[worker[w].for] = returning[worker[w].for]
            /\ done'[worker[w].for] = done[worker[w].for]
        BY <1>2, <3>1
      <3> QED BY <3>1, <3>2, <3>3, <3>4
    <2> QED BY <1>0, <2>1, <2>2, <2>3, <2>4 DEF OneRelease
  <1>3. ASSUME UNCHANGED <<releaseVars, worker>> PROVE NoRelease BY <1>3 DEF NoRelease
  <1>4. ASSUME NEW s \in Servers, TransitStep(s) PROVE OneRelease'
    <2>1. returning[s] # "release" \/ done[s]
      BY <1>4 DEF TransitStep, TransitToNormalEnd, ReleaseDegradedLock, TransitToNormal, StateLocked
    <2>2. NoRelease BY <1>3, <1>4
      DEF TransitStep, TransitToNormalEnd, ReleaseDegradedLock, TransitToNormal
    <2>3. \A x \in Servers \ {s} : returning'[x] = returning[x] /\ done'[x] = done[x]
      BY <1>0, <1>4 DEF TransitStep, TransitToNormalEnd, ReleaseDegradedLock, TransitToNormal
    <2> QED BY <1>1, <1>2, <2>1, <2>2, <2>3
  <1>5. ASSUME NEW w \in Workers, NEW s \in Servers, SyncRemappedData(w, s) PROVE OneRelease'
    <2>1. /\ returning[s] # "release" /\ UNCHANGED <<releaseVars, worker>>
          /\ \A x \in Servers \ {s} : returning'[x] = returning[x] /\ done'[x] = done[x]
      BY <1>0, <1>5 DEF SyncRemappedData
    <2> QED BY <1>1, <1>2, <1>3, <2>1
  <1>6. ASSUME NEW w \in Workers, NEW s \in Servers, NEW p \in Servers,
               DecrementRemappedDataRequest(w, s, p)
        PROVE  OneRelease'
    <2>1. returning[s] = "sync" BY <1>6 DEF DecrementRemappedDataRequest, ReturnInv, SyncFirst
    <2>2. /\ UNCHANGED <<releaseVars, worker>>
          /\ \A x \in Servers \ {s} : returning'[x] = returning[x] /\ done'[x] = done[x]
      BY <1>0, <1>6 DEF DecrementRemappedDataRequest
    <2> QED BY <1>1, <1>2, <1>3, <2>1, <2>2
  <1>7. ASSUME NEW w \in Workers, NEW s \in Servers, HandleReleaseRequest(w, s) PROVE OneRelease'
    <2>1. /\ returning[s] = "release request" /\ returning' = [returning EXCEPT ![s] = "release"]
          /\ UNCHANGED <<migrating, responses>>
      BY <1>7 DEF HandleReleaseRequest
    <2>2. NothingFor(s) BY <1>1, <2>1
    <2>3. CASE Locked = {}
      <3>1. /\ UNCHANGED <<releaseVars, worker>> /\ done' = [done EXCEPT ![s] = TRUE]
        BY <1>7, <2>3 DEF HandleReleaseRequest, releaseVars
      <3>2. \A x \in Servers \ {s} : returning'[x] = returning[x] /\ done'[x] = done[x]
        BY <1>0, <2>1, <3>1
      <3> QED BY <1>2, <1>3, <2>2, <3>1, <3>2
    <2>4. CASE Locked # {}
      <3>1. UNCHANGED done /\ worker'[w].for = s
        <4>1. /\ UNCHANGED done
              /\ worker' = [worker EXCEPT ![w] = [IdleWorker EXCEPT !.pc = "release", !.for = s,
                                                   !.id = lastId', !.chunks = Locked]]
          BY <1>7, <2>4 DEF HandleReleaseRequest
        <4> QED BY <1>0, <4>1 DEF IdleWorker
      <3>2. InFlight' = InFlight BY <2>1 DEF InFlight
      <3>3. ~done[s] BY <2>1 DEF ReturnInv, SyncFirst
      <3>4. \A v \in Workers : v = w OBVIOUS
      <3>5. returning'[s] = "release" /\ \A x \in Servers \ {s} : returning'[x] = returning[x]
        BY <1>0, <2>1
      <3> QED BY <1>0, <2>2, <3>1, <3>2, <3>3, <3>4, <3>5 DEF OneRelease, NothingFor
    <2> QED BY <2>3, <2>4
  <1>8. ASSUME NEW w \in Workers, NEW m \in responses, HandleReleaseResponse(w, m) PROVE OneRelease'
    <2>1. /\ UNCHANGED <<returning, worker, migrating>> /\ responses' = responses \ {m}
          /\ done' = [done EXCEPT ![m.for] = @ \/ ReleaseCompleted(m)]
      BY <1>8 DEF HandleReleaseResponse
    <2>2. InFlight' \subseteq InFlight /\ m \in InFlight BY <2>1 DEF InFlight
    <2>3. CASE ReleaseCompleted(m)
      <3>1. /\ \A n \in InFlight' : n.for # m.for
            /\ \A v \in Workers : worker[v].pc # "release"
        BY <1>8, <2>3, LastResponse
      <3>2. \A x \in Servers \ {m.for} : done'[x] = done[x] BY <1>0, <2>1
      <3> QED BY <1>0, <2>1, <2>2, <3>1, <3>2 DEF OneRelease
    <2>4. CASE ~ReleaseCompleted(m)
      <3>1. \A x \in Servers : done'[x] = done[x] BY <1>0, <2>1, <2>4
      <3> QED BY <1>0, <2>1, <2>2, <3>1 DEF OneRelease
    <2> QED BY <2>3, <2>4
  <1>9. ASSUME NEW w \in Workers, NEW d \in Servers, AddReleaseDegradedLock(w, d) PROVE OneRelease'
    <2>1. PICK m \in Releases :
            /\ m.id = worker[w].id /\ m.for = worker[w].for /\ InFlight' = InFlight \cup {m}
            /\ \A v \in Workers \ {w} : worker'[v] = worker[v]
            /\ worker'[w].pc = "release" =>
                    worker'[w].id = worker[w].id /\ worker'[w].for = worker[w].for
      BY <1>9, AddedRequest
    <2>2. worker[w].pc = "release" /\ UNCHANGED <<returning, done>>
      BY <1>9 DEF AddReleaseDegradedLock, returnVars
    <2>3. \A v \in Workers : v = w OBVIOUS
    <2>4. /\ returning[m.for] = "release" /\ ~done[m.for]
          /\ \A n \in InFlight : n.for = m.for => n.id = m.id
      BY <1>0, <2>1, <2>2 DEF OneRelease
    <2>5. \A n \in InFlight' : returning[n.for] = "release" /\ ~done[n.for]
      BY <1>0, <2>1, <2>4 DEF OneRelease
    <2>6. \A n, o \in InFlight' : n.for = o.for => n.id = o.id
      BY <1>0, <2>1, <2>4 DEF OneRelease
    <2>7. \A v \in Workers : worker'[v].pc = "release" =>
            worker'[v].id = m.id /\ worker'[v].for = m.for
      BY <2>1, <2>3
    <2> HIDE DEF InFlight
    <2>8. ASSUME NEW v \in Workers, worker'[v].pc = "release"
          PROVE  /\ returning'[worker'[v].for] = "release" /\ ~done'[worker'[v].for]
                 /\ \A n \in InFlight' : n.for = worker'[v].for => n.id = worker'[v].id
      <3>1. worker'[v].id = m.id /\ worker'[v].for = m.for BY <2>7, <2>8
      <3>2. m \in InFlight' BY <2>1
      <3> QED BY <2>2, <2>4, <2>6, <3>1, <3>2
    <2> QED BY <2>2, <2>5, <2>6, <2>8 DEF OneRelease
  <1>10. ASSUME NEW m \in migrating, SetChunkResponse(m) PROVE OneRelease'
    <2>1. UNCHANGED <<returning, done, worker>> /\ InFlight' = InFlight
      BY <1>10 DEF SetChunkResponse, returnVars, InFlight
    <2> QED BY <1>0, <2>1 DEF OneRelease
  <1>11. CASE NoRelease /\ UNCHANGED returnVars
    <2>1. InFlight' = InFlight /\ UNCHANGED <<returning, done>>
      BY <1>11 DEF NoRelease, releaseVars, InFlight, returnVars
    <2>2. \A w \in Workers : worker'[w].pc = "release" => worker'[w] = worker[w]
      BY <1>11 DEF NoRelease
    <2>3. ASSUME NEW v \in Workers, worker'[v].pc = "release"
          PROVE  /\ returning'[worker'[v].for] = "release" /\ ~done'[worker'[v].for]
                 /\ \A n \in InFlight' : n.for = worker'[v].for => n.id = worker'[v].id
      <3>1. worker'[v] = worker[v] BY <2>2, <2>3
      <3>2. worker[v].pc = "release" BY <2>3, <3>1
      <3> QED BY <1>0, <2>1, <3>1, <3>2 DEF OneRelease
    <2> QED BY <1>0, <2>1, <2>3 DEF OneRelease
  <1>12. CASE ReturnSteps BY <1>4, <1>5, <1>6, <1>7, <1>8, <1>12 DEF ReturnSteps
  <1>13. CASE ~ReturnSteps
    BY <1>7, <1>8, <1>9, <1>10, <1>11, <1>13, OtherThanReturn, ReleaseStepKinds DEF LocksInv
  <1> QED BY <1>12, <1>13

(* With one thread in the pool of CoordinatorWorkers, a server becomes     *)
(* NORMAL only when all chunks that its release moves are back, whichever  *)
(* servers fail and return in between: the thread counts all requests of a *)
(* release before it handles the first response.  (With two threads, run   *)
(* release_early shows the opposite.)                                      *)
THEOREM BackBeforeNormal ==
    ASSUME \A v, w \in Workers : v = w
    PROVE  Spec => MigratedBeforeNormal
  <1>1. Init => ReturnInv
    <2> SUFFICES ASSUME Init PROVE ReturnInv OBVIOUS
    <2>1. WorkersClean BY DEF Init, WorkersClean, IdleWorker
    <2>2. SyncFirst BY DEF Init, SyncFirst
    <2>3. OneRelease BY DEF Init, OneRelease, InFlight, IdleWorker
    <2> QED BY <2>1, <2>2, <2>3 DEF ReturnInv
  <1>2. LocksInv /\ ReturnInv /\ [Next]_vars => ReturnInv'
    <2> SUFFICES ASSUME LocksInv, ReturnInv, [Next]_vars PROVE ReturnInv' OBVIOUS
    <2>1. CASE Next
      BY <2>1, WorkersCleanStep, SyncFirstStep, OneReleaseStep DEF ReturnInv
    <2>2. CASE UNCHANGED vars
      BY <2>2 DEF ReturnInv, WorkersClean, SyncFirst, OneRelease, InFlight, vars, stateVars,
         returnVars, releaseVars
    <2> QED BY <2>1, <2>2
  <1>3. LocksInv /\ ReturnInv /\ [Next]_vars => [NormalWhenMigrated]_vars
    <2> SUFFICES ASSUME LocksInv, ReturnInv, Next, NEW s \in Servers,
                        serversState[s] = COORDINATED, serversState'[s] = NORMAL
                 PROVE  ToMigrate(s) = {}
      BY DEF NormalWhenMigrated
    <2>0. serversState \in [Servers -> CoordStates] BY DEF LocksInv, TypeOK
    <2>1. TransitToNormal(s)
      <3>1. \A x \in Switchable : Advance(x) => serversState'[s] # NORMAL \/ serversState[s] = NORMAL
        <4> SUFFICES ASSUME NEW x \in Switchable, Advance(x)
                     PROVE  serversState'[s] # NORMAL \/ serversState[s] = NORMAL
          OBVIOUS
        <4>1. x \in Servers BY LocksAssumption
        <4> QED BY <2>0, <4>1 DEF Advance, NORMAL, INTERMEDIATE, DEGRADED, COORDINATED
      <3>2. \A x \in Servers : TransitToNormal(x) => x = s \/ serversState'[s] = serversState[s]
        BY <2>0 DEF TransitToNormal
      <3>3. serversState'[s] # serversState[s] /\ serversState[s] # NORMAL BY DEF NORMAL, COORDINATED
      <3>4. \/ \E x \in Switchable : Advance(x)
            \/ \E x \in Servers : TransitToNormal(x)
            \/ UNCHANGED serversState
        <4> USE DEF stateVars
        <4>1. ASSUME NEW x \in Servers, TransitStep(x)
              PROVE  TransitToNormal(x) \/ UNCHANGED serversState
          BY <4>1 DEF TransitStep, TransitToNormalEnd, ReleaseDegradedLock
        <4>2. ASSUME NEW w \in Workers, WorkerStep(w) PROVE UNCHANGED serversState
          BY <4>2 DEF WorkerStep, HandleDegradedLockRequest, CheckSurviving, CheckTarget,
             InsertDegradedLock, SyncRemappedData, HandleReleaseRequest,
             DecrementRemappedDataRequest, AddReleaseDegradedLock, HandleReleaseResponse
        <4> QED BY <4>1, <4>2 DEF Next, SendDegradedLockRequest, SetChunkResponse
      <3> QED BY <3>1, <3>2, <3>3, <3>4
    <2>2. done[s] BY <2>1 DEF TransitToNormal
    <2>3. \A m \in migrating : m.for # s BY <2>2 DEF ReturnInv, OneRelease, InFlight
    <2>4. \A w \in Workers : worker[w].for # s
      BY <2>2, NetworkAssumption DEF ReturnInv, OneRelease, WorkersClean
    <2> QED BY <2>3, <2>4 DEF ToMigrate
  <1> QED BY <1>1, <1>2, <1>3, LocksInvariant, PTL DEF Spec, MigratedBeforeNormal
-----------------------------------------------------------------------------
(* The first transition, with one thread                                   *)

(* One server is not NORMAL, and it returns from COORDINATED.              *)
OneTransition ==
    \A s \in Servers :
        /\ returning[s] # "no" => serversState[s] = COORDINATED
        /\ serversState[s] # NORMAL => switches = 1
        /\ \A x \in Servers : serversState[s] # NORMAL /\ serversState[x] # NORMAL => x = s

(* The return of s needs the pool before it goes on.                       *)
Held(s) == serversState[s] # NORMAL /\ returning[s] \in {"no", "sync request"}

(* What a request found degraded stays so until its lock is inserted.      *)
CheckedHeld ==
    \A w \in Workers, s \in Servers :
        /\ worker[w].pc = "surviving" /\ s \notin worker[w].todo /\ s \notin worker[w].surviving
                => Held(s)
        /\ worker[w].pc = "targets" /\ s \notin worker[w].surviving => Held(s)
        /\ worker[w].pc = "targets" /\ s \in DOMAIN worker[w].targets /\ s \notin worker[w].todo
                => Held(s)

(* Nothing was swapped out before the first release.                       *)
SwappedOnce ==
    /\ switches = 0 => releasingDegradedLocks = NoLocks
    /\ \A s \in Servers : serversState[s] # NORMAL /\ returning[s] # "release" =>
            releasingDegradedLocks = NoLocks

(* Chunks are locked of servers whose release is still to come.            *)
LocksAwaited ==
    \A t \in Stripes, s \in Servers : s \in DOMAIN degradedLocks[t] =>
        serversState[s] # NORMAL /\ returning[s] # "release"

FirstInv == OneTransition /\ CheckedHeld /\ SwappedOnce /\ LocksAwaited

LEMMA FirstOther ==
    ASSUME FirstInv, UNCHANGED <<stateVars, returning, lockVars>>,
           \A w \in Workers : worker'[w] = worker[w] \/ worker'[w].pc \notin {"surviving", "targets"}
    PROVE  FirstInv'
  BY DEF FirstInv, OneTransition, CheckedHeld, Held, SwappedOnce, LocksAwaited, stateVars, lockVars

(* Steps of the states and of the thread that waits for the return.        *)
LEMMA FirstAdvance ==
    ASSUME LocksInv, FirstInv, switches' <= 1, NEW s \in Switchable, Advance(s)
    PROVE  FirstInv'
  <1>0. /\ serversState \in [Servers -> CoordStates] /\ s \in Servers
        /\ returning \in [Servers -> {"no", "sync request", "sync", "release request", "release"}]
    BY LocksAssumption DEF LocksInv, TypeOK
  <1>n. switches \in Nat
    <2>1. switches \in 0 .. MaxSwitches /\ MaxSwitches \in Nat BY LocksAssumption DEF LocksInv, TypeOK
    <2> QED BY <2>1
  <1>1. UNCHANGED <<returning, degradedLocks, releasingDegradedLocks, worker>> /\ returning[s] = "no"
    BY DEF Advance, returnVars, lockVars, StateLocked
  <1>2. /\ serversState'[s] \in CoordStates \ {NORMAL}
        /\ \A x \in Servers : x # s => serversState'[x] = serversState[x]
    BY <1>0 DEF Advance, CoordStates, NORMAL, INTERMEDIATE, DEGRADED, COORDINATED
  <1>3. switches' = 1 /\ \A x \in Servers : x # s => serversState[x] = NORMAL
    <2>1. CASE serversState[s] = NORMAL
      <3>1. switches' = switches + 1 BY <2>1 DEF Advance, NORMAL, INTERMEDIATE, DEGRADED
      <3>2. switches = 0 BY <1>n, <3>1
      <3> QED BY <3>1, <3>2 DEF FirstInv, OneTransition
    <2>2. CASE serversState[s] # NORMAL
      <3>1. switches' = switches BY <2>2 DEF Advance
      <3>2. switches = 1 BY <1>0, <2>2 DEF FirstInv, OneTransition
      <3>3. \A x \in Servers : x # s => serversState[x] = NORMAL
        BY <1>0, <2>2 DEF FirstInv, OneTransition
      <3> QED BY <3>1, <3>2, <3>3
    <2> QED BY <2>1, <2>2
  <1>4. OneTransition' BY <1>0, <1>1, <1>2, <1>3 DEF FirstInv, OneTransition
  <1>5. \A x \in Servers : Held(x) => Held(x)' BY <1>1, <1>2 DEF Held
  <1>6. CheckedHeld' BY <1>1, <1>5 DEF FirstInv, CheckedHeld
  <1>7. releasingDegradedLocks = NoLocks
    <2>1. CASE serversState[s] = NORMAL
      <3>1. switches' = switches + 1 BY <2>1 DEF Advance, NORMAL, INTERMEDIATE, DEGRADED
      <3>2. switches = 0 BY <1>n, <3>1
      <3> QED BY <3>2 DEF FirstInv, SwappedOnce
    <2>2. CASE serversState[s] # NORMAL BY <1>0, <1>1, <2>2 DEF FirstInv, SwappedOnce
    <2> QED BY <2>1, <2>2
  <1>8. SwappedOnce' BY <1>1, <1>7 DEF SwappedOnce, NoLocks
  <1>9. LocksAwaited' BY <1>1, <1>2 DEF FirstInv, LocksAwaited
  <1> QED BY <1>4, <1>6, <1>8, <1>9 DEF FirstInv

LEMMA FirstTransit ==
    ASSUME LocksInv, FirstInv, NEW s \in Servers, TransitStep(s)
    PROVE  FirstInv'
  <1>0. /\ serversState \in [Servers -> CoordStates]
        /\ returning \in [Servers -> {"no", "sync request", "sync", "release request", "release"}]
    BY DEF LocksInv, TypeOK
  <1>1. UNCHANGED <<switches, degradedLocks, releasingDegradedLocks, worker>>
    BY DEF TransitStep, TransitToNormalEnd, ReleaseDegradedLock, TransitToNormal, stateVars, lockVars
  <1>2. CASE TransitToNormalEnd(s) \/ ReleaseDegradedLock(s)
    <2>1. /\ UNCHANGED serversState /\ serversState[s] = COORDINATED /\ returning[s] # "release"
          /\ returning'[s] \in {"sync request", "release request"}
          /\ returning[s] = "no" => returning'[s] = "sync request"
          /\ returning[s] # "sync request"
          /\ \A x \in Servers : x # s => returning'[x] = returning[x]
      BY <1>0, <1>2 DEF TransitToNormalEnd, ReleaseDegradedLock, StateLocked, stateVars,
         FirstInv, OneTransition
    <2>2. \A x \in Servers : Held(x) => Held(x)' BY <2>1 DEF Held
    <2>3. OneTransition' BY <1>1, <2>1 DEF FirstInv, OneTransition
    <2>4. CheckedHeld' BY <1>1, <2>2 DEF FirstInv, CheckedHeld
    <2>5. \A x \in Servers : returning'[x] = "release" <=> returning[x] = "release" BY <2>1
    <2>6. SwappedOnce' BY <1>1, <2>1, <2>5 DEF FirstInv, SwappedOnce, NoLocks
    <2>7. LocksAwaited' BY <1>1, <2>1, <2>5 DEF FirstInv, LocksAwaited
    <2> QED BY <2>3, <2>4, <2>6, <2>7 DEF FirstInv
  <1>3. CASE TransitToNormal(s)
    <2>1. /\ returning[s] = "release" /\ returning'[s] = "no" /\ serversState'[s] = NORMAL
          /\ \A x \in Servers : x # s => returning'[x] = returning[x] /\ serversState'[x] = serversState[x]
      BY <1>0, <1>3 DEF TransitToNormal
    <2>2. serversState[s] = COORDINATED /\ serversState[s] # NORMAL
      BY <2>1 DEF FirstInv, OneTransition, COORDINATED, NORMAL
    <2>3. switches = 1 /\ \A x \in Servers : x # s => serversState[x] = NORMAL
      BY <2>2 DEF FirstInv, OneTransition
    <2>4. OneTransition' BY <1>1, <2>1 DEF FirstInv, OneTransition
    <2>5. \A x \in Servers : Held(x) => Held(x)' BY <2>1 DEF Held
    <2>6. CheckedHeld' BY <1>1, <2>5 DEF FirstInv, CheckedHeld
    <2>7. SwappedOnce' BY <1>1, <2>1, <2>3 DEF SwappedOnce
    <2>8. LocksAwaited' BY <1>1, <2>1 DEF FirstInv, LocksAwaited
    <2> QED BY <2>4, <2>6, <2>7, <2>8 DEF FirstInv
  <1> QED BY <1>2, <1>3 DEF TransitStep

(* Steps of the pool.  A request that found a server degraded inserts its  *)
(* lock before the pool can go on with the server's return.                *)
LEMMA FirstCheck ==
    ASSUME LocksInv, FirstInv, NEW w \in Workers,
           \/ \E r \in Requests : HandleDegradedLockRequest(w, r)
           \/ \E s \in Servers : CheckSurviving(w, s) \/ CheckTarget(w, s)
    PROVE  FirstInv'
  <1>0. worker \in [Workers -> WorkerRecords] BY DEF LocksInv, TypeOK, WorkerRecords
  <1>1. UNCHANGED <<stateVars, returning, lockVars>>
    BY DEF HandleDegradedLockRequest, CheckSurviving, CheckTarget, returnVars
  <1>2. /\ OneTransition' /\ SwappedOnce' /\ LocksAwaited'
        /\ \A s \in Servers : Held(s)' <=> Held(s)
    BY <1>1 DEF FirstInv, OneTransition, SwappedOnce, LocksAwaited, NoLocks, Held, stateVars, lockVars
  <1>3. \A v \in Workers : v # w => worker'[v] = worker[v]
    BY <1>0 DEF HandleDegradedLockRequest, CheckSurviving, CheckTarget
  <1>4. \A s \in Servers : ~StateLocked(s) /\ AllowRemapping(s) => Held(s)
    BY DEF StateLocked, AllowRemapping, Held, NORMAL, INTERMEDIATE, DEGRADED
  <1>5. SUFFICES ASSUME NEW x \in Servers
                 PROVE  /\ worker'[w].pc = "surviving" /\ x \notin worker'[w].todo
                                /\ x \notin worker'[w].surviving => Held(x)
                        /\ worker'[w].pc = "targets" /\ x \notin worker'[w].surviving => Held(x)
                        /\ worker'[w].pc = "targets" /\ x \in DOMAIN worker'[w].targets
                                /\ x \notin worker'[w].todo => Held(x)
    <2>1. CheckedHeld'
      <3> SUFFICES ASSUME NEW v \in Workers, NEW x \in Servers
                   PROVE  /\ worker'[v].pc = "surviving" /\ x \notin worker'[v].todo
                                /\ x \notin worker'[v].surviving => Held(x)
                          /\ worker'[v].pc = "targets" /\ x \notin worker'[v].surviving => Held(x)
                          /\ worker'[v].pc = "targets" /\ x \in DOMAIN worker'[v].targets
                                /\ x \notin worker'[v].todo => Held(x)
        BY <1>2 DEF CheckedHeld
      <3>1. CASE v = w BY <1>5, <3>1
      <3>2. CASE v # w BY <1>3, <3>2 DEF FirstInv, CheckedHeld
      <3> QED BY <3>1, <3>2
    <2> QED BY <1>2, <2>1 DEF FirstInv
  <1>6. ASSUME NEW r \in Requests, HandleDegradedLockRequest(w, r)
        PROVE  worker'[w].pc = "surviving" /\ worker'[w].todo = Servers
    BY <1>0, <1>6 DEF HandleDegradedLockRequest, IdleWorker
  <1>7. ASSUME NEW s \in Servers, CheckSurviving(w, s)
        PROVE  /\ worker'[w].pc = "surviving" /\ x \notin worker'[w].todo
                        /\ x \notin worker'[w].surviving => Held(x)
               /\ worker'[w].pc = "targets" /\ x \notin worker'[w].surviving => Held(x)
               /\ worker'[w].pc = "targets" => worker'[w].todo = DOMAIN worker'[w].targets
    <2>1. /\ worker[w].pc = "surviving" /\ s \in worker[w].todo /\ ~StateLocked(s)
          /\ worker'[w].surviving = IF AllowRemapping(s) THEN worker[w].surviving
                                                        ELSE worker[w].surviving \cup {s}
          /\ worker'[w].todo = IF worker[w].todo = {s} THEN DOMAIN worker[w].targets
                                                      ELSE worker[w].todo \ {s}
          /\ worker'[w].pc = IF worker[w].todo = {s} THEN "targets" ELSE "surviving"
          /\ worker'[w].targets = worker[w].targets
      BY <1>0, <1>7 DEF CheckSurviving, WorkerRecords
    <2>2. CASE x = s BY <1>4, <2>1, <2>2
    <2>3. CASE x # s
      <3>1. x \notin worker'[w].surviving => x \notin worker[w].surviving BY <2>1, <2>3
      <3>2. worker[w].todo = {s} => x \notin worker[w].todo BY <2>3
      <3>3. worker[w].todo # {s} /\ x \notin worker'[w].todo => x \notin worker[w].todo BY <2>1, <2>3
      <3>4. x \notin worker[w].todo /\ x \notin worker[w].surviving => Held(x)
        BY <2>1 DEF FirstInv, CheckedHeld
      <3> QED BY <2>1, <3>1, <3>2, <3>3, <3>4
    <2> QED BY <2>1, <2>2, <2>3
  <1>8. ASSUME NEW s \in Servers, CheckTarget(w, s)
        PROVE  /\ worker'[w].pc = "targets" /\ x \notin worker'[w].surviving => Held(x)
               /\ x \in DOMAIN worker'[w].targets /\ x \notin worker'[w].todo => Held(x)
               /\ worker'[w].pc = "targets"
    <2> DEFINE kept == IF AllowRemapping(s) THEN worker[w].targets
                        ELSE Restrict(worker[w].targets, DOMAIN worker[w].targets \ {s})
    <2>0. worker' = [worker EXCEPT ![w].targets = kept, ![w].todo = worker[w].todo \ {s}]
      BY <1>8 DEF CheckTarget
    <2> HIDE DEF kept
    <2>1. /\ worker[w].pc = "targets" /\ s \in worker[w].todo /\ ~StateLocked(s)
          /\ worker'[w].surviving = worker[w].surviving /\ worker'[w].pc = "targets"
          /\ worker'[w].targets = kept
          /\ worker'[w].todo = worker[w].todo \ {s}
      <3>1. worker[w].pc = "targets" /\ s \in worker[w].todo /\ ~StateLocked(s) BY <1>8 DEF CheckTarget
      <3>2. worker'[w] = [worker[w] EXCEPT !.targets = kept, !.todo = worker[w].todo \ {s}]
        BY <1>0, <2>0
      <3>3. worker[w] \in WorkerRecords BY <1>0
      <3> QED BY <3>1, <3>2, <3>3 DEF WorkerRecords
    <2>2. /\ DOMAIN worker'[w].targets \subseteq DOMAIN worker[w].targets
          /\ s \in DOMAIN worker'[w].targets => AllowRemapping(s)
      BY <2>1 DEF Restrict, kept
    <2>3. x \notin worker[w].surviving => Held(x) BY <2>1 DEF FirstInv, CheckedHeld
    <2>4. x \in DOMAIN worker[w].targets /\ x \notin worker[w].todo => Held(x)
      BY <2>1 DEF FirstInv, CheckedHeld
    <2> QED BY <1>4, <2>1, <2>2, <2>3, <2>4
  <1> QED BY <1>6, <1>7, <1>8

LEMMA FirstInsert ==
    ASSUME LocksInv, FirstInv, NEW w \in Workers, InsertDegradedLock(w)
    PROVE  FirstInv'
  <1> DEFINE x == worker[w].stripe
             targets == worker[w].targets
  <1>0. /\ worker \in [Workers -> WorkerRecords] /\ degradedLocks \in [Stripes -> Redirections]
    BY DEF LocksInv, TypeOK, WorkerRecords
  <1>1. /\ UNCHANGED <<stateVars, returning, releasingDegradedLocks>> /\ worker'[w] = IdleWorker
        /\ worker[w].pc = "targets" /\ worker[w].todo = {}
        /\ \A v \in Workers : v # w => worker'[v] = worker[v]
    BY <1>0 DEF InsertDegradedLock, returnVars
  <1>2. \A s \in Servers : s \in DOMAIN targets \/ s \notin worker[w].surviving => Held(s)
    BY <1>1 DEF FirstInv, CheckedHeld
  <1>3. ASSUME NEW t \in Stripes, NEW s \in Servers, s \in DOMAIN degradedLocks'[t]
        PROVE  s \in DOMAIN degradedLocks[t] \/ Held(s)
    <2>1. CASE UNCHANGED degradedLocks BY <1>3, <2>1
    <2>2. CASE degradedLocks' = [degradedLocks EXCEPT ![x] = Expand(@, targets)]
      <3>1. degradedLocks'[t] = degradedLocks[t] \/ degradedLocks'[t] = Joined(degradedLocks[t], targets)
        BY <1>0, <2>2 DEF Expand
      <3>2. DOMAIN Joined(degradedLocks[t], targets) = DOMAIN degradedLocks[t] \cup DOMAIN targets
        BY DEF Joined
      <3> QED BY <1>2, <1>3, <3>1, <3>2
    <2>3. ASSUME NEW added \in kSubset(NewCount(w), Unhandled(w)), NEW d,
                 degradedLocks' = [degradedLocks EXCEPT ![x] = Joined(targets, [y \in added |-> d])]
          PROVE  s \in DOMAIN degradedLocks[t] \/ Held(s)
      <3>1. degradedLocks'[t] = degradedLocks[t] \/ degradedLocks'[t] = Joined(targets, [y \in added |-> d])
        BY <1>0, <2>3
      <3>2. DOMAIN Joined(targets, [y \in added |-> d]) = DOMAIN targets \cup added
        BY DEF Joined
      <3>3. added \subseteq Unhandled(w) BY DEF kSubset
      <3> QED BY <1>2, <1>3, <3>1, <3>2, <3>3 DEF Unhandled
    <2> QED BY <2>1, <2>2, <2>3 DEF InsertDegradedLock
  <1>4. LocksAwaited' BY <1>1, <1>3 DEF FirstInv, LocksAwaited, Held, stateVars
  <1>5. OneTransition' /\ SwappedOnce'
    BY <1>1 DEF FirstInv, OneTransition, SwappedOnce, NoLocks, stateVars
  <1>6. CheckedHeld'
    <2>1. worker'[w].pc = "idle" BY <1>1 DEF IdleWorker
    <2>2. \A s \in Servers : Held(s)' <=> Held(s) BY <1>1 DEF Held, stateVars
    <2>3. \A v \in Workers : worker'[v] = worker[v] \/ worker'[v].pc = "idle" BY <1>1, <2>1
    <2> QED BY <2>2, <2>3 DEF FirstInv, CheckedHeld
  <1> QED BY <1>4, <1>5, <1>6 DEF FirstInv

(* The only thread is idle when it synchronizes or releases: no request is *)
(* between its check and its lock.                                         *)
LEMMA FirstReturn ==
    ASSUME \A v, w \in Workers : v = w, LocksInv, FirstInv, NEW w \in Workers, NEW s \in Servers,
           SyncRemappedData(w, s) \/ HandleReleaseRequest(w, s)
    PROVE  FirstInv'
  <1>0. /\ returning \in [Servers -> {"no", "sync request", "sync", "release request", "release"}]
        /\ worker \in [Workers -> WorkerRecords]
    BY DEF LocksInv, TypeOK, WorkerRecords
  <1>1. /\ UNCHANGED stateVars /\ returning[s] \notin {"no", "release"}
        /\ returning'[s] \in {"sync", "release"}
        /\ \A x \in Servers : x # s => returning'[x] = returning[x]
    BY <1>0 DEF SyncRemappedData, HandleReleaseRequest
  <1>2. /\ serversState[s] = COORDINATED /\ serversState[s] # NORMAL /\ switches = 1
        /\ \A x \in Servers : x # s => serversState[x] = NORMAL
    BY <1>1 DEF FirstInv, OneTransition, COORDINATED, NORMAL
  <1>3. OneTransition' BY <1>1, <1>2 DEF FirstInv, OneTransition, stateVars
  <1>4. CheckedHeld'
    <2>1. \A v \in Workers : worker'[v].pc \notin {"surviving", "targets"}
      BY <1>0 DEF SyncRemappedData, HandleReleaseRequest, IdleWorker
    <2> QED BY <2>1 DEF CheckedHeld
  <1>5. releasingDegradedLocks = NoLocks BY <1>1, <1>2 DEF FirstInv, SwappedOnce
  <1>6. CASE SyncRemappedData(w, s)
    <2>1. UNCHANGED lockVars /\ returning'[s] = "sync" BY <1>0, <1>6 DEF SyncRemappedData
    <2>2. SwappedOnce' BY <1>5, <2>1 DEF SwappedOnce, NoLocks, lockVars
    <2>3. LocksAwaited' BY <1>1, <2>1 DEF FirstInv, LocksAwaited, lockVars, stateVars
    <2> QED BY <1>3, <1>4, <2>2, <2>3 DEF FirstInv
  <1>7. CASE HandleReleaseRequest(w, s)
    <2>1. returning'[s] = "release" /\ degradedLocks' = NoLocks
      BY <1>0, <1>5, <1>7 DEF HandleReleaseRequest, Swap
    <2>2. SwappedOnce' BY <1>1, <1>2, <2>1 DEF SwappedOnce, stateVars
    <2>3. LocksAwaited' BY <2>1 DEF LocksAwaited, NoLocks, NoLock
    <2> QED BY <1>3, <1>4, <2>2, <2>3 DEF FirstInv
  <1> QED BY <1>6, <1>7

(* With one thread in the pool, while the first transition of a server     *)
(* lasts and after it no chunk of a server in normal state is locked, so   *)
(* that no request to it is redirected to a stale copy: the states read in *)
(* handleDegradedLockRequest still hold when Map::insertDegradedLock runs, *)
(* although no lock covers the two.  (With two threads, or from the second *)
(* transition on, when the released locks are swapped back in, TLC finds   *)
(* the opposite.)                                                          *)
THEOREM NoStaleLocks ==
    ASSUME \A v, w \in Workers : v = w
    PROVE  Spec => [](switches <= 1 => LockedOnlyDegraded)
  <1>1. Init => (switches <= 1 => FirstInv)
    <2> SUFFICES ASSUME Init PROVE FirstInv OBVIOUS
    <2> QED BY DEF Init, FirstInv, OneTransition, CheckedHeld, SwappedOnce, LocksAwaited,
               IdleWorker, NoLocks, NoLock
  <1>2. LocksInv /\ (switches <= 1 => FirstInv) /\ [Next]_vars => (switches <= 1 => FirstInv)'
    <2> SUFFICES ASSUME LocksInv, switches <= 1 => FirstInv, [Next]_vars, switches' <= 1
                 PROVE  FirstInv'
      OBVIOUS
    <2>0. switches \in Nat
      <3>1. switches \in 0 .. MaxSwitches /\ MaxSwitches \in Nat BY LocksAssumption DEF LocksInv, TypeOK
      <3> QED BY <3>1
    <2>1. switches' = switches \/ switches' = switches + 1
      <3> USE DEF stateVars
      <3>1. ASSUME NEW s \in Switchable, Advance(s) PROVE switches' = switches \/ switches' = switches + 1
        BY <3>1 DEF Advance
      <3>2. ASSUME NEW s \in Servers, TransitStep(s) PROVE switches' = switches
        BY <3>2 DEF TransitStep, TransitToNormalEnd, ReleaseDegradedLock, TransitToNormal
      <3>3. ASSUME NEW w \in Workers, WorkerStep(w) PROVE switches' = switches
        BY <3>3 DEF WorkerStep, HandleDegradedLockRequest, CheckSurviving, CheckTarget,
           InsertDegradedLock, SyncRemappedData, HandleReleaseRequest,
           DecrementRemappedDataRequest, AddReleaseDegradedLock, HandleReleaseResponse
      <3> QED BY <3>1, <3>2, <3>3 DEF Next, SendDegradedLockRequest, SetChunkResponse, vars
    <2>2. switches <= 1 BY <2>0, <2>1
    <2>3. FirstInv BY <2>2
    <2>4. ASSUME NEW w \in Workers, NEW d \in Servers, AddReleaseDegradedLock(w, d) PROVE FirstInv'
      <3>0. worker \in [Workers -> WorkerRecords] BY DEF LocksInv, TypeOK, WorkerRecords
      <3>1. \A v \in Workers : worker'[v] = worker[v] \/ worker'[v].pc \notin {"surviving", "targets"}
        BY <2>4, <3>0 DEF AddReleaseDegradedLock, IdleWorker, WorkerRecords
      <3> QED BY <2>3, <2>4, <3>1, FirstOther DEF AddReleaseDegradedLock, returnVars
    <2>5. CASE UNCHANGED <<stateVars, returning, lockVars, worker>> BY <2>3, <2>5, FirstOther
    <2>6. ASSUME NEW w \in Workers, WorkerStep(w) PROVE FirstInv'
      <3>1. \/ UNCHANGED <<stateVars, returning, lockVars, worker>>
            \/ \E r \in Requests : HandleDegradedLockRequest(w, r)
            \/ \E s \in Servers : CheckSurviving(w, s) \/ CheckTarget(w, s)
            \/ InsertDegradedLock(w)
            \/ \E s \in Servers : SyncRemappedData(w, s) \/ HandleReleaseRequest(w, s)
            \/ \E d \in Servers : AddReleaseDegradedLock(w, d)
        BY <2>6 DEF WorkerStep, DecrementRemappedDataRequest, HandleReleaseResponse
      <3> QED BY <2>3, <2>4, <2>5, <3>1, FirstCheck, FirstInsert, FirstReturn
    <2>7. ASSUME NEW s \in Switchable, Advance(s) PROVE FirstInv' BY <2>3, <2>7, FirstAdvance
    <2>8. ASSUME NEW s \in Servers, TransitStep(s) PROVE FirstInv' BY <2>3, <2>8, FirstTransit
    <2>9. CASE UNCHANGED vars BY <2>5, <2>9 DEF vars, returnVars
    <2> QED BY <2>5, <2>6, <2>7, <2>8, <2>9
        DEF Next, SendDegradedLockRequest, SetChunkResponse, returnVars
  <1>3. (switches <= 1 => FirstInv) => (switches <= 1 => LockedOnlyDegraded)
    BY DEF FirstInv, LocksAwaited, LockedOnlyDegraded
  <1> QED BY <1>1, <1>2, <1>3, LocksInvariant, PTL DEF Spec
=============================================================================
