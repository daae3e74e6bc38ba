------------------------- MODULE ParityDeltaProofs -------------------------
(***************************************************************************)
(* Proofs about ParityDelta: timestamps and messages keep their types;     *)
(* acknowledgements end before what is pending; reverts leave alone what   *)
(* had its response; and backups are reclaimed, in batches.                *)
(***************************************************************************)
EXTENDS ParityDelta, FiniteSetTheorems, SequenceTheorems, WellFoundedInduction, TLAPS

(* begin() of a set of pending timestamps that is not empty is its         *)
(* smallest element, and in the set.                                       *)
LEMMA MinExists ==
    ASSUME NEW S \in SUBSET Nat, S # {}
    PROVE  Min(S) \in S /\ \A y \in S : Min(S) <= y
  <1>1. PICK x \in S : \A y \in S : ~(<<y, x>> \in OpToRel(<, Nat))
    BY NatLessThanWellFounded, WFMin
  <1>2. \A y \in S : x <= y
    <2> TAKE y \in S
    <2>1. x \in Nat /\ y \in Nat OBVIOUS
    <2>2. ~(y < x) BY <1>1, <2>1 DEF OpToRel
    <2> QED BY <2>1, <2>2
  <1> QED BY <1>1, <1>2 DEF Min

(* The arithmetic of uint32_t timestamps stays within its width.           *)
LEMMA TimestampArithmetic ==
    ASSUME NEW t \in Timestamps
    PROVE  NextVal(t) \in Timestamps /\ Before(t) \in Timestamps /\ t \in Nat
  BY DeltaAssumption DEF Timestamps, NextVal, Before

(* What ackParityDelta reads of the pending requests of a kind is a        *)
(* timestamp.                                                              *)
LEMMA PendingReads ==
    ASSUME TypeOK, NEW kind, PendingOps(kind) # {}
    PROVE  Before(Min(PendingStamps(kind))) \in Timestamps
  <1>1. PendingStamps(kind) \in SUBSET Timestamps
    BY DEF TypeOK, PendingStamps, PendingOps
  <1>2. PendingStamps(kind) \in SUBSET Nat
    BY <1>1, TimestampArithmetic
  <1>3. PendingStamps(kind) # {}
    BY DEF PendingStamps
  <1>4. Min(PendingStamps(kind)) \in Timestamps
    BY <1>1, <1>2, <1>3, MinExists
  <1> QED BY <1>4, TimestampArithmetic

(* Taking a message out of the channel leaves messages (the events of a    *)
(* socket are handled in any order).                                       *)
LEMMA TakenType ==
    ASSUME TypeOK, NEW i \in DOMAIN channel, Taken(i)
    PROVE  channel' \in Seq(AckMessages \cup RevertMessages)
  <1> DEFINE M == AckMessages \cup RevertMessages
  <1>1. channel \in Seq(M) BY DEF TypeOK
  <1> HIDE DEF M
  <1>2. i \in 1 .. Len(channel) /\ Len(channel) \in Nat BY <1>1
  <1>3. SubSeq(channel, 1, i - 1) \in Seq(M) BY <1>1, <1>2
  <1>4. SubSeq(channel, i + 1, Len(channel)) \in Seq(M) BY <1>1, <1>2
  <1>5. channel' = SubSeq(channel, 1, i - 1) \o SubSeq(channel, i + 1, Len(channel))
    BY DEF Taken
  <1>6. channel' \in Seq(M) BY <1>3, <1>4, <1>5
  <1> QED BY <1>6 DEF M

(* Dispatching an event to the parity server adds a message.               *)
LEMMA SendType ==
    ASSUME TypeOK, NEW msg \in AckMessages \cup RevertMessages,
           channel' = Append(channel, msg)
    PROVE  channel' \in Seq(AckMessages \cup RevertMessages)
  <1> DEFINE M == AckMessages \cup RevertMessages
  <1>1. channel \in Seq(M) /\ msg \in M BY DEF TypeOK
  <1> HIDE DEF M
  <1>2. channel' \in Seq(M) BY <1>1
  <1> QED BY <1>2 DEF M

(* A request changes its state and takes timestamps of the right types.    *)
LEMMA RequestTypes ==
    ASSUME TypeOK, NEW o \in Ops,
           GetServers(o) \/ Stamp(o) \/ SendRequest(o) \/ HandleResponse(o)
    PROVE  TypeOK'
  <1>1. CASE GetServers(o)
    BY <1>1 DEF TypeOK, GetServers, OpStates, ackVars, revertVars, parityVars, history
  <1>2. CASE Stamp(o)
    <2>1. NextVal(current) \in Timestamps BY TimestampArithmetic DEF TypeOK
    <2> QED BY <1>2, <2>1 DEF TypeOK, Stamp, OpStates, ackVars, revertVars, parityVars, history
  <1>3. CASE SendRequest(o)
    BY <1>3 DEF TypeOK, SendRequest, OpStates, ackVars, revertVars, parityVars, history
  <1>4. CASE HandleResponse(o)
    BY <1>4 DEF TypeOK, HandleResponse, OpStates, ackVars, revertVars, parityVars, history
  <1> QED BY <1>1, <1>2, <1>3, <1>4

(* The steps of ackParityDelta read and dispatch timestamps.               *)
LEMMA AckTypes ==
    ASSUME TypeOK,
           \/ \E who \in Ops \cup {Reader} : AckBegin(who)
           \/ AckReadUpdate
           \/ AckFinish
    PROVE  TypeOK'
  <1>1. ASSUME NEW who \in Ops \cup {Reader}, AckBegin(who) PROVE TypeOK'
    BY <1>1 DEF TypeOK, AckBegin, stampVars, revertVars, parityVars, history
  <1>2. CASE AckReadUpdate
    <2> DEFINE u == IF PendingOps("update") = {} THEN acker.to
                    ELSE Before(Min(PendingStamps("update")))
    <2>1. u \in Timestamps BY PendingReads DEF TypeOK
    <2> HIDE DEF u
    <2>2. acker' = [acker EXCEPT !.pc = "del", !.update = u]
      BY <1>2 DEF AckReadUpdate, u
    <2> QED BY <1>2, <2>1, <2>2
        DEF TypeOK, AckReadUpdate, stampVars, revertVars, parityVars, history
  <1>3. CASE AckFinish
    <2> DEFINE del == IF PendingOps("delete") = {} THEN acker.to
                      ELSE Before(Min(PendingStamps("delete")))
               to == SmallAcked(acker.to, acker.update, del)
               msg == [type |-> "ack", from |-> acker.from, to |-> to]
    <2>1. del \in Timestamps BY PendingReads DEF TypeOK
    <2> HIDE DEF del
    <2>2. to \in Timestamps BY <2>1 DEF SmallAcked, TypeOK
    <2>3. \/ UNCHANGED <<lastAck, channel>>
          \/ channel' = Append(channel, msg) /\ lastAck' = to
      BY <1>3 DEF AckFinish, del
    <2>8. passed' \subseteq Ops
      BY <1>3 DEF AckFinish, Overtaken, TypeOK
    <2> HIDE DEF to
    <2>4. msg \in AckMessages BY <2>2 DEF AckMessages, TypeOK
    <2> HIDE DEF msg
    <2>5. channel' \in Seq(AckMessages \cup RevertMessages) /\ lastAck' \in Timestamps
      BY <2>2, <2>3, <2>4, SendType DEF TypeOK
    <2>6. acker' = Idle /\ 0 \in Timestamps
      BY <1>3, DeltaAssumption DEF AckFinish, Timestamps
    <2>7. /\ opState' = [o \in Ops |-> IF o = acker.who THEN "answered" ELSE opState[o]]
          /\ phase' = IF acker.who = Reader THEN "list" ELSE phase
          /\ UNCHANGED <<current, ts, listed, parityVars, settled>>
      BY <1>3 DEF AckFinish
    <2> QED BY <2>5, <2>6, <2>7, <2>8 DEF TypeOK, Idle, OpStates, parityVars
  <1> QED BY <1>1, <1>2, <1>3

(* So do those of revertDelta.                                             *)
LEMMA RevertTypes ==
    ASSUME TypeOK, EnterIntermediate \/ ListUpdates \/ RevertDelta \/ WaitDegraded
    PROVE  TypeOK'
  <1>0. PendingStamps("update") \subseteq Timestamps /\ PendingStamps("delete") \subseteq Timestamps
    BY DEF TypeOK, PendingStamps, PendingOps
  <1>1. CASE EnterIntermediate
    BY <1>1 DEF TypeOK, EnterIntermediate, stampVars, ackVars, parityVars, history
  <1>2. CASE ListUpdates
    <2>1. listed' \subseteq Timestamps
      BY <1>0, <1>2 DEF ListUpdates, PendingStamps
    <2> QED BY <1>2, <2>1 DEF TypeOK, ListUpdates, stampVars, ackVars, parityVars, history
  <1>3. CASE RevertDelta
    <2> DEFINE msg == [type |-> "revert", stamps |-> listed']
    <2>1. listed' \subseteq Timestamps
      BY <1>0, <1>3 DEF TypeOK, RevertDelta, PendingStamps
    <2>2. msg \in RevertMessages BY <2>1 DEF RevertMessages
    <2>3. channel' = Append(channel, msg) BY <1>3 DEF RevertDelta
    <2> HIDE DEF msg
    <2>4. channel' \in Seq(AckMessages \cup RevertMessages)
      BY <2>2, <2>3, SendType
    <2> QED BY <1>3, <2>1, <2>4 DEF TypeOK, RevertDelta, stampVars, ackVars, parityVars, history
  <1>4. CASE WaitDegraded
    BY <1>4 DEF TypeOK, WaitDegraded, stampVars, ackVars, parityVars, history
  <1> QED BY <1>1, <1>2, <1>3, <1>4

(* And those of the servers: a delta is undone only if it was applied.     *)
LEMMA ServerTypes ==
    ASSUME TypeOK,
           \/ \E o \in Ops : Forward(o) \/ HandleUpdateRequest(o)
           \/ \E i \in DOMAIN channel :
                HandleAckParityDeltaBackup(i) \/ HandleRevertDelta(i)
    PROVE  TypeOK'
  <1>1. ASSUME NEW o \in Ops, Forward(o) PROVE TypeOK'
    BY <1>1 DEF TypeOK, Forward, stampVars, ackVars, revertVars, history
  <1>2. ASSUME NEW o \in Ops, HandleUpdateRequest(o) PROVE TypeOK'
    BY <1>2 DEF TypeOK, HandleUpdateRequest, stampVars, ackVars, revertVars, history
  <1>3. ASSUME NEW i \in DOMAIN channel, HandleAckParityDeltaBackup(i) PROVE TypeOK'
    <2>1. channel' \in Seq(AckMessages \cup RevertMessages)
      BY <1>3, TakenType DEF HandleAckParityDeltaBackup
    <2>2. backup' \subseteq backup BY <1>3 DEF HandleAckParityDeltaBackup
    <2> QED BY <1>3, <2>1, <2>2
        DEF TypeOK, HandleAckParityDeltaBackup, stampVars, ackVars, revertVars, history
  <1>4. ASSUME NEW i \in DOMAIN channel, HandleRevertDelta(i) PROVE TypeOK'
    <2>1. channel' \in Seq(AckMessages \cup RevertMessages)
      BY <1>4, TakenType DEF HandleRevertDelta
    <2>2. Reverted(channel[i].stamps) \subseteq backup BY DEF Reverted
    <2>3. undone' \subseteq applied /\ backup' \subseteq applied
      BY <1>4, <2>2 DEF HandleRevertDelta, TypeOK
    <2> QED BY <1>4, <2>1, <2>3
        DEF TypeOK, HandleRevertDelta, stampVars, ackVars, revertVars, history
  <1> QED BY <1>1, <1>2, <1>3, <1>4

(* Timestamps keep their width, the parity server undoes and backs up only *)
(* deltas it has applied, and it applies only deltas forwarded to it: for  *)
(* any requests, number of workers, batch size and order of messages.      *)
THEOREM DeltaTypeCorrect == Spec => []TypeOK
  <1>1. Init => TypeOK
    BY DeltaAssumption DEF Init, TypeOK, Idle, Timestamps, OpStates
  <1>2. TypeOK /\ [Next]_vars => TypeOK'
    <2> SUFFICES ASSUME TypeOK, [Next]_vars PROVE TypeOK' OBVIOUS
    <2>1. CASE Next
      BY <2>1, RequestTypes, AckTypes, RevertTypes, ServerTypes DEF Next
    <2>2. CASE UNCHANGED vars
      BY <2>2 DEF TypeOK, vars, stampVars, ackVars, revertVars, parityVars, history
    <2> QED BY <2>1, <2>2
  <1> QED BY <1>1, <1>2, PTL DEF Spec

-----------------------------------------------------------------------------
(* The steps that change the state of a request or of who acknowledges.    *)
LEMMA StepKinds ==
    ASSUME [Next]_vars
    PROVE  \/ UNCHANGED <<current, opState, ts, lastAck, acker>>
           \/ \E o \in Ops :
                GetServers(o) \/ Stamp(o) \/ SendRequest(o) \/ HandleResponse(o)
           \/ \E who \in Ops \cup {Reader} : AckBegin(who)
           \/ AckReadUpdate
           \/ AckFinish
  BY DEF Next, vars, stampVars, ackVars, Forward, HandleUpdateRequest, EnterIntermediate,
     ListUpdates, RevertDelta, WaitDegraded, HandleAckParityDeltaBackup, HandleRevertDelta

(* With one worker thread at most one request is being handled; with at    *)
(* most one request in progress, no other request is pending then.         *)
OneBusy == Workers = 1 => \A o, p \in Busy : o = p
OneOutstanding == MaxOutstanding = 1 => \A o, p \in Outstanding : o = p

(* A worker that acknowledges has taken the response of its request.       *)
AckerErased ==
    /\ acker.who \in Ops => opState[acker.who] = "erased"
    /\ acker.who = NoOne => acker.pc = "idle"

(* A set of requests that has fewer than one element is empty.             *)
LEMMA NoneInProgress ==
    ASSUME NEW S \in SUBSET Ops, Cardinality(S) < 1
    PROVE  S = {}
  <1>1. IsFiniteSet(S) BY DeltaAssumption, FS_Subset
  <1> QED BY <1>1, FS_CardinalityType, FS_EmptySet

LEMMA OneAtATimeStep ==
    ASSUME TypeOK, OneBusy, OneOutstanding, AckerErased, [Next]_vars
    PROVE  OneBusy' /\ OneOutstanding' /\ AckerErased'
  <1>0. /\ opState \in [Ops -> OpStates]
        /\ Busy \in SUBSET Ops /\ Outstanding \in SUBSET Ops
        /\ NoOne \notin Ops /\ Reader \notin Ops
    BY DeltaAssumption DEF TypeOK, Busy, Outstanding
  <1>1. CASE UNCHANGED <<opState, acker>>
    BY <1>1 DEF OneBusy, OneOutstanding, AckerErased, Busy, Outstanding
  <1>2. ASSUME NEW o \in Ops, GetServers(o)
        PROVE  OneBusy' /\ OneOutstanding' /\ AckerErased'
    <2>1. /\ opState[o] = "idle" /\ UNCHANGED acker
          /\ opState'[o] \in {"normal", "coordinated"}
          /\ \A p \in Ops \ {o} : opState'[p] = opState[p]
      BY <1>0, <1>2 DEF GetServers, ackVars
    <2>2. Busy' = Busy \cup {o} /\ Outstanding' = Outstanding \cup {o}
      BY <1>0, <2>1 DEF Busy, Outstanding
    <2>3. Workers = 1 => Busy = {}
      BY <1>0, <1>2, NoneInProgress DEF GetServers
    <2>4. MaxOutstanding = 1 => Outstanding = {}
      BY <1>0, <1>2, NoneInProgress DEF GetServers
    <2>5. OneBusy' BY <2>2, <2>3 DEF OneBusy
    <2>6. OneOutstanding' BY <2>2, <2>4 DEF OneOutstanding
    <2>7. AckerErased' BY <2>1 DEF AckerErased
    <2> QED BY <2>5, <2>6, <2>7
  <1>3. ASSUME NEW o \in Ops, Stamp(o) \/ SendRequest(o)
        PROVE  OneBusy' /\ OneOutstanding' /\ AckerErased'
    <2>1. /\ opState[o] \in {"normal", "coordinated", "stamped"} /\ UNCHANGED acker
          /\ opState'[o] \in {"stamped", "degraded", "pending"}
          /\ \A p \in Ops \ {o} : opState'[p] = opState[p]
      BY <1>0, <1>3 DEF Stamp, SendRequest, ackVars
    <2>2. Busy' \subseteq Busy /\ Outstanding' \subseteq Outstanding
      BY <1>0, <2>1 DEF Busy, Outstanding
    <2>3. AckerErased' BY <2>1 DEF AckerErased
    <2> QED BY <2>2, <2>3 DEF OneBusy, OneOutstanding
  <1>4. ASSUME NEW o \in Ops, HandleResponse(o)
        PROVE  OneBusy' /\ OneOutstanding' /\ AckerErased'
    <2>1. /\ opState[o] = "pending" /\ UNCHANGED acker
          /\ opState'[o] = "erased"
          /\ \A p \in Ops \ {o} : opState'[p] = opState[p]
      BY <1>0, <1>4 DEF HandleResponse, ackVars
    <2>2. Busy' = Busy \cup {o} /\ Outstanding' \subseteq Outstanding
      BY <1>0, <2>1 DEF Busy, Outstanding
    <2>3. Workers = 1 => Busy = {}
      BY <1>0, <1>4, NoneInProgress DEF HandleResponse
    <2>4. AckerErased' BY <2>1 DEF AckerErased
    <2> QED BY <2>2, <2>3, <2>4 DEF OneBusy, OneOutstanding
  <1>5. ASSUME NEW who \in Ops \cup {Reader}, AckBegin(who)
        PROVE  OneBusy' /\ OneOutstanding' /\ AckerErased'
    <2>1. /\ UNCHANGED opState /\ acker'.who = who /\ who # NoOne
          /\ who \in Ops => opState[who] = "erased"
      BY <1>0, <1>5 DEF AckBegin, stampVars, NoOne, Reader
    <2> QED BY <2>1 DEF OneBusy, OneOutstanding, AckerErased, Busy, Outstanding
  <1>6. CASE AckReadUpdate
    <2>1. UNCHANGED opState /\ acker'.who = acker.who /\ acker.who # NoOne
      BY <1>6 DEF AckReadUpdate, stampVars, TypeOK, AckerErased
    <2> QED BY <2>1 DEF OneBusy, OneOutstanding, AckerErased, Busy, Outstanding
  <1>7. CASE AckFinish
    <2>1. /\ acker'.who = NoOne /\ acker'.pc = "idle"
          /\ opState' = [o \in Ops |-> IF o = acker.who THEN "answered" ELSE opState[o]]
      BY <1>7 DEF AckFinish, Idle
    <2>2. Busy' \subseteq Busy /\ Outstanding' \subseteq Outstanding
      BY <1>0, <2>1 DEF Busy, Outstanding
    <2>3. AckerErased' BY <1>0, <2>1 DEF AckerErased
    <2> QED BY <2>2, <2>3 DEF OneBusy, OneOutstanding
  <1> QED BY <1>1, <1>2, <1>3, <1>4, <1>5, <1>6, <1>7, StepKinds

(* However threads and messages interleave, one worker thread handles one  *)
(* request at a time.                                                      *)
LEMMA OneAtATime == Spec => [](OneBusy /\ OneOutstanding /\ AckerErased)
  <1>1. Init => OneBusy /\ OneOutstanding /\ AckerErased
    BY DeltaAssumption DEF Init, OneBusy, OneOutstanding, AckerErased, Busy, Outstanding, Idle
  <1>2. TypeOK /\ OneBusy /\ OneOutstanding /\ AckerErased /\ [Next]_vars
            => OneBusy' /\ OneOutstanding' /\ AckerErased'
    BY OneAtATimeStep
  <1> QED BY <1>1, <1>2, DeltaTypeCorrect, PTL DEF Spec

-----------------------------------------------------------------------------
(* Requests that have taken their timestamp.                               *)
Stamped == {o \in Ops : opState[o] \notin {"idle", "normal", "coordinated"}}

(* There are timestamps left for all requests.                             *)
NoWrap == FirstTs + Cardinality(Ops) < TsMod

(* Until timestamps wrap around, they grow with every request that takes   *)
(* one, no two have the same, and only requests that have taken one reach  *)
(* the servers.                                                            *)
StampsGrow ==
    /\ current = FirstTs + Cardinality(Stamped)
    /\ \A o \in Stamped : FirstTs <= ts[o] /\ ts[o] < current
    /\ \A o, p \in Stamped : ts[o] = ts[p] => o = p
    /\ forwarded \subseteq Stamped

LEMMA StampsGrowStep ==
    ASSUME NoWrap, TypeOK, AckerErased, StampsGrow, [Next]_vars
    PROVE  StampsGrow'
  <1>0. /\ opState \in [Ops -> OpStates] /\ ts \in [Ops -> Timestamps]
        /\ Stamped \in SUBSET Ops /\ IsFiniteSet(Ops) /\ IsFiniteSet(Stamped)
        /\ FirstTs \in Nat /\ TsMod \in Nat
        /\ Cardinality(Stamped) \in Nat /\ Cardinality(Ops) \in Nat
        /\ Cardinality(Stamped) <= Cardinality(Ops)
    <2>1. Stamped \in SUBSET Ops BY DEF Stamped
    <2>2. IsFiniteSet(Ops) BY DeltaAssumption
    <2>3. opState \in [Ops -> OpStates] /\ ts \in [Ops -> Timestamps]
      BY DEF TypeOK
    <2>5. FirstTs \in Nat /\ TsMod \in Nat
      BY DeltaAssumption
    <2>4. IsFiniteSet(Stamped) /\ Cardinality(Stamped) <= Cardinality(Ops)
      BY <2>1, <2>2, FS_Subset
    <2> QED BY <2>1, <2>2, <2>3, <2>4, <2>5, FS_CardinalityType
  <1>1. ASSUME Stamped' = Stamped, UNCHANGED <<current, ts>>, forwarded' \subseteq Stamped
        PROVE  StampsGrow'
    BY <1>1 DEF StampsGrow
  <1>2. CASE UNCHANGED <<opState, current, ts, forwarded>>
    BY <1>1, <1>2 DEF StampsGrow, Stamped
  <1>3. ASSUME NEW o \in Ops, GetServers(o) \/ SendRequest(o) \/ HandleResponse(o)
        PROVE  StampsGrow'
    <2>1. /\ UNCHANGED <<current, ts, forwarded>>
          /\ \/ opState[o] = "idle" /\ opState'[o] \in {"normal", "coordinated"}
             \/ opState[o] \in {"stamped", "pending"} /\ opState'[o] \in {"pending", "erased"}
          /\ \A p \in Ops \ {o} : opState'[p] = opState[p]
      BY <1>0, <1>3 DEF GetServers, SendRequest, HandleResponse, parityVars
    <2>2. Stamped' = Stamped BY <1>0, <2>1 DEF Stamped
    <2> QED BY <1>1, <2>1, <2>2 DEF StampsGrow
  <1>4. ASSUME NEW o \in Ops, Stamp(o)
        PROVE  StampsGrow'
    <2>1. /\ opState[o] \in {"normal", "coordinated"}
          /\ opState'[o] \in {"stamped", "degraded"}
          /\ \A p \in Ops \ {o} : opState'[p] = opState[p] /\ ts'[p] = ts[p]
          /\ ts'[o] = current /\ current' = NextVal(current) /\ UNCHANGED forwarded
      BY <1>0, <1>4 DEF Stamp, parityVars
    <2>2. o \notin Stamped /\ Stamped' = Stamped \cup {o}
      BY <1>0, <2>1 DEF Stamped
    <2>3. Cardinality(Stamped') = Cardinality(Stamped) + 1
      BY <1>0, <2>2, FS_AddElement
    <2>4. IsFiniteSet(Stamped') /\ Cardinality(Stamped') <= Cardinality(Ops)
      BY <1>0, <2>2, FS_Subset
    <2>5. current \in Nat /\ current + 1 < TsMod
      BY <1>0, <2>3, <2>4 DEF StampsGrow, NoWrap
    <2>6. current' = current + 1
      BY <1>0, <2>1, <2>5 DEF NextVal
    <2>7. current' = FirstTs + Cardinality(Stamped')
      BY <1>0, <2>3, <2>6 DEF StampsGrow
    <2>8. \A p \in Ops : ts[p] \in Nat
      BY <1>0 DEF Timestamps
    <2>9. \A p \in Stamped' : FirstTs <= ts'[p] /\ ts'[p] < current'
      BY <1>0, <2>1, <2>2, <2>5, <2>6, <2>8 DEF StampsGrow
    <2>10. forwarded' \subseteq Stamped' BY <2>1, <2>2 DEF StampsGrow
    <2>11. \A p \in Stamped : ts[p] \in Nat /\ ts[p] < current /\ p # o
      BY <1>0, <2>2, <2>8 DEF StampsGrow
    <2>12. \A p, q \in Stamped' : ts'[p] = ts'[q] => p = q
      BY <1>0, <2>1, <2>2, <2>5, <2>11 DEF StampsGrow
    <2> QED BY <2>7, <2>9, <2>10, <2>12 DEF StampsGrow
  <1>5. ASSUME NEW o \in Ops, Forward(o)
        PROVE  StampsGrow'
    <2>1. /\ UNCHANGED <<current, ts, opState>> /\ o \in Stamped
          /\ forwarded' = forwarded \cup {o}
      BY <1>5 DEF Forward, stampVars, Stamped
    <2> QED BY <1>1, <2>1 DEF StampsGrow, Stamped
  <1>6. CASE AckFinish /\ acker.who \notin Ops
    <2>1. opState' = opState /\ UNCHANGED <<current, ts, forwarded>>
      BY <1>0, <1>6 DEF AckFinish, parityVars
    <2> QED BY <1>2, <2>1
  <1>7. CASE AckFinish /\ acker.who \in Ops
    <2>0. acker.who \in Stamped BY <1>7 DEF AckerErased, Stamped
    <2>1. /\ opState' = [o \in Ops |-> IF o = acker.who THEN "answered" ELSE opState[o]]
          /\ UNCHANGED <<current, ts, forwarded>>
      BY <1>7 DEF AckFinish, parityVars
    <2>2. Stamped' = Stamped BY <1>0, <2>0, <2>1 DEF Stamped
    <2> QED BY <1>1, <2>1, <2>2 DEF StampsGrow
  <1> QED
    BY <1>2, <1>3, <1>4, <1>5, <1>6, <1>7 DEF Next, vars, stampVars, ackVars, parityVars,
       HandleUpdateRequest, EnterIntermediate, ListUpdates, RevertDelta, WaitDegraded,
       HandleAckParityDeltaBackup, HandleRevertDelta, AckBegin, AckReadUpdate

LEMMA StampsGrowing == Spec => [](NoWrap => StampsGrow)
  <1>1. Init => (NoWrap => StampsGrow)
    <2> SUFFICES ASSUME Init PROVE StampsGrow OBVIOUS
    <2>1. Stamped = {} BY DEF Init, Stamped
    <2>2. current = FirstTs /\ forwarded = {} BY DEF Init
    <2>3. FirstTs \in Nat BY DeltaAssumption
    <2> QED BY <2>1, <2>2, <2>3, FS_EmptySet DEF StampsGrow
  <1>2. TypeOK /\ AckerErased /\ (NoWrap => StampsGrow) /\ [Next]_vars => (NoWrap => StampsGrow)'
    BY StampsGrowStep DEF NoWrap
  <1> QED BY <1>1, <1>2, DeltaTypeCorrect, OneAtATime, PTL DEF Spec

-----------------------------------------------------------------------------
(* While the only worker thread acknowledges, requests stay as they are.   *)
LEMMA AckerAlone ==
    ASSUME Workers = 1, TypeOK, OneBusy, AckerErased, acker.who \in Ops, [Next]_vars
    PROVE  UNCHANGED <<opState, ts, acker>> \/ AckReadUpdate \/ AckFinish
  <1>1. Busy # {} /\ \A o \in Busy : o = acker.who
    BY DEF Busy, OneBusy, AckerErased
  <1>2. Busy \in SUBSET Ops BY DEF Busy
  <1>3. \A o \in Ops : ~GetServers(o) /\ ~HandleResponse(o)
    BY <1>1, <1>2, NoneInProgress DEF GetServers, HandleResponse
  <1>4. \A o \in Ops : ~Stamp(o) /\ ~SendRequest(o)
    BY <1>1 DEF Stamp, SendRequest, AckerErased, Busy
  <1>5. \A who \in Ops \cup {Reader} : ~AckBegin(who)
    BY DeltaAssumption DEF AckBegin, Idle
  <1> QED
    BY <1>3, <1>4, <1>5 DEF Next, vars, stampVars, ackVars, Forward, HandleUpdateRequest,
       EnterIntermediate, ListUpdates, RevertDelta, WaitDegraded,
       HandleAckParityDeltaBackup, HandleRevertDelta

(* What the worker has read of the pending UPDATEs is before them all,     *)
(* unless one of them has the timestamp 0.                                 *)
AckRead ==
    acker.who \in Ops /\ acker.pc = "del" /\ 0 \notin PendingStamps("update") =>
        \A o \in PendingOps("update") : acker.update < ts[o]

LEMMA AckReadStep ==
    ASSUME Workers = 1, TypeOK, OneBusy, AckerErased, AckRead, [Next]_vars
    PROVE  AckRead'
  <1>1. CASE acker.who \notin Ops
    <2>1. ASSUME NEW who \in Ops \cup {Reader}, AckBegin(who) PROVE AckRead'
      BY <2>1 DEF AckBegin, AckRead
    <2>2. CASE AckReadUpdate
      <3>1. acker'.who = acker.who BY <2>2 DEF AckReadUpdate, TypeOK
      <3> QED BY <1>1, <3>1 DEF AckRead
    <2>3. CASE AckFinish
      BY <2>3 DEF AckFinish, AckRead, Idle
    <2>4. CASE UNCHANGED acker
      BY <1>1, <2>4 DEF AckRead
    <2> QED
      BY <2>1, <2>2, <2>3, <2>4, StepKinds
      DEF GetServers, Stamp, SendRequest, HandleResponse, ackVars
  <1>2. CASE acker.who \in Ops
    <2>1. CASE UNCHANGED <<opState, ts, acker>>
      BY <2>1 DEF AckRead, PendingOps, PendingStamps
    <2>2. CASE AckReadUpdate
      <3>1. /\ UNCHANGED <<opState, ts>>
            /\ PendingOps("update")' = PendingOps("update")
            /\ PendingStamps("update")' = PendingStamps("update")
            /\ acker'.update = IF PendingOps("update") = {} THEN acker.to
                               ELSE Before(Min(PendingStamps("update")))
        BY <2>2 DEF AckReadUpdate, stampVars, PendingOps, PendingStamps, TypeOK
      <3>2. ASSUME 0 \notin PendingStamps("update"), NEW o \in PendingOps("update")
            PROVE  acker'.update < ts[o]
        <4>1. \A p \in PendingOps("update") : ts[p] \in Nat /\ ts[p] > 0
          <5> SUFFICES ASSUME NEW p \in PendingOps("update") PROVE ts[p] \in Nat /\ ts[p] > 0
            OBVIOUS
          <5>1. ts[p] \in PendingStamps("update") /\ ts[p] \in Timestamps
            BY DEF PendingStamps, PendingOps, TypeOK
          <5> QED BY <3>2, <5>1, TimestampArithmetic
        <4>2. PendingStamps("update") \in SUBSET Nat /\ ts[o] \in PendingStamps("update")
          BY <3>2, <4>1 DEF PendingStamps
        <4>3. Min(PendingStamps("update")) \in PendingStamps("update")
              /\ Min(PendingStamps("update")) <= ts[o]
          BY <4>2, MinExists
        <4>4. Min(PendingStamps("update")) \in Timestamps
          BY <4>3 DEF PendingStamps, PendingOps, TypeOK
        <4>5. Min(PendingStamps("update")) \in Nat /\ Min(PendingStamps("update")) > 0
          BY <4>1, <4>3 DEF PendingStamps
        <4>6. Before(Min(PendingStamps("update"))) = Min(PendingStamps("update")) - 1
          BY <4>4, <4>5, DeltaAssumption DEF Before, Timestamps
        <4> QED BY <3>1, <3>2, <4>1, <4>3, <4>5, <4>6
      <3> QED BY <3>1, <3>2 DEF AckRead
    <2>3. CASE AckFinish
      BY <2>3, DeltaAssumption DEF AckFinish, AckRead, Idle
    <2> QED BY <1>2, <2>1, <2>2, <2>3, AckerAlone
  <1> QED BY <1>1, <1>2

(* ackParityDelta dispatches a range that ends at most at the timestamp    *)
(* and before the pending UPDATEs that it has read, or nothing.            *)
LEMMA AckFinishSends ==
    ASSUME TypeOK, AckFinish
    PROVE  \/ UNCHANGED <<lastAck, channel, passed>>
           \/ \E to \in Timestamps :
                /\ lastAck' = to
                /\ passed' = passed \cup Overtaken(to)
                /\ channel' = Append(channel, [type |-> "ack", from |-> acker.from, to |-> to])
                /\ to <= acker.to /\ to <= acker.update
  <1> DEFINE del == IF PendingOps("delete") = {} THEN acker.to
                    ELSE Before(Min(PendingStamps("delete")))
             to == SmallAcked(acker.to, acker.update, del)
             msg == [type |-> "ack", from |-> acker.from, to |-> to]
  <1>1. /\ acker.pc = "del"
        /\ \/ UNCHANGED <<lastAck, channel, passed>>
           \/ /\ channel' = Append(channel, msg)
              /\ lastAck' = to
              /\ passed' = passed \cup Overtaken(to)
    BY DEF AckFinish
  <1>2. del \in Timestamps BY PendingReads DEF TypeOK
  <1> HIDE DEF del
  <1>3. to \in Timestamps BY <1>2 DEF SmallAcked, TypeOK
  <1>4. acker.update \in Nat /\ acker.to \in Nat /\ del \in Nat
    BY <1>2, TimestampArithmetic DEF TypeOK
  <1>5. to <= acker.update /\ to <= acker.to BY <1>4 DEF SmallAcked
  <1> HIDE DEF to
  <1> QED BY <1>1, <1>3, <1>5

LEMMA AckFinishEnds ==
    ASSUME TypeOK, AckRead, AckFinish, acker.who \in Ops, channel' # channel,
           0 \notin PendingStamps("update"), NEW o \in PendingOps("update")
    PROVE  channel'[Len(channel')].to < ts[o]
  <1>1. PICK to \in Timestamps :
            /\ channel' = Append(channel, [type |-> "ack", from |-> acker.from, to |-> to])
            /\ to <= acker.update
    BY AckFinishSends
  <1> DEFINE msg == [type |-> "ack", from |-> acker.from, to |-> to]
  <1>2. channel \in Seq(AckMessages \cup RevertMessages) BY DEF TypeOK
  <1>3. channel'[Len(channel')].to = to
    <2>1. channel' = Append(channel, msg) BY <1>1
    <2> HIDE DEF msg
    <2>2. channel'[Len(channel')] = msg BY <1>2, <2>1
    <2> QED BY <2>2 DEF msg
  <1>4. acker.update < ts[o] BY DEF AckRead, AckFinish
  <1>5. to \in Nat /\ acker.update \in Nat /\ ts[o] \in Nat
    BY TimestampArithmetic DEF TypeOK, PendingOps
  <1> QED BY <1>1, <1>3, <1>4, <1>5

(* With one worker thread, the range that a worker acknowledges ends       *)
(* before every UPDATE that the client still waits for, unless one of them *)
(* has the timestamp 0: the smallest pending timestamp that ackParityDelta *)
(* reads under one lock is still right when it dispatches the event under  *)
(* another one.                                                            *)
THEOREM AcksEndEarly ==
    ASSUME Workers = 1
    PROVE  Spec => AckEndsBeforePending
  <1>1. Init => AckRead
    BY DeltaAssumption DEF Init, AckRead, Idle
  <1>2. TypeOK /\ OneBusy /\ AckerErased /\ AckRead /\ [Next]_vars => AckRead'
    BY AckReadStep
  <1>3. TypeOK /\ AckerErased /\ AckRead /\ [Next]_vars =>
            [0 \notin PendingStamps("update") => EndsBeforePending]_vars
    <2> SUFFICES ASSUME TypeOK, AckerErased, AckRead, AckFinish, acker.who # Reader,
                        channel' # channel, 0 \notin PendingStamps("update")
                 PROVE  \A o \in PendingOps("update") : channel'[Len(channel')].to < ts[o]
      BY DEF EndsBeforePending
    <2>1. acker.pc = "del" BY DEF AckFinish
    <2>2. acker.who \in Ops BY <2>1 DEF AckerErased, TypeOK
    <2> QED BY <2>2, AckFinishEnds
  <1> QED
    BY <1>1, <1>2, <1>3, DeltaTypeCorrect, OneAtATime, PTL
    DEF Spec, AckEndsBeforePending

-----------------------------------------------------------------------------
(* A request that has its response keeps it, and its timestamp.            *)
LEMMA FinishedStay ==
    ASSUME TypeOK, AckerErased, [Next]_vars,
           NEW o \in Ops, opState[o] \in {"erased", "answered"}
    PROVE  opState'[o] \in {"erased", "answered"} /\ ts'[o] = ts[o]
  <1>0. opState \in [Ops -> OpStates] /\ ts \in [Ops -> Timestamps] BY DEF TypeOK
  <1>1. CASE UNCHANGED <<opState, ts>>
    BY <1>1
  <1>2. ASSUME NEW p \in Ops,
               GetServers(p) \/ Stamp(p) \/ SendRequest(p) \/ HandleResponse(p)
        PROVE  opState'[o] = opState[o] /\ ts'[o] = ts[o]
    <2>1. opState[p] \notin {"erased", "answered"}
      BY <1>2 DEF GetServers, Stamp, SendRequest, HandleResponse
    <2> QED BY <1>0, <1>2, <2>1 DEF GetServers, Stamp, SendRequest, HandleResponse
  <1>3. CASE AckFinish
    BY <1>0, <1>3 DEF AckFinish
  <1> QED
    BY <1>1, <1>2, <1>3, StepKinds DEF AckBegin, AckReadUpdate, stampVars

(* What is in the channel after a message is taken was there before.       *)
LEMMA TakenFrom ==
    ASSUME TypeOK, NEW j \in DOMAIN channel, Taken(j), NEW k \in DOMAIN channel'
    PROVE  \E i \in DOMAIN channel : channel'[k] = channel[i]
  <1> DEFINE M == AckMessages \cup RevertMessages
             before == SubSeq(channel, 1, j - 1)
             rest == SubSeq(channel, j + 1, Len(channel))
  <1>1. channel \in Seq(M) BY DEF TypeOK
  <1>2. channel' = before \o rest BY DEF Taken
  <1> HIDE DEF M
  <1>3. j \in 1 .. Len(channel) /\ Len(channel) \in Nat BY <1>1
  <1>4. /\ \A x \in DOMAIN before : x \in DOMAIN channel /\ before[x] = channel[x]
        /\ before \in Seq(M) /\ Len(before) = j - 1
    BY <1>1, <1>3
  <1>5. /\ \A x \in DOMAIN rest : x + j \in DOMAIN channel /\ rest[x] = channel[x + j]
        /\ rest \in Seq(M) /\ Len(rest) = Len(channel) - j
    BY <1>1, <1>3
  <1> HIDE DEF before, rest
  <1>6. /\ \A x \in 1 .. Len(before) + Len(rest) :
              channel'[x] = IF x <= Len(before) THEN before[x] ELSE rest[x - Len(before)]
        /\ channel' \in Seq(M) /\ Len(channel') = Len(before) + Len(rest)
    BY <1>2, <1>4, <1>5, ConcatProperties
  <1>7. k \in 1 .. Len(before) + Len(rest) /\ Len(before) \in Nat /\ Len(rest) \in Nat
    BY <1>4, <1>5, <1>6
  <1>8. CASE k <= Len(before)
    <2>1. k \in DOMAIN before BY <1>4, <1>7, <1>8
    <2> QED BY <1>4, <1>6, <1>7, <1>8, <2>1
  <1>9. CASE ~(k <= Len(before))
    <2>1. k - Len(before) \in DOMAIN rest BY <1>5, <1>7, <1>9
    <2>2. channel'[k] = rest[k - Len(before)] BY <1>6, <1>7, <1>9
    <2> QED BY <1>5, <2>1, <2>2
  <1> QED BY <1>8, <1>9

(* Nothing is listed or undone before the data server leaves the normal    *)
(* state, and what is listed then is not settled.                          *)
SettledApart ==
    /\ \A o \in settled : opState[o] \in {"erased", "answered"}
    /\ phase = "normal" =>
            undone = {} /\ \A i \in DOMAIN channel : channel[i].type # "revert"
    /\ phase = "list del" => \A o \in settled : ts[o] \notin listed
    /\ \A i \in DOMAIN channel : channel[i].type = "revert" =>
            \A o \in settled : ts[o] \notin channel[i].stamps
    /\ SettledKept

(* A pending request has another timestamp than a settled one.             *)
LEMMA PendingApart ==
    ASSUME TypeOK, StampsGrow, SettledApart, NEW o \in settled, NEW kind
    PROVE  ts[o] \notin PendingStamps(kind)
  <1>1. o \in Stamped /\ opState[o] \in {"erased", "answered"}
    BY DEF TypeOK, SettledApart, Stamped
  <1>2. \A p \in PendingOps(kind) : p \in Stamped /\ opState[p] = "pending"
    BY DEF PendingOps, Stamped
  <1> QED BY <1>1, <1>2 DEF PendingStamps, StampsGrow

(* An empty list of timestamps filters nothing out, but the bounds that    *)
(* the server reads of it are those of timestamp 0.                        *)
LEMMA RevertedListed ==
    ASSUME TypeOK, NEW S, NEW o \in Reverted(S), ts[o] \notin S
    PROVE  ts[o] = 0
  <1>1. S = {} BY DEF Reverted
  <1>2. o \in backup /\ InRange(ts[o], 0, 0)
    BY <1>1, FS_EmptySet DEF Reverted
  <1>3. ts[o] \in Nat BY <1>2, TimestampArithmetic DEF TypeOK
  <1> QED BY <1>2, <1>3 DEF InRange

LEMMA SettledApartStep ==
    ASSUME TypeOK, AckerErased, StampsGrow, SettledApart, [Next]_vars
    PROVE  SettledApart'
  <1>0. settled \subseteq Ops /\ opState \in [Ops -> OpStates] BY DEF TypeOK
  <1>1. \A o \in settled : opState'[o] \in {"erased", "answered"} /\ ts'[o] = ts[o]
    BY <1>0, FinishedStay DEF SettledApart
  <1>2. CASE UNCHANGED <<phase, listed, undone, channel, settled>>
    BY <1>1, <1>2 DEF SettledApart, SettledKept
  <1>3. CASE AckFinish
    <2>1. /\ UNCHANGED <<listed, undone, settled>>
          /\ phase' = phase \/ phase' = "list"
      BY <1>3 DEF AckFinish, parityVars
    <2>2. \A k \in DOMAIN channel' : channel'[k].type # "revert"
              \/ (k \in DOMAIN channel /\ channel'[k] = channel[k])
      <3>1. CASE UNCHANGED channel BY <3>1
      <3>2. ASSUME NEW to \in Timestamps,
                   channel' = Append(channel, [type |-> "ack", from |-> acker.from, to |-> to])
            PROVE  \A k \in DOMAIN channel' : channel'[k].type # "revert"
                      \/ (k \in DOMAIN channel /\ channel'[k] = channel[k])
        <4> DEFINE msg == [type |-> "ack", from |-> acker.from, to |-> to]
                   M == AckMessages \cup RevertMessages
        <4>1. channel \in Seq(M) /\ msg \in M /\ msg.type # "revert"
          BY DEF TypeOK, AckMessages
        <4>2. channel' = Append(channel, msg) BY <3>2
        <4> HIDE DEF msg, M
        <4> QED BY <4>1, <4>2
      <3> QED BY <1>3, <3>1, <3>2, AckFinishSends
    <2> QED BY <1>1, <2>1, <2>2 DEF SettledApart, SettledKept
  <1>4. CASE EnterIntermediate
    <2>1. /\ phase = "normal" /\ phase' = "revert" /\ UNCHANGED <<undone, channel, opState, ts>>
          /\ settled' = {o \in Ops : opState[o] \in {"erased", "answered"}}
      BY <1>4 DEF EnterIntermediate, parityVars, stampVars
    <2> QED BY <2>1 DEF SettledApart, SettledKept
  <1>5. CASE ListUpdates
    <2>1. /\ phase' = "list del" /\ UNCHANGED <<undone, channel, settled>>
          /\ listed' \subseteq PendingStamps("update")
      BY <1>5 DEF ListUpdates, parityVars, history, PendingStamps
    <2>2. \A o \in settled : ts[o] \notin listed' BY <2>1, PendingApart
    <2> QED BY <1>1, <2>1, <2>2 DEF SettledApart, SettledKept
  <1>6. CASE RevertDelta
    <2> DEFINE msg == [type |-> "revert", stamps |-> listed']
               M == AckMessages \cup RevertMessages
    <2>1. /\ phase = "list del" /\ phase' = "intermediate" /\ UNCHANGED <<undone, settled>>
          /\ channel' = Append(channel, msg)
          /\ listed' \subseteq listed \cup PendingStamps("delete")
      BY <1>6 DEF RevertDelta, parityVars, history, PendingStamps
    <2>2. \A o \in settled : ts[o] \notin listed'
      BY <2>1, PendingApart DEF SettledApart
    <2>3. msg.stamps = listed' OBVIOUS
    <2>4. listed' \subseteq Timestamps
      <3>1. PendingStamps("delete") \subseteq Timestamps
        BY DEF TypeOK, PendingStamps, PendingOps
      <3> QED BY <2>1, <3>1 DEF TypeOK
    <2>5. channel \in Seq(M) /\ msg \in M BY <2>4 DEF TypeOK, RevertMessages
    <2>6. channel' = Append(channel, msg) BY <2>1
    <2> HIDE DEF msg, M
    <2>7. \A k \in DOMAIN channel' : channel'[k] = msg
              \/ (k \in DOMAIN channel /\ channel'[k] = channel[k])
      BY <2>5, <2>6
    <2> QED BY <1>1, <2>1, <2>2, <2>3, <2>7 DEF SettledApart, SettledKept
  <1>7. CASE WaitDegraded
    <2>1. phase' = "wait" /\ UNCHANGED <<undone, channel, settled>>
      BY <1>7 DEF WaitDegraded, parityVars, history
    <2> QED BY <1>1, <2>1 DEF SettledApart, SettledKept
  <1>8. ASSUME NEW j \in DOMAIN channel, HandleAckParityDeltaBackup(j)
        PROVE  SettledApart'
    <2>1. UNCHANGED <<phase, listed, undone, settled>> /\ Taken(j)
      BY <1>8 DEF HandleAckParityDeltaBackup, revertVars, history
    <2>2. \A k \in DOMAIN channel' : \E i \in DOMAIN channel : channel'[k] = channel[i]
      BY <2>1, TakenFrom
    <2> QED BY <1>1, <2>1, <2>2 DEF SettledApart, SettledKept
  <1>9. ASSUME NEW j \in DOMAIN channel, HandleRevertDelta(j)
        PROVE  SettledApart'
    <2>1. /\ UNCHANGED <<phase, listed, settled>> /\ Taken(j) /\ channel[j].type = "revert"
          /\ undone' = undone \cup Reverted(channel[j].stamps)
      BY <1>9 DEF HandleRevertDelta, revertVars, history
    <2>2. \A k \in DOMAIN channel' : \E i \in DOMAIN channel : channel'[k] = channel[i]
      BY <2>1, TakenFrom
    <2>3. \A o \in settled : o \in Reverted(channel[j].stamps) => ts[o] = 0
      BY <2>1, RevertedListed DEF SettledApart
    <2>4. SettledKept' BY <1>1, <2>1, <2>3 DEF SettledApart, SettledKept
    <2>5. phase # "normal" BY <2>1 DEF SettledApart
    <2> QED BY <1>1, <2>1, <2>2, <2>4, <2>5 DEF SettledApart
  <1> QED
    BY <1>2, <1>3, <1>4, <1>5, <1>6, <1>7, <1>8, <1>9
    DEF Next, vars, revertVars, parityVars, history, GetServers, Stamp, SendRequest,
        HandleResponse, AckBegin, AckReadUpdate, Forward, HandleUpdateRequest

(* Until timestamps wrap around, the delta of a request that had its       *)
(* response when the data server left the normal state is never undone,    *)
(* but for timestamp 0: with any number of threads, in whatever order the  *)
(* messages arrive, and although the parity server takes the end of the    *)
(* set of timestamps for a timestamp.                                      *)
THEOREM RevertsPending ==
    ASSUME NoWrap
    PROVE  Spec => []SettledKept
  <1>1. Init => SettledApart
    BY DEF Init, SettledApart, SettledKept
  <1>2. TypeOK /\ AckerErased /\ (NoWrap => StampsGrow) /\ SettledApart /\ [Next]_vars
            => SettledApart'
    BY SettledApartStep
  <1>3. SettledApart => SettledKept
    BY DEF SettledApart
  <1> QED
    BY <1>1, <1>2, <1>3, DeltaTypeCorrect, OneAtATime, StampsGrowing, PTL DEF Spec

-----------------------------------------------------------------------------
(* In normal state, what has no response yet is not acknowledged either,   *)
(* unless it was overtaken, and the thread that acknowledges has read what *)
(* is still true.                                                          *)
NoneAckedEarly ==
    phase = "normal" =>
        /\ acker.who # Reader
        /\ acker.who \in Ops => acker.from = lastAck /\ acker.to <= current
        /\ lastAck <= current
        /\ \A o \in Ops \ passed : opState[o] \in {"stamped", "pending"} => lastAck <= ts[o]

(* A response is sent only when the delta is applied.                      *)
AppliedFirst == \A o \in Ops : opState[o] \in {"erased", "answered"} => o \in applied

LEMMA AppliedFirstStep ==
    ASSUME TypeOK, AckerErased, AppliedFirst, [Next]_vars
    PROVE  AppliedFirst'
  <1>0. opState \in [Ops -> OpStates] /\ applied \subseteq applied'
    <2>1. opState \in [Ops -> OpStates] BY DEF TypeOK
    <2>2. applied \subseteq applied'
      BY DEF Next, vars, stampVars, ackVars, parityVars, GetServers, Stamp, SendRequest,
         HandleResponse, Forward, HandleUpdateRequest, EnterIntermediate, ListUpdates,
         RevertDelta, WaitDegraded, HandleAckParityDeltaBackup, HandleRevertDelta,
         AckBegin, AckReadUpdate, AckFinish
    <2> QED BY <2>1, <2>2
  <1>1. CASE UNCHANGED opState
    BY <1>0, <1>1 DEF AppliedFirst
  <1>2. ASSUME NEW o \in Ops, GetServers(o) \/ Stamp(o) \/ SendRequest(o)
        PROVE  AppliedFirst'
    <2>1. /\ opState'[o] \notin {"erased", "answered"}
          /\ \A p \in Ops \ {o} : opState'[p] = opState[p]
      BY <1>0, <1>2 DEF GetServers, Stamp, SendRequest
    <2> QED BY <1>0, <2>1 DEF AppliedFirst
  <1>3. ASSUME NEW o \in Ops, HandleResponse(o)
        PROVE  AppliedFirst'
    <2>1. o \in applied /\ \A p \in Ops \ {o} : opState'[p] = opState[p]
      BY <1>0, <1>3 DEF HandleResponse
    <2> QED BY <1>0, <2>1 DEF AppliedFirst
  <1>4. CASE AckFinish
    <2>1. \A o \in Ops : opState'[o] = opState[o] \/ (o = acker.who /\ opState[o] = "erased")
      BY <1>0, <1>4 DEF AckFinish, AckerErased
    <2> QED BY <1>0, <2>1 DEF AppliedFirst
  <1> QED
    BY <1>1, <1>2, <1>3, <1>4, StepKinds DEF AckBegin, AckReadUpdate, stampVars

(* What a step of the client does to the acknowledged range while the data *)
(* server stays in normal state.                                           *)
LEMMA NoneAckedEarlyStep ==
    ASSUME TypeOK, AckerErased, StampsGrow, StampsGrow', NoneAckedEarly, [Next]_vars
    PROVE  NoneAckedEarly'
  <1> SUFFICES ASSUME phase' = "normal"
               PROVE  NoneAckedEarly'
    BY DEF NoneAckedEarly
  <1> DEFINE Live(o) == opState[o] \in {"stamped", "pending"}
  <1>0. /\ opState \in [Ops -> OpStates]
        /\ current \in Nat /\ lastAck \in Nat /\ \A o \in Ops : ts[o] \in Nat
    BY TimestampArithmetic DEF TypeOK
  <1>7. passed \subseteq passed'
    BY DEF Next, vars, history, GetServers, Stamp, SendRequest, HandleResponse, Forward,
       HandleUpdateRequest, EnterIntermediate, ListUpdates, RevertDelta, WaitDegraded,
       HandleAckParityDeltaBackup, HandleRevertDelta, AckBegin, AckReadUpdate, AckFinish
  <1>1. CASE UNCHANGED <<current, opState, ts, lastAck, acker>>
    <2>1. phase = "normal"
      BY <1>1 DEF Next, vars, stampVars, ackVars, parityVars, revertVars, GetServers, Stamp,
         SendRequest, HandleResponse, Forward, HandleUpdateRequest, EnterIntermediate,
         ListUpdates, RevertDelta, WaitDegraded, HandleAckParityDeltaBackup,
         HandleRevertDelta, AckBegin, AckReadUpdate, AckFinish
    <2> QED BY <1>1, <1>7, <2>1 DEF NoneAckedEarly
  <1>2. ASSUME NEW o \in Ops, GetServers(o) \/ SendRequest(o) \/ HandleResponse(o)
        PROVE  NoneAckedEarly'
    <2>1. /\ phase = "normal" /\ UNCHANGED <<current, ts, lastAck, acker>>
          /\ \A p \in Ops : Live(p)' => Live(p)
      BY <1>0, <1>2 DEF GetServers, SendRequest, HandleResponse, revertVars, ackVars
    <2> QED BY <1>7, <2>1 DEF NoneAckedEarly
  <1>3. ASSUME NEW o \in Ops, Stamp(o)
        PROVE  NoneAckedEarly'
    <2>1. /\ phase = "normal" /\ UNCHANGED <<lastAck, acker>>
          /\ ts'[o] = current /\ \A p \in Ops \ {o} : ts'[p] = ts[p] /\ (Live(p)' => Live(p))
      BY <1>0, <1>3 DEF Stamp, revertVars, ackVars, TypeOK
    <2>2. current <= current'
      <3>1. o \in Stamped' BY <1>0, <1>3 DEF Stamp, Stamped
      <3>2. current < current' BY <2>1, <3>1 DEF StampsGrow
      <3>3. current' \in Nat BY <1>3, TimestampArithmetic DEF Stamp, TypeOK
      <3> QED BY <1>0, <3>2, <3>3
    <2>3. current' \in Nat BY <1>3, TimestampArithmetic DEF Stamp, TypeOK
    <2>4. acker.to \in Nat BY TimestampArithmetic DEF TypeOK
    <2> QED BY <1>0, <1>7, <2>1, <2>2, <2>3, <2>4 DEF NoneAckedEarly
  <1>4. ASSUME NEW who \in Ops \cup {Reader}, AckBegin(who)
        PROVE  NoneAckedEarly'
    <2>1. /\ phase = "normal" /\ UNCHANGED <<current, opState, ts, lastAck>>
          /\ acker'.who = who /\ who # Reader /\ acker'.from = lastAck /\ acker'.to = current
      BY <1>4, DeltaAssumption DEF AckBegin, stampVars, revertVars
    <2> QED BY <1>0, <1>7, <2>1 DEF NoneAckedEarly
  <1>5. CASE AckReadUpdate
    <2>1. /\ phase = "normal" /\ UNCHANGED <<current, opState, ts, lastAck>>
          /\ acker'.who = acker.who /\ acker'.from = acker.from /\ acker'.to = acker.to
      BY <1>5 DEF AckReadUpdate, stampVars, revertVars, TypeOK
    <2> QED BY <1>7, <2>1 DEF NoneAckedEarly
  <1>6. CASE AckFinish
    <2>1. /\ phase = "normal" /\ acker.who # Reader /\ acker.pc = "del"
          /\ UNCHANGED <<current, ts>> /\ acker' = Idle
          /\ opState' = [o \in Ops |-> IF o = acker.who THEN "answered" ELSE opState[o]]
      BY <1>6 DEF AckFinish, NoneAckedEarly
    <2>2. acker.who \in Ops BY <2>1 DEF AckerErased, TypeOK
    <2>3. \A o \in Ops : Live(o)' => Live(o)
      BY <1>0, <2>1
    <2>4. acker.to <= current /\ acker.to \in Nat /\ Idle.who \notin Ops \cup {Reader}
      BY <2>1, <2>2, TimestampArithmetic, DeltaAssumption
      DEF NoneAckedEarly, TypeOK, Idle, NoOne, Reader
    <2>5. CASE UNCHANGED <<lastAck, channel, passed>>
      BY <2>1, <2>3, <2>4, <2>5 DEF NoneAckedEarly
    <2>6. ASSUME NEW to \in Timestamps, lastAck' = to, to <= acker.to,
                 passed' = passed \cup Overtaken(to)
          PROVE  NoneAckedEarly'
      <3>1. to \in Nat BY TimestampArithmetic
      <3>2. to <= current BY <1>0, <2>4, <2>6, <3>1
      <3>3. ASSUME NEW o \in Ops \ passed', Live(o)' PROVE lastAck' <= ts'[o]
        <4>1. o \notin Overtaken(to) /\ Live(o) BY <2>3, <2>6, <3>3
        <4>2. InRange(ts[o], to, current) BY <4>1 DEF Overtaken
        <4> QED BY <1>0, <2>1, <2>6, <3>1, <3>2, <4>2 DEF InRange
      <3> QED BY <2>1, <2>4, <2>6, <3>2, <3>3 DEF NoneAckedEarly
    <2> QED BY <1>6, <2>5, <2>6, AckFinishSends
  <1> QED BY <1>1, <1>2, <1>3, <1>4, <1>5, <1>6, StepKinds

(* A backup is in the range from the last acknowledgement on, or in one on *)
(* its way.                                                                *)
Covered(o) ==
    \/ InRange(ts[o], lastAck, current)
    \/ \E i \in AcksInChannel : InRange(ts[o], channel[i].from, channel[i].to)

(* So are the backups of the requests that have their response, unless     *)
(* they were overtaken.                                                    *)
Reclaimed ==
    phase = "normal" =>
        \A o \in backup \ passed : opState[o] \in {"erased", "answered"} => Covered(o)

(* A message stays in the channel until it is taken.                       *)
LEMMA OthersStay ==
    ASSUME TypeOK, NEW j \in DOMAIN channel, Taken(j), NEW i \in DOMAIN channel, i # j
    PROVE  \E k \in DOMAIN channel' : channel'[k] = channel[i]
  <1> DEFINE M == AckMessages \cup RevertMessages
             before == SubSeq(channel, 1, j - 1)
             rest == SubSeq(channel, j + 1, Len(channel))
  <1>1. channel \in Seq(M) BY DEF TypeOK
  <1>2. channel' = before \o rest BY DEF Taken
  <1> HIDE DEF M
  <1>3. /\ j \in 1 .. Len(channel) /\ i \in 1 .. Len(channel) /\ Len(channel) \in Nat
        /\ before \in Seq(M) /\ rest \in Seq(M)
        /\ Len(before) = j - 1 /\ Len(rest) = Len(channel) - j
    BY <1>1
  <1>4. CASE i < j
    <2>1. before[i] = channel[i] /\ i \in 1 .. Len(before) BY <1>1, <1>3, <1>4
    <2> HIDE DEF before, rest
    <2>2. i \in DOMAIN channel' /\ channel'[i] = before[i] BY <1>2, <1>3, <2>1
    <2> QED BY <2>1, <2>2
  <1>5. CASE i > j
    <2>1. PICK jj \in Int, k \in Int, n \in Int, r \in Int :
              jj = j /\ r = Len(rest) /\ 1 <= k /\ k <= r /\ i = k + j /\ n = k + (jj - 1)
      <3>1. i - j \in Int /\ 1 <= i - j /\ i - j <= Len(rest) /\ i = (i - j) + j BY <1>3, <1>5
      <3>2. j \in Int /\ Len(rest) \in Int /\ i - 1 \in Int /\ i - 1 = (i - j) + (j - 1)
        BY <1>3
      <3> QED BY <3>1, <3>2
    <2>2. rest[k] = channel[k + j]
      <3>1. j + 1 \in Int /\ Len(channel) \in Int /\ \A x \in j + 1 .. Len(channel) : channel[x] \in M
        BY <1>1, <1>3
      <3>2. \A x \in 1 .. Len(channel) - (j + 1) + 1 : rest[x] = channel[j + 1 + x - 1]
        BY <3>1, SubSeqProperties
      <3> HIDE DEF before, rest
      <3>3. 1 <= k /\ k <= r /\ r = Len(channel) - jj /\ jj = j BY <1>3, <2>1, Zenon
      <3>4. k \in 1 .. Len(channel) - (jj + 1) + 1 /\ jj + 1 + k - 1 = k + jj BY <1>3, <3>3
      <3> QED BY <3>2, <3>3, <3>4
    <2> HIDE DEF before, rest
    <2>3. /\ \A x \in 1 .. Len(before) + Len(rest) :
                channel'[x] = IF x <= Len(before) THEN before[x] ELSE rest[x - Len(before)]
          /\ channel' \in Seq(M) /\ Len(channel') = Len(before) + Len(rest)
      BY <1>2, <1>3, ConcatProperties
    <2>4. jj >= 1 /\ Len(before) = jj - 1 /\ Len(rest) = r BY <1>3, <2>1
    <2>5. /\ n \in 1 .. (jj - 1) + r
          /\ ~(n <= jj - 1) /\ n - (jj - 1) = k
      <3>1. 1 <= k /\ k <= r /\ n = k + (jj - 1) BY <2>1, Zenon
      <3>2. jj >= 1 BY <2>4
      <3> QED BY <3>1, <3>2
    <2>6. channel'[n] = rest[k] BY <2>3, <2>4, <2>5
    <2>7. n \in DOMAIN channel' BY <2>3, <2>4, <2>5
    <2> QED BY <2>1, <2>2, <2>6, <2>7
  <1> QED BY <1>3, <1>4, <1>5

(* Nor does it go when another one is dispatched.                          *)
LEMMA AppendedStay ==
    ASSUME TypeOK, NEW msg \in AckMessages \cup RevertMessages, channel' = Append(channel, msg)
    PROVE  /\ Len(channel') \in DOMAIN channel' /\ channel'[Len(channel')] = msg
           /\ \A i \in DOMAIN channel : i \in DOMAIN channel' /\ channel'[i] = channel[i]
  <1> DEFINE M == AckMessages \cup RevertMessages
  <1>1. channel \in Seq(M) /\ msg \in M BY DEF TypeOK
  <1> HIDE DEF M
  <1> QED BY <1>1

LEMMA ReclaimedStep ==
    ASSUME TypeOK, TypeOK', AckerErased, AppliedFirst, StampsGrow, NoneAckedEarly, Reclaimed,
           StampsGrow', NoneAckedEarly', [Next]_vars
    PROVE  Reclaimed'
  <1> SUFFICES ASSUME phase' = "normal", NEW o \in Ops, o \in backup', o \notin passed',
                      opState'[o] \in {"erased", "answered"}
               PROVE  Covered(o)'
    BY DEF Reclaimed, TypeOK
  <1>0. /\ phase = "normal"
        /\ opState \in [Ops -> OpStates]
        /\ \A p \in Ops : ts[p] \in Nat
        /\ {current, lastAck, current', lastAck'} \subseteq Nat
        /\ lastAck <= current
    <2>1. phase = "normal"
      BY DEF Next, vars, stampVars, ackVars, parityVars, revertVars, GetServers, Stamp,
         SendRequest, HandleResponse, Forward, HandleUpdateRequest, EnterIntermediate,
         ListUpdates, RevertDelta, WaitDegraded, HandleAckParityDeltaBackup,
         HandleRevertDelta, AckBegin, AckReadUpdate, AckFinish
    <2>2. {current, lastAck, current', lastAck'} \subseteq Nat /\ \A p \in Ops : ts[p] \in Nat
      BY TimestampArithmetic DEF TypeOK, Timestamps
    <2> QED BY <2>1, <2>2 DEF NoneAckedEarly, TypeOK
  <1>7. o \notin passed
    BY DEF Next, vars, history, GetServers, Stamp, SendRequest, HandleResponse, Forward,
       HandleUpdateRequest, EnterIntermediate, ListUpdates, RevertDelta, WaitDegraded,
       HandleAckParityDeltaBackup, HandleRevertDelta, AckBegin, AckReadUpdate, AckFinish
  <1>1. ASSUME opState[o] \in {"erased", "answered"}, o \in backup
        PROVE  Covered(o)
    BY <1>0, <1>7, <1>1 DEF Reclaimed
  <1>2. CASE UNCHANGED <<current, opState, ts, lastAck, backup, channel>>
    BY <1>1, <1>2 DEF Covered, AcksInChannel
  <1>3. ASSUME NEW p \in Ops, GetServers(p) \/ Stamp(p) \/ SendRequest(p) \/ HandleResponse(p)
        PROVE  Covered(o)'
    <2>1. /\ UNCHANGED <<lastAck, backup, channel>> /\ ts'[o] = ts[o]
          /\ opState[o] \in {"erased", "answered"} \/ opState[o] = "pending"
          /\ UNCHANGED <<current, ts>> \/ Stamp(p)
      BY <1>0, <1>3 DEF GetServers, Stamp, SendRequest, HandleResponse, ackVars, parityVars, TypeOK
    <2>2. Covered(o)
      <3>1. CASE opState[o] \in {"erased", "answered"} BY <1>1, <2>1, <3>1
      <3>2. CASE opState[o] = "pending"
        <4>1. lastAck <= ts[o] /\ ts[o] < current
          BY <1>0, <1>7, <3>2 DEF NoneAckedEarly, StampsGrow, Stamped
        <4> QED BY <1>0, <4>1 DEF Covered, InRange
      <3> QED BY <2>1, <3>1, <3>2
    <2>3. CASE UNCHANGED <<current, ts>>
      BY <2>1, <2>2, <2>3 DEF Covered, AcksInChannel
    <2>4. CASE Stamp(p)
      <3>1. current <= current'
        <4>1. p \in Stamped' /\ ts'[p] = current
          BY <1>0, <2>4 DEF Stamp, Stamped, TypeOK
        <4> QED BY <1>0, <4>1 DEF StampsGrow
      <3>2. CASE InRange(ts[o], lastAck, current)
        BY <1>0, <2>1, <3>1, <3>2 DEF Covered, InRange
      <3>3. CASE \E i \in AcksInChannel : InRange(ts[o], channel[i].from, channel[i].to)
        BY <2>1, <3>3 DEF Covered, AcksInChannel
      <3> QED BY <2>2, <3>2, <3>3 DEF Covered
    <2> QED BY <2>1, <2>3, <2>4
  <1>4. ASSUME NEW p \in Ops, HandleUpdateRequest(p)
        PROVE  Covered(o)'
    <2>1. /\ UNCHANGED <<current, opState, ts, lastAck, channel>>
          /\ backup' = backup \cup {p} /\ p \notin applied
      BY <1>4 DEF HandleUpdateRequest, stampVars, ackVars
    <2>2. o \in backup BY <2>1 DEF AppliedFirst
    <2> QED BY <1>1, <2>1, <2>2 DEF Covered, AcksInChannel
  <1>5. ASSUME NEW j \in DOMAIN channel, HandleAckParityDeltaBackup(j) \/ HandleRevertDelta(j)
        PROVE  Covered(o)'
    <2>1. /\ UNCHANGED <<current, opState, ts, lastAck>> /\ Taken(j) /\ o \in backup
          /\ channel[j].type = "ack" => ~InRange(ts[o], channel[j].from, channel[j].to)
      BY <1>5 DEF HandleAckParityDeltaBackup, HandleRevertDelta, stampVars, ackVars
    <2>2. Covered(o) BY <1>1, <2>1
    <2>3. CASE InRange(ts[o], lastAck, current)
      BY <2>1, <2>3 DEF Covered
    <2>4. ASSUME NEW i \in AcksInChannel, InRange(ts[o], channel[i].from, channel[i].to)
          PROVE  Covered(o)'
      <3>1. i \in DOMAIN channel /\ channel[i].type = "ack" /\ i # j
        BY <2>1, <2>4 DEF AcksInChannel
      <3>2. PICK k \in DOMAIN channel' : channel'[k] = channel[i]
        BY <2>1, <3>1, OthersStay
      <3>3. k \in AcksInChannel' BY <3>1, <3>2 DEF AcksInChannel
      <3>4. InRange(ts'[o], channel'[k].from, channel'[k].to) BY <2>1, <2>4, <3>2
      <3> QED BY <3>3, <3>4 DEF Covered
    <2> QED BY <2>2, <2>3, <2>4 DEF Covered
  <1>6. CASE AckFinish
    <2>1. /\ acker.who # Reader /\ acker.pc = "del" /\ UNCHANGED <<current, ts, backup>>
          /\ opState' = [p \in Ops |-> IF p = acker.who THEN "answered" ELSE opState[p]]
      BY <1>0, <1>6 DEF AckFinish, NoneAckedEarly, parityVars
    <2>2. acker.who \in Ops BY <2>1 DEF AckerErased, TypeOK
    <2>3. acker.from = lastAck BY <1>0, <2>2 DEF NoneAckedEarly
    <2>4. Covered(o)
      <3>1. opState[o] \in {"erased", "answered"} BY <1>0, <2>1 DEF AckerErased
      <3> QED BY <1>1, <2>1, <3>1
    <2>5. CASE UNCHANGED <<lastAck, channel>>
      BY <2>1, <2>4, <2>5 DEF Covered, AcksInChannel
    <2>6. ASSUME NEW to \in Timestamps, lastAck' = to, to <= acker.to,
                 channel' = Append(channel, [type |-> "ack", from |-> acker.from, to |-> to])
          PROVE  Covered(o)'
      <3> DEFINE msg == [type |-> "ack", from |-> acker.from, to |-> to]
      <3>1. msg \in AckMessages BY DEF AckMessages, TypeOK
      <3>2. /\ Len(channel') \in DOMAIN channel' /\ channel'[Len(channel')] = msg
            /\ \A i \in DOMAIN channel : i \in DOMAIN channel' /\ channel'[i] = channel[i]
        <4> HIDE DEF msg
        <4>1. channel' = Append(channel, msg) BY <2>6 DEF msg
        <4> QED BY <3>1, <4>1, AppendedStay
      <3>3. CASE \E i \in AcksInChannel : InRange(ts[o], channel[i].from, channel[i].to)
        BY <2>1, <3>2, <3>3 DEF Covered, AcksInChannel
      <3>4. CASE InRange(ts[o], lastAck, current)
        <4>1. to \in Nat /\ lastAck <= ts[o] /\ ts[o] <= current
          BY <1>0, <3>4, TimestampArithmetic DEF InRange
        <4>2. CASE ts[o] <= to
          <5>1. InRange(ts'[o], channel'[Len(channel')].from, channel'[Len(channel')].to)
            BY <1>0, <2>1, <2>3, <3>2, <4>1, <4>2 DEF InRange
          <5>2. Len(channel') \in AcksInChannel' BY <3>2 DEF AcksInChannel
          <5> QED BY <5>1, <5>2 DEF Covered
        <4>3. CASE ts[o] > to
          <5>1. InRange(ts'[o], lastAck', current')
            BY <1>0, <2>1, <2>6, <4>1, <4>3 DEF InRange
          <5> QED BY <5>1 DEF Covered
        <4> QED BY <1>0, <4>1, <4>2, <4>3
      <3> QED BY <2>4, <3>3, <3>4 DEF Covered
    <2> QED BY <1>6, <2>5, <2>6, AckFinishSends
  <1> QED
    BY <1>0, <1>2, <1>3, <1>4, <1>5, <1>6 DEF Next, vars, stampVars, ackVars, parityVars, Forward,
       EnterIntermediate, ListUpdates, RevertDelta, WaitDegraded, AckBegin, AckReadUpdate

(* Until timestamps wrap around, no backup of an answered request is       *)
(* leaked while the data server is normal, unless lastAck overtook the     *)
(* request before it had its response: however many worker threads there   *)
(* are and however acknowledgements are delayed or overtake each other,    *)
(* one on its way or the next one drops it.                                *)
THEOREM NoBackupLeaked ==
    ASSUME NoWrap
    PROVE  Spec => []BackupsReclaimed
  <1> DEFINE Inv == AppliedFirst /\ NoneAckedEarly /\ Reclaimed
  <1>1. Init => Inv
    <2> SUFFICES ASSUME Init PROVE Inv OBVIOUS
    <2>1. AppliedFirst BY DEF Init, AppliedFirst
    <2>2. Idle.who = NoOne /\ NoOne # Reader /\ FirstTs \in Nat
      BY DeltaAssumption, TimestampArithmetic DEF Idle, NoOne, Reader, Timestamps
    <2>3. \A o \in Ops : opState[o] = "idle" BY DEF Init
    <2>4. NoneAckedEarly BY <2>2, <2>3, DeltaAssumption DEF Init, NoneAckedEarly
    <2>5. Reclaimed BY DEF Init, Reclaimed
    <2> QED BY <2>1, <2>4, <2>5
  <1>2. TypeOK /\ TypeOK' /\ AckerErased
            /\ (NoWrap => StampsGrow) /\ (NoWrap => StampsGrow)' /\ Inv /\ [Next]_vars => Inv'
    <2> SUFFICES ASSUME TypeOK, TypeOK', AckerErased, StampsGrow, StampsGrow', Inv, [Next]_vars
                 PROVE  Inv'
      BY DEF NoWrap
    <2>1. AppliedFirst' BY AppliedFirstStep
    <2>2. NoneAckedEarly' BY NoneAckedEarlyStep
    <2>3. Reclaimed' BY <2>2, ReclaimedStep
    <2> QED BY <2>1, <2>2, <2>3
  <1>3. Inv => BackupsReclaimed
    BY DEF Reclaimed, BackupsReclaimed, Covered, Answered
  <1> QED BY <1>1, <1>2, <1>3, DeltaTypeCorrect, OneAtATime, StampsGrowing, PTL DEF Spec
-----------------------------------------------------------------------------
(* One request at a time, across the wrap-around of timestamps             *)

(* How far t is ahead of base, and how far the client is ahead of what it  *)
(* has acknowledged.                                                       *)
Off(t, base) == IF t < base THEN t - base + TsMod ELSE t - base
Ahead == Off(current, lastAck)

(* Requests that have a timestamp and are not answered yet.                *)
Live == {o \in Ops : opState[o] \in {"stamped", "pending", "erased"}}

(* Backups of answered requests that no acknowledgement under way drops.   *)
Left == {o \in backup \cap Answered :
            \A i \in AcksInChannel : ~InRange(ts[o], channel[i].from, channel[i].to)}

(* All requests take the normal flow.                                      *)
NormalFlow == \A o \in Ops : opState[o] \notin {"coordinated", "degraded"}

(* What the thread in ackParityDelta has read is still true.               *)
AckerCurrent ==
    /\ acker.who # Reader
    /\ acker.who \in Ops =>
            acker.from = lastAck /\ acker.to = current /\ (acker.pc = "del" => acker.update = current)

(* The request in progress has the last timestamp.                         *)
LiveLast == \A o \in Live : NextVal(ts[o]) = current /\ Ahead >= 1

(* The backups that are left have different timestamps, between the last   *)
(* acknowledged one and the current one.                                   *)
LeftAhead ==
    \A o \in Left : Off(ts[o], lastAck) < Ahead /\ \A p \in Live \cup Left : ts[o] = ts[p] => o = p

(* At most a batch of timestamps is not acknowledged, but for the request  *)
(* in progress.                                                            *)
BatchKept == Ahead <= BatchSize + (IF Live = {} THEN 0 ELSE 1)

SerialParts == NormalFlow /\ AckerCurrent /\ LiveLast /\ LeftAhead /\ BatchKept
SerialInv == phase = "normal" => SerialParts

(* Timestamp::nextVal wraps around after the last one.                     *)
LEMMA NextValIs ==
    ASSUME NEW t \in Timestamps
    PROVE  NextVal(t) = IF t = TsMod - 1 THEN 0 ELSE t + 1
  <1>1. t \in Nat /\ TsMod \in Nat \ {0} /\ t <= TsMod - 1 BY DeltaAssumption DEF Timestamps
  <1>2. CASE t = TsMod - 1
    <2>1. (t + 1) % TsMod = 0 BY <1>1, <1>2
    <2> QED BY <1>2, <2>1 DEF NextVal
  <1>3. CASE t # TsMod - 1
    <2>1. (t + 1) % TsMod = t + 1 BY <1>1, <1>3
    <2> QED BY <1>3, <2>1 DEF NextVal
  <1> QED BY <1>2, <1>3

(* The distance from a timestamp determines the other; it grows by one     *)
(* with the next timestamp, until it has gone all the way around.          *)
LEMMA OffArithmetic ==
    ASSUME NEW base \in Timestamps
    PROVE  /\ \A t \in Timestamps : Off(t, base) \in 0 .. TsMod - 1
           /\ Off(base, base) = 0
           /\ \A t, u \in Timestamps : Off(t, base) = Off(u, base) => t = u
           /\ \A t \in Timestamps : Off(t, base) + 1 < TsMod => Off(NextVal(t), base) = Off(t, base) + 1
           /\ \A t \in Timestamps : Off(NextVal(t), base) >= 1 => Off(t, base) = Off(NextVal(t), base) - 1
  <1>1. base \in Nat /\ TsMod \in Nat \ {0} /\ base <= TsMod - 1 BY DeltaAssumption DEF Timestamps
  <1>2. \A t \in Timestamps : t \in Nat /\ t <= TsMod - 1 BY <1>1 DEF Timestamps
  <1>3. \A t \in Timestamps : Off(t, base) \in 0 .. TsMod - 1 BY <1>1, <1>2 DEF Off
  <1>4. Off(base, base) = 0 BY <1>1 DEF Off
  <1>5. \A t, u \in Timestamps : Off(t, base) = Off(u, base) => t = u BY <1>1, <1>2 DEF Off
  <1>6. ASSUME NEW t \in Timestamps
        PROVE  /\ Off(t, base) + 1 < TsMod => Off(NextVal(t), base) = Off(t, base) + 1
               /\ Off(NextVal(t), base) >= 1 => Off(t, base) = Off(NextVal(t), base) - 1
    <2>1. NextVal(t) = IF t = TsMod - 1 THEN 0 ELSE t + 1 BY NextValIs
    <2>2. t \in Nat /\ t <= TsMod - 1 BY <1>2
    <2>3. CASE t = TsMod - 1 BY <1>1, <2>1, <2>2, <2>3 DEF Off
    <2>4. CASE t # TsMod - 1 BY <1>1, <2>1, <2>2, <2>4 DEF Off
    <2> QED BY <2>3, <2>4
  <1> QED BY <1>3, <1>4, <1>5, <1>6

(* What is between two timestamps is in the range of an acknowledgement.   *)
LEMMA OffInRange ==
    ASSUME NEW from \in Timestamps, NEW to \in Timestamps, NEW t \in Timestamps,
           Off(t, from) < Off(to, from)
    PROVE  InRange(t, from, to)
  <1>1. from \in Nat /\ to \in Nat /\ t \in Nat /\ TsMod \in Nat /\ t <= TsMod - 1 /\ to <= TsMod - 1
    BY DeltaAssumption DEF Timestamps
  <1> QED BY <1>1 DEF Off, InRange

(* Below the threshold there is at most a batch, although Timestamp::      *)
(* operator- is one too small when timestamps wrap around.                 *)
LEMMA ThresholdOff ==
    ASSUME NEW from \in Timestamps, NEW to \in Timestamps, BelowThreshold(to, from)
    PROVE  Off(to, from) <= BatchSize
  <1>1. /\ from \in Nat /\ to \in Nat /\ TsMod \in Nat \ {0} /\ BatchSize \in Nat
        /\ from <= TsMod - 1 /\ to <= TsMod - 1
    BY DeltaAssumption DEF Timestamps
  <1>2. CASE to < from
    <2>1. to - from + TsMod - 1 \in 0 .. TsMod - 1 BY <1>1, <1>2
    <2>2. (to - from + TsMod - 1) % TsMod = to - from + TsMod - 1 BY <1>1, <2>1
    <2>3. Minus(to, from) = to - from + TsMod - 1 BY <1>2, <2>2 DEF Minus
    <2> QED BY <1>1, <1>2, <2>3 DEF BelowThreshold, Off
  <1>3. CASE ~(to < from)
    <2>1. to - from \in 0 .. TsMod - 1 BY <1>1, <1>3
    <2>2. (to - from) % TsMod = to - from BY <1>1, <2>1
    <2>3. Minus(to, from) = to - from BY <1>3, <2>2 DEF Minus
    <2> QED BY <1>1, <1>3, <2>3 DEF BelowThreshold, Off
  <1> QED BY <1>2, <1>3

(* Steps of the servers leave fewer backups, or keep those of requests not *)
(* answered yet.                                                           *)
LEMMA LeftShrinks ==
    ASSUME TypeOK, AppliedFirst, UNCHANGED <<opState, ts>>,
           \/ \E o \in Ops : HandleUpdateRequest(o)
           \/ \E j \in DOMAIN channel : HandleAckParityDeltaBackup(j) \/ HandleRevertDelta(j)
           \/ UNCHANGED <<backup, channel>>
    PROVE  Left' \subseteq Left
  <1>0. Answered' = Answered BY DEF Answered
  <1>1. ASSUME NEW o \in Ops, HandleUpdateRequest(o) PROVE Left' \subseteq Left
    <2>1. backup' = backup \cup {o} /\ o \notin applied /\ channel' = channel
      BY <1>1 DEF HandleUpdateRequest
    <2>2. o \notin Answered BY <2>1 DEF AppliedFirst, Answered
    <2> QED BY <1>0, <2>1, <2>2 DEF Left, AcksInChannel
  <1>2. ASSUME NEW j \in DOMAIN channel, HandleAckParityDeltaBackup(j) \/ HandleRevertDelta(j)
        PROVE  Left' \subseteq Left
    <2> SUFFICES ASSUME NEW o \in Left', NEW i \in AcksInChannel
                 PROVE  o \in backup \cap Answered /\ ~InRange(ts[o], channel[i].from, channel[i].to)
      <3>1. Left' \subseteq backup' /\ backup' \subseteq backup /\ Left' \subseteq Answered
        BY <1>0, <1>2 DEF Left, HandleAckParityDeltaBackup, HandleRevertDelta
      <3> QED BY <3>1 DEF Left
    <2>1. /\ Taken(j) /\ o \in backup' /\ o \in backup /\ o \in Answered
          /\ channel[j].type = "ack" => ~InRange(ts[o], channel[j].from, channel[j].to)
      BY <1>0, <1>2 DEF Left, HandleAckParityDeltaBackup, HandleRevertDelta
    <2>2. i \in DOMAIN channel /\ channel[i].type = "ack" BY DEF AcksInChannel
    <2>3. CASE i = j BY <2>1, <2>2, <2>3
    <2>4. CASE i # j
      <3>1. PICK k \in DOMAIN channel' : channel'[k] = channel[i] BY <2>1, <2>2, <2>4, OthersStay
      <3>2. k \in AcksInChannel' BY <2>2, <3>1 DEF AcksInChannel
      <3>3. ~InRange(ts[o], channel'[k].from, channel'[k].to) BY <3>2 DEF Left
      <3> QED BY <2>1, <3>1, <3>3
    <2> QED BY <2>3, <2>4
  <1>3. CASE UNCHANGED <<backup, channel>> BY <1>0, <1>3 DEF Left, AcksInChannel
  <1> QED BY <1>1, <1>2, <1>3

(* The invariant when what is left has become less.                        *)
LEMMA SerialKept ==
    ASSUME SerialParts, UNCHANGED <<current, ts, lastAck>>, NormalFlow', AckerCurrent',
           Live' = Live, Left' \subseteq Left
    PROVE  SerialParts'
  <1>1. Ahead' = Ahead BY DEF Ahead
  <1>2. LiveLast' BY <1>1 DEF SerialParts, LiveLast
  <1>3. LeftAhead' BY <1>1 DEF SerialParts, LeftAhead
  <1>4. BatchKept' BY <1>1 DEF SerialParts, BatchKept
  <1> QED BY <1>2, <1>3, <1>4 DEF SerialParts

(* A request takes the next timestamp: no other one is in progress.        *)
LEMMA SerialStamp ==
    ASSUME MaxOutstanding = 1, BatchSize + 1 < TsMod, TypeOK, TypeOK', OneOutstanding, AckerErased,
           phase = "normal", SerialParts, NEW o \in Ops, Stamp(o)
    PROVE  SerialParts'
  <1>0. /\ opState \in [Ops -> OpStates] /\ ts \in [Ops -> Timestamps]
        /\ current \in Timestamps /\ lastAck \in Timestamps
    BY DEF TypeOK
  <1>1. /\ opState[o] = "normal" /\ opState' = [opState EXCEPT ![o] = "stamped"]
        /\ ts' = [ts EXCEPT ![o] = current] /\ current' = NextVal(current)
        /\ UNCHANGED <<lastAck, acker, backup, channel>>
    BY <1>0 DEF Stamp, SerialParts, NormalFlow, ackVars, parityVars
  <1>2. o \in Outstanding /\ \A p \in Outstanding : p = o
    BY <1>1 DEF Outstanding, Busy, OneOutstanding
  <1>3. Live = {}
    <2>1. Live \subseteq Outstanding BY DEF Live, Outstanding, Busy
    <2> QED BY <1>1, <1>2, <2>1 DEF Live
  <1>4. acker.who \notin Ops
    BY <1>1, <1>2 DEF AckerErased, Outstanding, Busy
  <1>5. Live' = {o}
    <2>1. \A p \in Ops : p # o => opState'[p] = opState[p] BY <1>0, <1>1
    <2>2. opState'[o] = "stamped" BY <1>0, <1>1
    <2> QED BY <1>3, <2>1, <2>2 DEF Live
  <1>6. Left' = Left /\ o \notin Left
    <2>1. Answered' = Answered /\ o \notin Answered BY <1>0, <1>1 DEF Answered
    <2>2. \A p \in Answered : ts'[p] = ts[p] BY <1>0, <1>1, <2>1 DEF Answered
    <2>3. AcksInChannel' = AcksInChannel BY <1>1 DEF AcksInChannel
    <2> QED BY <1>1, <2>1, <2>2, <2>3 DEF Left
  <1>7. Ahead \in Nat /\ Ahead <= BatchSize /\ Ahead' = Ahead + 1 /\ BatchSize \in Nat
    <2>1. Ahead \in 0 .. TsMod - 1 BY <1>0, OffArithmetic DEF Ahead
    <2>2. Ahead <= BatchSize BY <1>3, <2>1, DeltaAssumption DEF SerialParts, BatchKept
    <2>3. Ahead + 1 < TsMod BY <2>1, <2>2, DeltaAssumption
    <2>4. Ahead' = Off(NextVal(current), lastAck) BY <1>1 DEF Ahead
    <2>5. Off(current, lastAck) + 1 < TsMod BY <2>3 DEF Ahead
    <2>6. Off(NextVal(current), lastAck) = Off(current, lastAck) + 1 BY <1>0, <2>5, OffArithmetic
    <2> QED BY <2>1, <2>2, <2>4, <2>6, DeltaAssumption DEF Ahead
  <1>8. NormalFlow' BY <1>0, <1>1 DEF SerialParts, NormalFlow
  <1>9. AckerCurrent' BY <1>1, <1>4 DEF SerialParts, AckerCurrent
  <1>10. LiveLast' BY <1>0, <1>1, <1>5, <1>7 DEF LiveLast
  <1>11. LeftAhead'
    <2> SUFFICES ASSUME NEW p \in Left
                 PROVE  /\ Off(ts'[p], lastAck') < Ahead'
                        /\ \A q \in Live' \cup Left' : ts'[p] = ts'[q] => p = q
      BY <1>6 DEF LeftAhead
    <2>1. p \in Ops /\ p # o /\ ts'[p] = ts[p] BY <1>0, <1>1, <1>6 DEF Left, Answered
    <2>2. Off(ts[p], lastAck) < Ahead BY DEF SerialParts, LeftAhead
    <2>3. Off(ts[p], lastAck) \in Nat BY <1>0, <2>1, OffArithmetic
    <2>4. ts[p] # current BY <2>2, <2>3, <1>7 DEF Ahead
    <2>5. ts'[o] = current BY <1>0, <1>1
    <2>6. \A q \in Left : q # o /\ ts'[q] = ts[q] /\ (ts[p] = ts[q] => p = q)
      <3>1. \A q \in Left : ts[p] = ts[q] => p = q BY DEF SerialParts, LeftAhead
      <3>2. \A q \in Left : q \in Ops /\ q # o BY <1>6 DEF Left, Answered
      <3> QED BY <1>0, <1>1, <3>1, <3>2
    <2>7. Off(ts'[p], lastAck') < Ahead' BY <1>1, <1>7, <2>1, <2>2, <2>3
    <2> QED BY <1>5, <1>6, <2>1, <2>4, <2>5, <2>6, <2>7
  <1>12. BatchKept' BY <1>5, <1>7 DEF BatchKept
  <1> QED BY <1>8, <1>9, <1>10, <1>11, <1>12 DEF SerialParts

(* The worker that acknowledges is the only one with a request: the range  *)
(* ends at the current timestamp, and covers all that is left.             *)
LEMMA SerialAckFinish ==
    ASSUME MaxOutstanding = 1, TypeOK, OneOutstanding, AckerErased,
           phase = "normal", SerialParts, AckFinish
    PROVE  SerialParts'
  <1>0. /\ opState \in [Ops -> OpStates] /\ ts \in [Ops -> Timestamps]
        /\ current \in Timestamps /\ lastAck \in Timestamps
    BY DEF TypeOK
  <1> DEFINE w == acker.who
             del == IF PendingOps("delete") = {} THEN acker.to ELSE Before(Min(PendingStamps("delete")))
             to == SmallAcked(acker.to, acker.update, del)
             msg == [type |-> "ack", from |-> acker.from, to |-> to]
  <1>1. /\ acker.pc = "del" /\ acker' = Idle /\ UNCHANGED <<current, ts, backup>>
        /\ opState' = [p \in Ops |-> IF p = w THEN "answered" ELSE opState[p]]
        /\ w # Reader
    BY DEF AckFinish, SerialParts, AckerCurrent, parityVars
  <1>2. w \in Ops /\ opState[w] = "erased" BY <1>1 DEF AckerErased, TypeOK
  <1>3. acker.from = lastAck /\ acker.to = current /\ acker.update = current
    BY <1>1, <1>2 DEF SerialParts, AckerCurrent
  <1>4. Live = {w} /\ Live' = {}
    <2>1. w \in Outstanding /\ Live \subseteq Outstanding BY <1>2 DEF Live, Outstanding, Busy
    <2>2. \A p \in Live : p = w BY <2>1 DEF OneOutstanding
    <2>3. w \in Live BY <1>2 DEF Live
    <2>4. \A p \in Ops : p # w => opState'[p] = opState[p] BY <1>1
    <2>5. opState'[w] = "answered" BY <1>1, <1>2
    <2>6. \A p \in Ops : p \notin Live' BY <2>2, <2>4, <2>5 DEF Live
    <2>7. Live' \subseteq Ops BY DEF Live
    <2> QED BY <2>2, <2>3, <2>6, <2>7
  <1>5. to = current
    <2>1. current \in Nat /\ ~(current < current) BY <1>0, TimestampArithmetic
    <2> QED BY <1>3, <2>1 DEF SmallAcked
  <1>6. Idle.who \notin Ops \cup {Reader}
    BY DeltaAssumption DEF Idle, NoOne, Reader
  <1>7. NormalFlow' /\ AckerCurrent' /\ LiveLast'
    <2>1. NormalFlow' BY <1>1 DEF SerialParts, NormalFlow
    <2>2. AckerCurrent' BY <1>1, <1>6 DEF AckerCurrent
    <2> QED BY <1>4, <2>1, <2>2 DEF LiveLast
  <1>8. Ahead \in Nat /\ Off(ts[w], lastAck) < Ahead /\ Off(ts[w], lastAck) \in Nat
    <2>1. NextVal(ts[w]) = current /\ Ahead >= 1 BY <1>4 DEF SerialParts, LiveLast
    <2>2. ts[w] \in Timestamps BY <1>0, <1>2
    <2>3. Off(NextVal(ts[w]), lastAck) >= 1 BY <2>1 DEF Ahead
    <2>4. Off(ts[w], lastAck) = Off(NextVal(ts[w]), lastAck) - 1 BY <1>0, <2>2, <2>3, OffArithmetic
    <2>5. Off(ts[w], lastAck) = Ahead - 1 BY <2>1, <2>4 DEF Ahead
    <2>6. Ahead \in 0 .. TsMod - 1 BY <1>0, OffArithmetic DEF Ahead
    <2> QED BY <2>1, <2>5, <2>6, DeltaAssumption
  <1>9. /\ Answered' = Answered \cup {w}
        /\ \A p \in Left : ts[p] \in Timestamps /\ Off(ts[p], lastAck) < Ahead
        /\ \A p, q \in Left \cup {w} : ts[p] = ts[q] => p = q
    <2>1. Answered' = Answered \cup {w} BY <1>1, <1>2 DEF Answered
    <2>2. \A p \in Left : ts[p] \in Timestamps BY <1>0 DEF Left, Answered
    <2> QED BY <1>4, <2>1, <2>2 DEF SerialParts, LeftAhead
  <1>10. CASE UNCHANGED <<lastAck, channel>> /\ BelowThreshold(to, acker.from)
    <2>1. Left' \subseteq Left \cup {w}
      <3>1. AcksInChannel' = AcksInChannel BY <1>10 DEF AcksInChannel
      <3> QED BY <1>1, <1>9, <1>10, <3>1 DEF Left
    <2>2. Ahead' = Ahead BY <1>1, <1>10 DEF Ahead
    <2>3. LeftAhead' BY <1>1, <1>4, <1>8, <1>9, <1>10, <2>1, <2>2 DEF LeftAhead
    <2>4. Ahead <= BatchSize
      <3>1. BelowThreshold(current, lastAck) BY <1>3, <1>5, <1>10
      <3> QED BY <1>0, <3>1, ThresholdOff DEF Ahead
    <2>5. BatchKept' BY <1>4, <2>2, <2>4, <1>8, DeltaAssumption DEF BatchKept
    <2> QED BY <1>7, <2>3, <2>5 DEF SerialParts
  <1>11. CASE lastAck' = to /\ channel' = Append(channel, msg)
    <2>1. Left' = {}
      <3> SUFFICES ASSUME NEW o \in Left' PROVE FALSE OBVIOUS
      <3>1. msg \in AckMessages BY <1>0, <1>3, <1>5 DEF AckMessages
      <3>2. /\ Len(channel') \in DOMAIN channel' /\ channel'[Len(channel')] = msg
            /\ \A i \in DOMAIN channel : i \in DOMAIN channel' /\ channel'[i] = channel[i]
        <4> HIDE DEF msg
        <4> QED BY <1>11, <3>1, AppendedStay
      <3>3. Len(channel') \in AcksInChannel' BY <3>2 DEF AcksInChannel
      <3>4. ~InRange(ts[o], lastAck, current)
        BY <1>1, <1>3, <1>5, <3>2, <3>3 DEF Left
      <3>5. o \in Left \cup {w}
        <4>1. o \in backup /\ o \in Answered \cup {w} BY <1>1, <1>9 DEF Left
        <4>2. \A i \in AcksInChannel : ~InRange(ts[o], channel[i].from, channel[i].to)
          <5>1. \A i \in AcksInChannel : i \in AcksInChannel' /\ channel'[i] = channel[i]
            BY <3>2 DEF AcksInChannel
          <5> QED BY <1>1, <5>1 DEF Left
        <4> QED BY <4>1, <4>2 DEF Left
      <3>6. ts[o] \in Timestamps /\ Off(ts[o], lastAck) < Off(current, lastAck)
        BY <1>0, <1>2, <1>8, <1>9, <3>5 DEF Ahead
      <3> QED BY <1>0, <3>4, <3>6, OffInRange
    <2>2. LeftAhead' BY <2>1 DEF LeftAhead
    <2>3. Ahead' = 0
      <3>1. Ahead' = Off(current, current) BY <1>1, <1>5, <1>11 DEF Ahead
      <3> QED BY <1>0, <3>1, OffArithmetic
    <2>4. BatchKept' BY <1>4, <2>3, DeltaAssumption DEF BatchKept
    <2> QED BY <1>7, <2>2, <2>4 DEF SerialParts
  <1> QED
    <2>1. IF acker.who # Reader /\ BelowThreshold(to, acker.from)
          THEN UNCHANGED <<lastAck, channel>>
          ELSE channel' = Append(channel, msg) /\ lastAck' = to
      BY DEF AckFinish
    <2> HIDE DEF to, msg
    <2> QED BY <1>1, <1>10, <1>11, <2>1

(* Every step keeps the invariant of a client with one request at a time.  *)
LEMMA SerialStep ==
    ASSUME MaxOutstanding = 1, BatchSize + 1 < TsMod, TypeOK, TypeOK', OneOutstanding, AckerErased,
           AppliedFirst, SerialInv, [Next]_vars
    PROVE  SerialInv'
  <1> SUFFICES ASSUME phase' = "normal" PROVE SerialParts'
    BY DEF SerialInv
  <1>0. phase = "normal" /\ SerialParts
    <2>1. phase = "normal"
      BY DEF Next, vars, stampVars, ackVars, parityVars, revertVars, GetServers, Stamp,
         SendRequest, HandleResponse, Forward, HandleUpdateRequest, EnterIntermediate,
         ListUpdates, RevertDelta, WaitDegraded, HandleAckParityDeltaBackup,
         HandleRevertDelta, AckBegin, AckReadUpdate, AckFinish
    <2> QED BY <2>1 DEF SerialInv
  <1>1. opState \in [Ops -> OpStates] BY DEF TypeOK
  <1>2. ASSUME UNCHANGED <<current, opState, ts, lastAck, acker>>, Left' \subseteq Left
        PROVE  SerialParts'
    <2>1. NormalFlow' /\ AckerCurrent' BY <1>0, <1>2 DEF SerialParts, NormalFlow, AckerCurrent
    <2>2. Live' = Live BY <1>2 DEF Live
    <2> QED BY <1>0, <1>2, <2>1, <2>2, SerialKept
  <1>3. ASSUME NEW o \in Ops, GetServers(o) \/ SendRequest(o) \/ HandleResponse(o)
        PROVE  SerialParts'
    <2>1. /\ UNCHANGED <<current, ts, lastAck, acker, backup, channel>>
          /\ \A p \in Ops : p # o => opState'[p] = opState[p]
          /\ \/ opState[o] = "idle" /\ opState'[o] = "normal"
             \/ opState[o] \in {"stamped", "pending"} /\ opState'[o] \in {"pending", "erased"}
      BY <1>0, <1>1, <1>3 DEF GetServers, SendRequest, HandleResponse, ackVars, parityVars
    <2>2. Live' = Live BY <2>1 DEF Live
    <2>3. Answered' = Answered BY <2>1 DEF Answered
    <2>4. Left' = Left BY <2>1, <2>3 DEF Left, AcksInChannel
    <2>5. NormalFlow' BY <1>0, <2>1 DEF SerialParts, NormalFlow
    <2>6. AckerCurrent' BY <1>0, <2>1 DEF SerialParts, AckerCurrent
    <2> QED BY <1>0, <2>1, <2>2, <2>4, <2>5, <2>6, SerialKept
  <1>4. ASSUME NEW o \in Ops, Stamp(o) PROVE SerialParts' BY <1>0, <1>4, SerialStamp
  <1>5. ASSUME NEW who \in Ops \cup {Reader}, AckBegin(who) PROVE SerialParts'
    <2>1. /\ UNCHANGED <<current, opState, ts, lastAck, backup, channel>>
          /\ who # Reader /\ acker'.who = who /\ acker'.pc = "update"
          /\ acker'.from = lastAck /\ acker'.to = current
      BY <1>0, <1>5, DeltaAssumption DEF AckBegin, stampVars, parityVars
    <2>2. AckerCurrent' BY <2>1 DEF AckerCurrent
    <2>3. Live' = Live /\ Left' = Left BY <2>1 DEF Live, Left, Answered, AcksInChannel
    <2>4. NormalFlow' BY <1>0, <2>1 DEF SerialParts, NormalFlow
    <2> QED BY <1>0, <2>1, <2>2, <2>3, <2>4, SerialKept
  <1>6. CASE AckReadUpdate
    <2>1. UNCHANGED <<current, opState, ts, lastAck, backup, channel>> /\ acker.pc = "update"
      BY <1>6 DEF AckReadUpdate, stampVars, parityVars
    <2>2. acker.who \in Ops /\ opState[acker.who] = "erased"
      BY <1>0, <2>1 DEF AckerErased, TypeOK, SerialParts, AckerCurrent
    <2>3. PendingOps("update") = {}
      <3>1. acker.who \in Outstanding BY <2>2 DEF Outstanding, Busy
      <3>2. PendingOps("update") \subseteq Outstanding BY DEF PendingOps, Outstanding
      <3>3. \A p \in PendingOps("update") : p = acker.who BY <3>1, <3>2 DEF OneOutstanding
      <3> QED BY <2>2, <3>3 DEF PendingOps
    <2>4. /\ acker'.who = acker.who /\ acker'.from = acker.from /\ acker'.to = acker.to
          /\ acker'.update = acker.to
      BY <1>6, <2>3 DEF AckReadUpdate, TypeOK
    <2>5. AckerCurrent' BY <1>0, <2>1, <2>2, <2>4 DEF SerialParts, AckerCurrent
    <2>6. Live' = Live /\ Left' = Left BY <2>1 DEF Live, Left, Answered, AcksInChannel
    <2>7. NormalFlow' BY <1>0, <2>1 DEF SerialParts, NormalFlow
    <2> QED BY <1>0, <2>1, <2>5, <2>6, <2>7, SerialKept
  <1>7. CASE AckFinish BY <1>0, <1>7, SerialAckFinish
  <1>8. ASSUME NEW o \in Ops, Forward(o) \/ HandleUpdateRequest(o) PROVE SerialParts'
    <2>1. /\ UNCHANGED <<current, opState, ts, lastAck, acker>>
          /\ UNCHANGED <<backup, channel>> \/ HandleUpdateRequest(o)
      BY <1>8 DEF Forward, HandleUpdateRequest, stampVars, ackVars
    <2> QED BY <1>2, <2>1, LeftShrinks
  <1>9. ASSUME NEW j \in DOMAIN channel, HandleAckParityDeltaBackup(j) \/ HandleRevertDelta(j)
        PROVE  SerialParts'
    <2>1. UNCHANGED <<current, opState, ts, lastAck, acker>>
      BY <1>9 DEF HandleAckParityDeltaBackup, HandleRevertDelta, stampVars, ackVars
    <2> QED BY <1>2, <1>9, <2>1, LeftShrinks
  <1>10. CASE UNCHANGED vars
    BY <1>2, <1>10, LeftShrinks DEF vars, stampVars, ackVars, parityVars
  <1> QED
    BY <1>0, <1>3, <1>4, <1>5, <1>6, <1>7, <1>8, <1>9, <1>10
    DEF Next, EnterIntermediate, ListUpdates, RevertDelta, WaitDegraded

(* The timestamps of what is left are different numbers below BatchSize,   *)
(* counted from the last acknowledged one.                                 *)
LEMMA SerialBounded ==
    ASSUME TypeOK, SerialInv
    PROVE  BackupsBounded
  <1> SUFFICES ASSUME phase = "normal", AcksInChannel = {}
               PROVE  Cardinality(backup \cap Answered) <= BatchSize
    BY DEF BackupsBounded
  <1>0. SerialParts /\ BatchSize \in Nat BY DeltaAssumption DEF SerialInv
  <1>1. Left = backup \cap Answered BY DEF Left
  <1>2. ts \in [Ops -> Timestamps] /\ lastAck \in Timestamps /\ current \in Timestamps BY DEF TypeOK
  <1>3. Left \subseteq Ops /\ IsFiniteSet(Left)
    <2>1. Left \subseteq Ops BY DEF Left, Answered
    <2> QED BY <2>1, FS_Subset, DeltaAssumption
  <1>4. Ahead \in Nat BY <1>2, OffArithmetic DEF Ahead
  <1>5. ASSUME NEW o \in Left PROVE Off(ts[o], lastAck) \in 0 .. BatchSize - 1
    <2>1. ts[o] \in Timestamps BY <1>2, <1>3
    <2>2. Off(ts[o], lastAck) \in Nat /\ Off(ts[o], lastAck) < Ahead
      BY <1>0, <1>2, <2>1, OffArithmetic DEF SerialParts, LeftAhead
    <2>3. CASE Live = {}
      <3>1. Ahead <= BatchSize BY <1>0, <1>4, <2>3 DEF SerialParts, BatchKept
      <3> QED BY <1>0, <1>4, <2>2, <3>1
    <2>4. ASSUME NEW p \in Live PROVE Off(ts[o], lastAck) \in 0 .. BatchSize - 1
      <3>1. p \in Ops /\ opState[p] # "answered" BY <2>4 DEF Live
      <3>2. p # o BY <3>1 DEF Left, Answered
      <3>3. ts[o] # ts[p] BY <1>0, <2>4, <3>2 DEF SerialParts, LeftAhead
      <3>4. ts[p] \in Timestamps /\ NextVal(ts[p]) = current /\ Ahead >= 1
        BY <1>0, <1>2, <3>1 DEF SerialParts, LiveLast
      <3>5. Off(ts[p], lastAck) = Ahead - 1
        <4>1. Off(NextVal(ts[p]), lastAck) >= 1 BY <3>4 DEF Ahead
        <4>2. Off(ts[p], lastAck) = Off(NextVal(ts[p]), lastAck) - 1 BY <1>2, <3>4, <4>1, OffArithmetic
        <4> QED BY <3>4, <4>2 DEF Ahead
      <3>6. Off(ts[o], lastAck) # Off(ts[p], lastAck) BY <1>2, <2>1, <3>3, <3>4, OffArithmetic
      <3>7. Ahead <= BatchSize + 1 BY <1>0, <1>4, <2>4 DEF SerialParts, BatchKept
      <3> QED BY <1>0, <1>4, <2>2, <3>5, <3>6, <3>7
    <2> QED BY <2>3, <2>4
  <1> DEFINE f == [o \in Left |-> Off(ts[o], lastAck)]
             T == 0 .. BatchSize - 1
  <1>6. f \in [Left -> T] BY <1>5
  <1>7. IsFiniteSet(T) /\ Cardinality(T) = BatchSize
    <2>1. 0 \in Int /\ BatchSize - 1 \in Int BY <1>0
    <2>2. IsFiniteSet(T) /\ Cardinality(T) = IF 0 > BatchSize - 1 THEN 0 ELSE BatchSize - 1 - 0 + 1
      BY <2>1, FS_Interval
    <2> QED BY <1>0, <2>2
  <1>8. \A o, p \in Left : f[o] = f[p] => o = p
    <2> SUFFICES ASSUME NEW o \in Left, NEW p \in Left, f[o] = f[p] PROVE o = p OBVIOUS
    <2>1. ts[o] \in Timestamps /\ ts[p] \in Timestamps BY <1>2, <1>3
    <2>2. ts[o] = ts[p] BY <1>2, <2>1, OffArithmetic
    <2> QED BY <1>0, <2>2 DEF SerialParts, LeftAhead
  <1>9. Cardinality(Left) \in Nat BY <1>3, FS_CardinalityType
  <1>10. ~(Cardinality(T) < Cardinality(Left))
    <2> HIDE DEF f, T
    <2> QED BY <1>3, <1>6, <1>7, <1>8, FS_PigeonHole
  <1> HIDE DEF T
  <1> QED BY <1>0, <1>1, <1>7, <1>9, <1>10

(* What is left is in the range that the next acknowledgement starts from. *)
LEMMA SerialReclaimed ==
    ASSUME TypeOK, SerialInv
    PROVE  BackupsReclaimed
  <1> SUFFICES ASSUME phase = "normal", NEW o \in backup \cap Answered, o \notin passed,
                      \A i \in AcksInChannel : ~InRange(ts[o], channel[i].from, channel[i].to)
               PROVE  InRange(ts[o], lastAck, current)
    BY DEF BackupsReclaimed
  <1>1. o \in Left /\ o \in Ops BY DEF Left, Answered
  <1>2. Off(ts[o], lastAck) < Off(current, lastAck)
    BY <1>1 DEF SerialInv, SerialParts, LeftAhead, Ahead
  <1>3. ts[o] \in Timestamps /\ lastAck \in Timestamps /\ current \in Timestamps BY <1>1 DEF TypeOK
  <1> QED BY <1>2, <1>3, OffInRange

(* A client with one request at a time leaves at most a batch of backups   *)
(* at the parity server, and none that no acknowledgement would drop,      *)
(* however often timestamps wrap around and however messages overtake each *)
(* other: Timestamp::operator- is one too small after the wrap-around, and *)
(* this costs one backup, not the bound.                                   *)
THEOREM BatchOfBackups ==
    ASSUME MaxOutstanding = 1, BatchSize + 1 < TsMod
    PROVE  Spec => [](BackupsBounded /\ BackupsReclaimed)
  <1> DEFINE Inv == AppliedFirst /\ SerialInv
  <1>1. Init => Inv
    <2> SUFFICES ASSUME Init PROVE Inv OBVIOUS
    <2>1. AppliedFirst BY DEF Init, AppliedFirst
    <2>2. Live = {} /\ Left = {} BY DEF Init, Live, Left
    <2>3. Ahead = 0
      <3>1. FirstTs \in Timestamps BY DeltaAssumption DEF Timestamps
      <3>2. Ahead = Off(FirstTs, FirstTs) BY DEF Init, Ahead
      <3> QED BY <3>1, <3>2, OffArithmetic
    <2>4. Idle.who \notin Ops \cup {Reader} BY DeltaAssumption DEF Idle, NoOne, Reader
    <2>5. NormalFlow /\ AckerCurrent BY <2>4 DEF Init, NormalFlow, AckerCurrent
    <2>6. LiveLast /\ LeftAhead /\ BatchKept
      BY <2>2, <2>3, DeltaAssumption DEF LiveLast, LeftAhead, BatchKept
    <2> QED BY <2>1, <2>5, <2>6 DEF SerialInv, SerialParts
  <1>2. TypeOK /\ TypeOK' /\ OneOutstanding /\ AckerErased /\ Inv /\ [Next]_vars => Inv'
    <2> SUFFICES ASSUME TypeOK, TypeOK', OneOutstanding, AckerErased, Inv, [Next]_vars PROVE Inv'
      OBVIOUS
    <2> QED BY AppliedFirstStep, SerialStep
  <1>3. TypeOK /\ Inv => BackupsBounded /\ BackupsReclaimed BY SerialBounded, SerialReclaimed
  <1> QED BY <1>1, <1>2, <1>3, DeltaTypeCorrect, OneAtATime, PTL DEF Spec
=============================================================================
