------------------------ MODULE ServerRequestsProofs ------------------------
(***************************************************************************)
(* Proofs about ServerRequests: how many parity servers have responded or  *)
(* failed when the client of an UPDATE or DELETE is answered, and that it  *)
(* is answered once in the cases in which the code sees to it.  The        *)
(* inductive invariant counts: the responses handled, and the parity       *)
(* servers that have failed or still have an entry, are together at least  *)
(* as many as the parity servers of the request; and with the entries      *)
(* alone they are never more.                                              *)
(***************************************************************************)
EXTENDS ServerRequests, FiniteSetTheorems, TLAPS

(* What the constants stand for: finitely many parity servers, of which    *)
(* some may fail; a parity chunk is at one of them, at the data server     *)
(* itself or forwarded by it.                                              *)
Places == Parity \cup {"Self", "Gone"}
Stripes ==
    /\ IsFiniteSet(Parity)
    /\ Failing \subseteq Parity
    /\ \A r \in Requests : Updates[r].targets \in Seq(Places)

(* The requests that go to the parity servers; their parity servers that   *)
(* have an entry, and those that have failed; the chunks listed in a       *)
(* sequence; the server a message is for or from, and the servers that     *)
(* some message of a request is about.                                     *)
Proceeds(r) == ~NotFound(r) /\ ~Ignored(r)
Held(r) == {p \in Parity : <<r, p>> \in peers}
Lost(r) == Targets(r) \cap reported
Listed(s) == {s[i] : i \in DOMAIN s}
Peer(m) == IF m.type = "MODIFY" THEN m.to ELSE m.from
Under(r) == {p \in Parity : \E m \in msgs : m.req = r /\ Peer(m) = p}

Message ==
    [type : {"MODIFY"}, req : Requests, to : Parity]
    \cup [type : {"MODIFIED"}, req : Requests, from : Parity, ok : BOOLEAN]

RequestTypes ==
    /\ at \in [Requests -> {"idle", "inserting", "sent"}]
    /\ todo \in [Requests -> Seq(Places)]
    /\ clients \subseteq Requests
    /\ peers \subseteq Requests \X Parity
    /\ reported \subseteq Parity
    /\ crashed \subseteq reported
    /\ refusing \subseteq Parity
    /\ answers \in [Requests -> Seq(BOOLEAN)]
    /\ acked \in [Requests -> SUBSET Parity]
    /\ msgs \subseteq Message

(* Entries, responses and messages belong to parity servers of a request   *)
(* that proceeds; messages and responses come after all insertions.        *)
Owned(r) ==
    /\ Held(r) \subseteq Targets(r)
    /\ Held(r) # {} => Proceeds(r) /\ at[r] # "idle"
    /\ Listed(todo[r]) \subseteq Listed(Updates[r].targets)
    /\ acked[r] \subseteq Targets(r)
    /\ at[r] # "sent" => acked[r] = {}
    /\ at[r] = "inserting" => Proceeds(r)
    /\ at[r] # "inserting" => todo[r] = <<>>

MsgOwned(m) ==
    /\ at[m.req] = "sent"
    /\ Proceeds(m.req)
    /\ Peer(m) \in Targets(m.req) \ acked[m.req]

(* No two messages are about the same entry.                               *)
MsgsDistinct == \A m, n \in msgs : m.req = n.req /\ Peer(m) = Peer(n) => m = n

(* The counts.                                                             *)
Counted(r) ==
    /\ at[r] = "inserting" => Targets(r) \subseteq Listed(todo[r]) \cup Lost(r) \cup Held(r)
    /\ at[r] = "sent" /\ Proceeds(r) =>
           Cardinality(acked[r]) + Cardinality(Lost(r) \cup Held(r)) >= Cardinality(Targets(r))
    /\ Cardinality(acked[r]) + Cardinality(Held(r)) <= Cardinality(Targets(r))

(* The part of AnsweredAfterCount about r.                                 *)
AfterCount(r) ==
    (answers[r] # <<>> /\ Where(r) # "absent") =>
        /\ Lost(r) = {} => acked[r] = Targets(r)
        /\ ~Pool => Cardinality(acked[r]) + Cardinality(Lost(r)) >= Cardinality(Targets(r))

(* A client is in the pending map until it is answered, once.              *)
ClientExact(r) ==
    IF Proceeds(r)
    THEN IF at[r] = "idle" THEN r \notin clients /\ answers[r] = <<>>
         ELSE \/ r \in clients /\ answers[r] = <<>>
              \/ r \notin clients /\ Len(answers[r]) = 1
    ELSE /\ r \notin clients
         /\ NotFound(r) /\ at[r] = "sent" => Len(answers[r]) = 1
         /\ ~NotFound(r) => answers[r] = <<>>

(* As long as none of its parity servers has failed, each is on its way to *)
(* respond or has responded, and the last entry takes the client along.    *)
Due(r) ==
    (Proceeds(r) /\ at[r] = "sent" /\ Lost(r) = {}) =>
        /\ ~Mistaken(r) => Held(r) = {} \/ Targets(r) \subseteq acked[r] \cup Under(r)
        /\ Targets(r) # {} /\ Held(r) = {} => r \notin clients

(* The only entry of a request takes the client along, however it goes.    *)
Only(r) ==
    \A p \in Parity :
        (Proceeds(r) /\ ~Mistaken(r) /\ at[r] # "idle" /\ Targets(r) = {p}
            /\ p \notin Listed(todo[r]) /\ Held(r) = {}) => r \notin clients

Parts(r) == Owned(r) /\ Counted(r) /\ AfterCount(r) /\ ClientExact(r) /\ Due(r) /\ Only(r)

RequestInv ==
    /\ RequestTypes
    /\ \A r \in Requests : Parts(r)
    /\ \A m \in msgs : MsgOwned(m)
    /\ MsgsDistinct

-----------------------------------------------------------------------------
(* Sets of parity servers are finite.                                      *)
LEMMA ParityFinite ==
    ASSUME Stripes, NEW S \in SUBSET Parity
    PROVE  IsFiniteSet(S) /\ Cardinality(S) \in Nat
  <1>1. IsFiniteSet(S) BY FS_Subset DEF Stripes
  <1> QED BY <1>1, FS_CardinalityType

(* The parity servers of a request are parity servers.                     *)
LEMMA TargetsType ==
    ASSUME NEW r
    PROVE  Targets(r) \subseteq Parity
  BY DEF Targets

(* A response in the place of an entry keeps both counts.                  *)
LEMMA CountTaken ==
    ASSUME NEW T, IsFiniteSet(T), NEW A \in SUBSET T, NEW H \in SUBSET T, NEW L \in SUBSET T,
           NEW a \in T \ A, NEW h \in H,
           Cardinality(A) + Cardinality(L \cup H) >= Cardinality(T),
           Cardinality(A) + Cardinality(H) <= Cardinality(T)
    PROVE  /\ Cardinality(A \cup {a}) + Cardinality(L \cup (H \ {h})) >= Cardinality(T)
           /\ Cardinality(A \cup {a}) + Cardinality(H \ {h}) <= Cardinality(T)
  <1>1. /\ IsFiniteSet(A) /\ IsFiniteSet(H) /\ IsFiniteSet(L \cup H)
        /\ IsFiniteSet(L \cup (H \ {h}))
    BY FS_Subset
  <1>2. /\ Cardinality(A) \in Nat /\ Cardinality(H) \in Nat /\ Cardinality(L \cup H) \in Nat
        /\ Cardinality(T) \in Nat /\ Cardinality(L \cup (H \ {h})) \in Nat
    BY <1>1, FS_CardinalityType
  <1>3. Cardinality(A \cup {a}) = Cardinality(A) + 1
    BY <1>1, FS_AddElement
  <1>4. Cardinality(H \ {h}) = Cardinality(H) - 1
    BY <1>1, FS_RemoveElement
  <1>5. IsFiniteSet((L \cup H) \ {h}) /\ Cardinality((L \cup H) \ {h}) = Cardinality(L \cup H) - 1
    BY <1>1, FS_RemoveElement
  <1>6. (L \cup H) \ {h} \in SUBSET (L \cup (H \ {h}))
    OBVIOUS
  <1>7. Cardinality((L \cup H) \ {h}) <= Cardinality(L \cup (H \ {h}))
    BY <1>1, <1>6, FS_Subset
  <1> QED BY <1>2, <1>3, <1>4, <1>5, <1>7

(* Subsets that are as large as the set.                                   *)
LEMMA CountFull ==
    ASSUME NEW T, IsFiniteSet(T), NEW A \in SUBSET T, Cardinality(A) >= Cardinality(T)
    PROVE  A = T
  <1>1. IsFiniteSet(A) /\ Cardinality(A) <= Cardinality(T) /\ (Cardinality(T) = Cardinality(A) => T = A)
    BY FS_Subset
  <1>2. Cardinality(A) \in Nat /\ Cardinality(T) \in Nat BY <1>1, FS_CardinalityType
  <1> QED BY <1>1, <1>2

(* Counts of larger sets are larger.                                       *)
LEMMA CountGrows ==
    ASSUME NEW B, IsFiniteSet(B), NEW A \in SUBSET B
    PROVE  Cardinality(A) \in Nat /\ Cardinality(B) \in Nat /\ Cardinality(A) <= Cardinality(B)
  BY FS_Subset, FS_CardinalityType

(* What the pending map says of a request (Pending::count) and the set of  *)
(* its parity servers that have an entry.                                  *)
LEMMA HeldEntries ==
    ASSUME Stripes, RequestTypes, NEW r \in Requests
    PROVE  /\ Entries(r) = {} <=> Held(r) = {}
           /\ \A p \in Parity : Held(r) = {p} => Cardinality(Entries(r)) = 1
           /\ \A p \in Parity : <<r, p>> \in peers /\ Cardinality(Entries(r)) = 1 => Held(r) = {p}
           /\ \A e \in Entries(r) : e = <<r, e[2]>> /\ e[2] \in Held(r)
  <1>1. ASSUME NEW e \in Entries(r) PROVE e = <<r, e[2]>> /\ e[2] \in Held(r)
    <2>1. e \in Requests \X Parity /\ e \in peers /\ e[1] = r BY DEF RequestTypes, Entries
    <2>2. e = <<e[1], e[2]>> /\ e[2] \in Parity BY <2>1
    <2> QED BY <2>1, <2>2 DEF Held
  <1>2. \A p \in Held(r) : <<r, p>> \in Entries(r)
    BY DEF Entries, Held
  <1>3. Entries(r) = {} <=> Held(r) = {}
    BY <1>1, <1>2
  <1>4. \A p \in Parity : Held(r) = {p} => Cardinality(Entries(r)) = 1
    <2>1. SUFFICES ASSUME NEW p \in Parity, Held(r) = {p} PROVE Cardinality(Entries(r)) = 1
      OBVIOUS
    <2>2. Entries(r) = {<<r, p>>} BY <1>1, <1>2, <2>1
    <2> QED BY <2>2, FS_Singleton
  <1>5. \A p \in Parity : <<r, p>> \in peers /\ Cardinality(Entries(r)) = 1 => Held(r) = {p}
    <2>1. SUFFICES ASSUME NEW p \in Parity, <<r, p>> \in peers, Cardinality(Entries(r)) = 1
                   PROVE  Held(r) = {p}
      OBVIOUS
    <2>2. IsFiniteSet({r}) /\ IsFiniteSet(Parity) BY FS_Singleton DEF Stripes
    <2>3. IsFiniteSet({r} \X Parity) BY <2>2, FS_Product
    <2>4. Entries(r) \in SUBSET ({r} \X Parity) BY DEF Entries, RequestTypes
    <2>5. IsFiniteSet(Entries(r)) BY <2>3, <2>4, FS_Subset
    <2>6. PICK x : Entries(r) = {x} BY <2>1, <2>5, FS_Singleton
    <2>7. <<r, p>> \in Entries(r) BY <2>1 DEF Entries
    <2>8. \A q \in Held(r) : q = p BY <1>2, <2>6, <2>7
    <2>9. p \in Held(r) BY <2>1 DEF Held
    <2> QED BY <2>8, <2>9
  <1> QED BY <1>1, <1>3, <1>4, <1>5

(* The rest of a sequence and its head.                                    *)
LEMMA ListedTail ==
    ASSUME NEW V, NEW s \in Seq(V), s # <<>>
    PROVE  /\ Tail(s) \in Seq(V) /\ Head(s) \in Listed(s)
           /\ Listed(Tail(s)) \subseteq Listed(s)
           /\ Listed(s) \subseteq Listed(Tail(s)) \cup {Head(s)}
  <1>1. Len(s) \in Nat /\ Len(s) > 0 /\ DOMAIN s = 1 .. Len(s) /\ Head(s) = s[1] OBVIOUS
  <1>2. Tail(s) \in Seq(V) /\ Len(Tail(s)) = Len(s) - 1 OBVIOUS
  <1>3. \A i \in 1 .. Len(s) - 1 : Tail(s)[i] = s[i + 1] OBVIOUS
  <1>4. DOMAIN Tail(s) = 1 .. Len(s) - 1 BY <1>2
  <1>5. \A i \in 1 .. Len(s) - 1 : i + 1 \in DOMAIN s BY <1>1
  <1>6. ASSUME NEW i \in DOMAIN s PROVE s[i] = Head(s) \/ s[i] \in Listed(Tail(s))
    <2>1. CASE i = 1 BY <1>1, <2>1
    <2>2. CASE i # 1
      <3>1. i - 1 \in 1 .. Len(s) - 1 /\ (i - 1) + 1 = i BY <1>1, <2>2
      <3> QED BY <1>3, <1>4, <3>1 DEF Listed
    <2> QED BY <2>1, <2>2
  <1> QED BY <1>1, <1>2, <1>3, <1>4, <1>5, <1>6 DEF Listed

(* What a step does not touch for a request stays as it is for it.         *)
LEMMA Untouched ==
    ASSUME NEW r \in Requests, Parts(r),
           at'[r] = at[r], todo'[r] = todo[r], (r \in clients') <=> (r \in clients),
           Held(r)' = Held(r), Lost(r)' = Lost(r), answers'[r] = answers[r],
           acked'[r] = acked[r],
           Under(r) \subseteq Under(r)' \/ Mistaken(r) \/ Held(r) = {}
    PROVE  Parts(r)'
  <1>1. Owned(r)' BY DEF Parts, Owned
  <1>2. Counted(r)' BY DEF Parts, Counted
  <1>3. AfterCount(r)' BY DEF Parts, AfterCount
  <1>4. ClientExact(r)' BY DEF Parts, ClientExact
  <1>5. Due(r)' BY DEF Parts, Due
  <1>6. Only(r)' BY DEF Parts, Only
  <1> QED BY <1>1, <1>2, <1>3, <1>4, <1>5, <1>6 DEF Parts
-----------------------------------------------------------------------------
(* handleUpdateRequest and handleDeleteRequest                             *)
LEMMA HandleRequestKeeps ==
    ASSUME Stripes, RequestInv, NEW r \in Requests, HandleRequest(r)
    PROVE  RequestInv'
  <1>1. /\ RequestTypes /\ Parts(r) /\ at[r] = "idle"
        /\ UNCHANGED <<peers, reported, crashed, refusing, acked, msgs>>
    BY DEF RequestInv, HandleRequest
  <1>2. \A q \in Requests : /\ Held(q)' = Held(q) /\ Lost(q)' = Lost(q) /\ Under(q)' = Under(q)
                            /\ acked'[q] = acked[q]
    BY <1>1 DEF Held, Lost, Under
  <1>3. Held(r) = {} /\ acked[r] = {}
    BY <1>1 DEF Parts, Owned
  <1>4. ASSUME NEW q \in Requests, q # r
        PROVE  /\ at'[q] = at[q] /\ todo'[q] = todo[q] /\ answers'[q] = answers[q]
               /\ (q \in clients') <=> (q \in clients)
    BY <1>4, <1>1 DEF HandleRequest, RequestTypes
  <1>5. ASSUME NEW q \in Requests, q # r PROVE Parts(q)'
    <2>1. Parts(q) BY DEF RequestInv
    <2>2. Under(q) \subseteq Under(q)' BY <1>2
    <2> QED BY <1>2, <1>4, <1>5, <2>1, <2>2, Untouched
  <1>9. MsgsDistinct' /\ \A m \in msgs' : MsgOwned(m)'
    <2>1. \A m \in msgs : MsgOwned(m) /\ m.req \in Requests BY <1>1 DEF RequestInv, RequestTypes, Message
    <2>2. \A m \in msgs : m.req # r BY <1>1, <2>1 DEF MsgOwned
    <2>3. \A m \in msgs : at'[m.req] = at[m.req] BY <1>4, <2>1, <2>2
    <2> QED BY <1>1, <2>1, <2>3 DEF RequestInv, MsgsDistinct, MsgOwned
  <1>6. Cardinality(acked[r]) + Cardinality(Held(r)) <= Cardinality(Targets(r))
    BY <1>1 DEF Parts, Counted
  <1>7. CASE ~Proceeds(r)
    <2>1. /\ at' = [at EXCEPT ![r] = "sent"] /\ UNCHANGED <<todo, clients>>
          /\ answers' = IF NotFound(r) THEN [answers EXCEPT ![r] = <<FALSE>>] ELSE answers
      BY <1>7 DEF HandleRequest, Proceeds
    <2>2. /\ at'[r] = "sent" /\ todo'[r] = todo[r]
          /\ answers'[r] = IF NotFound(r) THEN <<FALSE>> ELSE answers[r]
      BY <1>1, <2>1 DEF RequestTypes
    <2>3. RequestTypes'
      BY <1>1, <2>1 DEF RequestTypes
    <2>4. Owned(r)' BY <1>1, <1>2, <1>3, <2>2 DEF Parts, Owned
    <2>5. Counted(r)' BY <1>1, <1>2, <1>6, <1>7, <2>2 DEF Counted
    <2>6. ClientExact(r)' BY <1>1, <1>7, <2>1, <2>2 DEF Parts, ClientExact
    <2>7. AfterCount(r)'
      BY <1>1, <1>7, <2>2 DEF Parts, AfterCount, ClientExact, Proceeds, NotFound
    <2>8. Due(r)' /\ Only(r)' BY <1>7 DEF Due, Only
    <2> QED BY <1>5, <1>9, <2>3, <2>4, <2>5, <2>6, <2>7, <2>8 DEF RequestInv, Parts
  <1>8. CASE Proceeds(r)
    <2>1. /\ at' = [at EXCEPT ![r] = "inserting"] /\ todo' = [todo EXCEPT ![r] = Updates[r].targets]
          /\ clients' = clients \cup {r} /\ UNCHANGED answers
      BY <1>8 DEF HandleRequest, Proceeds
    <2>2. /\ at'[r] = "inserting" /\ todo'[r] = Updates[r].targets /\ answers'[r] = answers[r]
          /\ r \in clients'
      BY <1>1, <2>1 DEF RequestTypes
    <2>3. RequestTypes' BY <1>1, <2>1 DEF RequestTypes, Stripes
    <2>4. Owned(r)' BY <1>1, <1>2, <1>3, <1>8, <2>2 DEF Owned
    <2>5. Targets(r) \subseteq Listed(todo'[r]) BY <2>2 DEF Targets, Listed
    <2>6. Counted(r)' BY <1>1, <1>2, <1>6, <2>2, <2>5 DEF Counted
    <2>7. answers[r] = <<>> BY <1>1, <1>8 DEF Parts, ClientExact
    <2>8. ClientExact(r)' /\ AfterCount(r)' BY <1>8, <2>2, <2>7 DEF ClientExact, AfterCount
    <2>9. Due(r)' BY <2>2 DEF Due
    <2>10. Only(r)' BY <2>2, <2>5 DEF Only
    <2> QED BY <1>5, <1>9, <2>3, <2>4, <2>6, <2>8, <2>9, <2>10 DEF RequestInv, Parts
  <1> QED BY <1>7, <1>8

(* sendModifyChunkRequest: the entries                                     *)
LEMMA InsertPendingKeeps ==
    ASSUME Stripes, RequestInv, NEW r \in Requests, InsertPending(r)
    PROVE  RequestInv'
  <1>1. /\ RequestTypes /\ Parts(r) /\ at[r] = "inserting" /\ todo[r] # <<>> /\ todo[r] \in Seq(Places)
        /\ UNCHANGED <<at, clients, reported, crashed, refusing, answers, acked, msgs>>
        /\ todo' = [todo EXCEPT ![r] = Tail(@)]
        /\ peers' = IF Head(todo[r]) \in Parity THEN peers \cup {<<r, Head(todo[r])>>} ELSE peers
    BY DEF RequestInv, InsertPending, RequestTypes
  <1> DEFINE h == Head(todo[r])
  <1>2. todo'[r] = Tail(todo[r]) /\ \A q \in Requests : q # r => todo'[q] = todo[q]
    BY <1>1 DEF RequestTypes
  <1>3. /\ todo'[r] \in Seq(Places) /\ h \in Listed(todo[r])
        /\ Listed(todo'[r]) \subseteq Listed(todo[r])
        /\ Listed(todo[r]) \subseteq Listed(todo'[r]) \cup {h}
    BY <1>1, <1>2, ListedTail
  <1>4. ASSUME NEW q \in Requests PROVE Lost(q)' = Lost(q) /\ Under(q) \subseteq Under(q)'
    BY <1>1 DEF Lost, Under
  <1>5. ASSUME NEW q \in Requests, q # r PROVE Held(q)' = Held(q)
    BY <1>1, <1>5 DEF Held
  <1>6. Held(r)' = Held(r) \cup ({h} \cap Parity)
    BY <1>1 DEF Held
  <1>7. ASSUME NEW q \in Requests, q # r PROVE Parts(q)'
    <2>1. Parts(q) BY DEF RequestInv
    <2>2. /\ at'[q] = at[q] /\ todo'[q] = todo[q] /\ answers'[q] = answers[q] /\ acked'[q] = acked[q]
          /\ (q \in clients') <=> (q \in clients)
      BY <1>1, <1>2, <1>7
    <2> QED BY <1>4, <1>5, <1>7, <2>1, <2>2, Untouched
  <1>8. RequestTypes'
    <2>1. todo' \in [Requests -> Seq(Places)]
      BY <1>1, <1>2, <1>3 DEF RequestTypes
    <2> QED BY <1>1, <2>1 DEF RequestTypes
  <1>9. MsgsDistinct' /\ \A m \in msgs' : MsgOwned(m)'
    BY <1>1 DEF RequestInv, MsgsDistinct, MsgOwned
  <1>10. h \in Parity => h \in Targets(r)
    BY <1>1, <1>3 DEF Parts, Owned, Targets, Listed
  <1>11. Owned(r)'
    BY <1>1, <1>3, <1>6, <1>10 DEF Parts, Owned
  <1>12. Counted(r)'
    <2>1. acked'[r] = {} BY <1>1 DEF Parts, Owned
    <2>2. Held(r)' \subseteq Targets(r) BY <1>11 DEF Owned
    <2>3. Cardinality(Held(r)') <= Cardinality(Targets(r)) /\ Cardinality(Held(r)') \in Nat
      BY <2>2, TargetsType, ParityFinite, CountGrows
    <2>4. Cardinality(acked'[r]) = 0 BY <2>1, FS_EmptySet
    <2>5. Targets(r) \subseteq Listed(todo'[r]) \cup Lost(r)' \cup Held(r)'
      BY <1>1, <1>3, <1>4, <1>6 DEF Parts, Counted, Targets
    <2> QED BY <1>1, <2>3, <2>4, <2>5 DEF Counted
  <1>13. AfterCount(r)' BY <1>1, <1>4 DEF Parts, AfterCount
  <1>14. ClientExact(r)' BY <1>1 DEF Parts, ClientExact
  <1>15. Due(r)' BY <1>1 DEF Due
  <1>16. Only(r)'
    BY <1>1, <1>3, <1>6 DEF Parts, Only
  <1> QED BY <1>7, <1>8, <1>9, <1>11, <1>12, <1>13, <1>14, <1>15, <1>16 DEF RequestInv, Parts

(* sendModifyChunkRequest: the messages                                    *)
LEMMA SendModifyKeeps ==
    ASSUME Stripes, RequestInv, NEW r \in Requests, SendModify(r)
    PROVE  RequestInv'
  <1> DEFINE new == {[type |-> "MODIFY", req |-> r, to |-> p] : p \in Targets(r) \ crashed}
  <1>1. /\ RequestTypes /\ Parts(r) /\ at[r] = "inserting" /\ todo[r] = <<>>
        /\ UNCHANGED <<todo, peers, reported, crashed, refusing, acked>>
        /\ at' = [at EXCEPT ![r] = "sent"]
        /\ clients' = (IF NoneToSend(r) THEN clients \ {r} ELSE clients)
        /\ answers' = (IF NoneToSend(r) /\ r \in clients
                       THEN [answers EXCEPT ![r] = Append(@, TRUE)] ELSE answers)
        /\ msgs' = msgs \cup new
    BY DEF RequestInv, SendModify
  <1>2. /\ at'[r] = "sent" /\ Proceeds(r) /\ acked[r] = {} /\ Held(r) \subseteq Targets(r)
        /\ Targets(r) \subseteq Lost(r) \cup Held(r)
    <2>1. Listed(<<>>) = {} BY DEF Listed
    <2> QED BY <1>1, <2>1 DEF RequestTypes, Parts, Owned, Counted
  <1>3. ASSUME NEW q \in Requests
        PROVE /\ Held(q)' = Held(q) /\ Lost(q)' = Lost(q) /\ Under(q) \subseteq Under(q)'
              /\ acked'[q] = acked[q] /\ todo'[q] = todo[q]
    BY <1>1 DEF Held, Lost, Under
  <1>4. ASSUME NEW q \in Requests, q # r PROVE Parts(q)'
    <2>1. Parts(q) BY DEF RequestInv
    <2>2. /\ at'[q] = at[q] /\ answers'[q] = answers[q]
          /\ (q \in clients') <=> (q \in clients)
      BY <1>1, <1>4 DEF RequestTypes
    <2> QED BY <1>3, <1>4, <2>1, <2>2, Untouched
  <1>5. \A m \in new : /\ m.req = r /\ Peer(m) = m.to /\ m.to \in Targets(r) \ crashed
                       /\ m = [type |-> "MODIFY", req |-> r, to |-> m.to] /\ m \in Message
    BY TargetsType DEF Peer, Message
  <1>6. RequestTypes'
    <2>1. answers' \in [Requests -> Seq(BOOLEAN)]
      <3>1. Append(answers[r], TRUE) \in Seq(BOOLEAN) BY <1>1 DEF RequestTypes
      <3> QED BY <1>1, <3>1 DEF RequestTypes
    <2>2. msgs' \subseteq Message BY <1>1, <1>5 DEF RequestTypes
    <2>3. at' \in [Requests -> {"idle", "inserting", "sent"}] BY <1>1 DEF RequestTypes
    <2>4. clients' \subseteq Requests BY <1>1 DEF RequestTypes
    <2> QED BY <1>1, <2>1, <2>2, <2>3, <2>4 DEF RequestTypes
  <1>7. \A m \in msgs : m.req \in Requests /\ m.req # r /\ MsgOwned(m)
    BY <1>1 DEF RequestInv, MsgOwned, RequestTypes, Message
  <1>8. \A m \in msgs' : MsgOwned(m)'
    <2>1. ASSUME NEW m \in msgs PROVE MsgOwned(m)'
      <3>1. at'[m.req] = at[m.req] BY <1>1, <1>7 DEF RequestTypes
      <3> QED BY <1>1, <1>7, <3>1 DEF MsgOwned
    <2>2. ASSUME NEW m \in new PROVE MsgOwned(m)'
      BY <1>1, <1>2, <1>5 DEF MsgOwned
    <2> QED BY <1>1, <2>1, <2>2
  <1>9. MsgsDistinct'
    BY <1>1, <1>5, <1>7 DEF MsgsDistinct, RequestInv
  <1>10. Owned(r)' BY <1>1, <1>2, <1>3 DEF Parts, Owned
  <1>11. Counted(r)'
    <2>1. Cardinality(acked'[r]) = 0 BY <1>1, <1>2, FS_EmptySet
    <2>2. Lost(r) \cup Held(r) = Targets(r) BY <1>2 DEF Lost
    <2>3. Cardinality(Targets(r)) \in Nat BY TargetsType, ParityFinite
    <2>4. Cardinality(Held(r)) <= Cardinality(Targets(r)) /\ Cardinality(Held(r)) \in Nat
      BY <1>2, TargetsType, ParityFinite, CountGrows
    <2>5. Cardinality(Lost(r)' \cup Held(r)') = Cardinality(Targets(r)) BY <1>3, <2>2
    <2> QED BY <1>2, <1>3, <2>1, <2>3, <2>4, <2>5 DEF Counted
  <1>12. AfterCount(r)'
    <2>1. CASE NoneToSend(r)
      <3>1. Targets(r) = {} /\ Lost(r)' = {} /\ acked'[r] = {} BY <1>1, <1>2, <2>1 DEF NoneToSend, Lost
      <3>2. Cardinality(acked'[r]) = 0 /\ Cardinality(Lost(r)') = 0 /\ Cardinality(Targets(r)) = 0
        BY <3>1, FS_EmptySet
      <3> QED BY <3>1, <3>2 DEF AfterCount
    <2>2. CASE ~NoneToSend(r)
      BY <1>1, <1>3, <2>2 DEF Parts, AfterCount
    <2> QED BY <2>1, <2>2
  <1>13. ClientExact(r)'
    <2>1. CASE NoneToSend(r) /\ r \in clients
      <3>1. answers[r] = <<>> BY <1>1, <1>2, <2>1 DEF Parts, ClientExact
      <3>2. answers'[r] = Append(<<>>, TRUE) BY <1>1, <2>1, <3>1 DEF RequestTypes
      <3>3. Len(answers'[r]) = 1 BY <3>2
      <3>4. r \notin clients' BY <1>1, <2>1
      <3> QED BY <1>2, <3>3, <3>4 DEF ClientExact
    <2>2. CASE ~(NoneToSend(r) /\ r \in clients)
      <3>1. answers'[r] = answers[r] /\ ((r \in clients') <=> (r \in clients)) BY <1>1, <2>2
      <3> QED BY <1>1, <1>2, <3>1 DEF Parts, ClientExact
    <2> QED BY <2>1, <2>2
  <1>14. Due(r)'
    <2>1. SUFFICES ASSUME Lost(r)' = {}
                   PROVE  Targets(r) \subseteq Under(r)' /\ (Targets(r) # {} => Held(r)' # {})
      BY DEF Due
    <2>2. Targets(r) \cap crashed = {} BY <1>1, <1>3, <2>1 DEF Lost, RequestTypes
    <2>3. ASSUME NEW p \in Targets(r) PROVE p \in Under(r)'
      <3>1. [type |-> "MODIFY", req |-> r, to |-> p] \in new BY <2>2
      <3> QED BY <1>1, <1>5, <3>1, TargetsType DEF Under
    <2> QED BY <1>2, <1>3, <2>1, <2>3
  <1>15. Only(r)' BY <1>1, <1>2, <1>3 DEF Parts, Only
  <1> QED BY <1>4, <1>6, <1>8, <1>9, <1>10, <1>11, <1>12, <1>13, <1>14, <1>15 DEF RequestInv, Parts

(* A parity server responds.                                               *)
LEMMA ParityHandleKeeps ==
    ASSUME Stripes, RequestInv, NEW m \in msgs, ParityHandle(m)
    PROVE  RequestInv'
  <1> DEFINE n == Response(m)
  <1>1. /\ RequestTypes /\ m.type = "MODIFY" /\ msgs' = (msgs \ {m}) \cup {n}
        /\ UNCHANGED <<at, todo, clients, peers, reported, crashed, refusing, answers, acked>>
    BY DEF RequestInv, ParityHandle
  <1>2. m.req \in Requests /\ m.to \in Parity
    BY <1>1 DEF RequestTypes, Message
  <1>3. n \in Message /\ n.req = m.req /\ Peer(n) = Peer(m)
    <2>1. (~Refuses(m.to, m.req)) \in BOOLEAN BY DEF Refuses
    <2>2. n = [type |-> "MODIFIED", req |-> m.req, from |-> m.to, ok |-> ~Refuses(m.to, m.req)]
      BY DEF Response
    <2> HIDE DEF n
    <2>3. n \in Message BY <1>2, <2>1, <2>2 DEF Message
    <2> QED BY <1>1, <2>2, <2>3 DEF Peer
  <1> HIDE DEF n
  <1>4. ASSUME NEW q \in Requests
        PROVE /\ Held(q)' = Held(q) /\ Lost(q)' = Lost(q) /\ Under(q) \subseteq Under(q)'
              /\ acked'[q] = acked[q] /\ todo'[q] = todo[q] /\ at'[q] = at[q] /\ answers'[q] = answers[q]
              /\ (q \in clients') <=> (q \in clients)
    BY <1>1, <1>3 DEF Held, Lost, Under
  <1>5. ASSUME NEW q \in Requests PROVE Parts(q)'
    <2>1. Parts(q) BY DEF RequestInv
    <2> QED BY <1>4, <2>1, Untouched
  <1>6. RequestTypes' BY <1>1, <1>3 DEF RequestTypes
  <1>7. ASSUME NEW k \in msgs' PROVE MsgOwned(k)'
    <2>1. PICK j \in msgs : j.req = k.req /\ Peer(j) = Peer(k) BY <1>1, <1>3
    <2>2. MsgOwned(j) BY DEF RequestInv
    <2> QED BY <1>1, <2>1, <2>2 DEF MsgOwned
  <1>8. MsgsDistinct'
    BY <1>1, <1>3 DEF RequestInv, MsgsDistinct
  <1> QED BY <1>5, <1>6, <1>7, <1>8 DEF RequestInv

(* handleUpdateResponse and its like: the response of a parity server.     *)
LEMMA HandleModifyResponseKeeps ==
    ASSUME Stripes, RequestInv, NEW m \in msgs, HandleModifyResponse(m)
    PROVE  RequestInv'
  <1> DEFINE r == m.req
  <1>1. /\ RequestTypes /\ m.type = "MODIFIED" /\ msgs' = msgs \ {m}
        /\ UNCHANGED <<at, todo, reported, crashed, refusing>>
    BY DEF RequestInv, HandleModifyResponse
  <1>2. r \in Requests /\ m.from \in Parity /\ Peer(m) = m.from /\ m.ok \in BOOLEAN
    BY <1>1 DEF RequestTypes, Message, Peer
  <1>3. Parts(r) /\ MsgOwned(m) BY <1>2 DEF RequestInv
  <1>4. at[r] = "sent" /\ Proceeds(r) /\ m.from \in Targets(r) \ acked[r]
    BY <1>2, <1>3 DEF MsgOwned
  <1>5. ASSUME NEW q \in Requests
        PROVE /\ Lost(q)' = Lost(q) /\ Under(q) \subseteq Under(q)' \cup {m.from}
              /\ q # r => Under(q) \subseteq Under(q)'
              /\ todo'[q] = todo[q] /\ at'[q] = at[q]
    BY <1>1, <1>2 DEF Lost, Under
  <1>6. \A n \in msgs' : n \in msgs /\ MsgOwned(n) /\ n.req \in Requests /\ (n.req = r => Peer(n) # m.from)
    BY <1>1, <1>2 DEF RequestInv, MsgsDistinct, RequestTypes, Message
  <1>7. MsgsDistinct' BY <1>1 DEF RequestInv, MsgsDistinct
  <1> HIDE DEF r
  <1>8. CASE Unmatched(r)
    <2>1. UNCHANGED <<peers, clients, answers, acked>>
      BY <1>8 DEF HandleModifyResponse, r
    <2>2. RequestTypes' BY <1>1, <2>1 DEF RequestTypes
    <2>3. ASSUME NEW q \in Requests PROVE Parts(q)'
      <3>1. Parts(q) BY DEF RequestInv
      <3>2. /\ Held(q)' = Held(q) /\ acked'[q] = acked[q] /\ answers'[q] = answers[q]
            /\ (q \in clients') <=> (q \in clients)
        BY <2>1 DEF Held
      <3>3. Under(q) \subseteq Under(q)' \/ Mistaken(q) \/ Held(q) = {}
        BY <1>1, <1>5, <1>8, HeldEntries DEF Unmatched
      <3> QED BY <1>5, <3>1, <3>2, <3>3, Untouched
    <2>4. \A n \in msgs' : MsgOwned(n)' BY <1>1, <1>6, <2>1 DEF MsgOwned
    <2> QED BY <1>7, <2>2, <2>3, <2>4 DEF RequestInv
  <1>9. CASE ~Unmatched(r)
    <2>1. PICK e \in Entries(r) :
            LET answer == NoneLeft(r, Entries(r) \ {e}) /\ r \in clients
            IN  /\ peers' = peers \ {e}
                /\ acked' = [acked EXCEPT ![r] = @ \cup {m.from}]
                /\ clients' = IF answer THEN clients \ {r} ELSE clients
                /\ answers' = IF answer THEN [answers EXCEPT ![r] = Append(@, m.ok)] ELSE answers
      BY <1>9 DEF HandleModifyResponse, r
    <2> DEFINE h == e[2]
               answer == NoneLeft(r, Entries(r) \ {e}) /\ r \in clients
    <2>2. e = <<r, h>> /\ h \in Held(r) BY <1>1, <1>2, HeldEntries
    <2>3. Held(r)' = Held(r) \ {h} /\ \A q \in Requests : q # r => Held(q)' = Held(q)
      BY <2>1, <2>2 DEF Held
    <2>4. NoneLeft(r, Entries(r) \ {e}) <=> Held(r)' = {}
      <3>1. \A d \in Entries(r) : d = <<r, d[2]>> /\ d[2] \in Held(r) BY <1>1, <1>2, HeldEntries
      <3>2. \A p \in Held(r) : <<r, p>> \in Entries(r) BY DEF Held, Entries
      <3>3. ASSUME Entries(r) \ {e} = {} PROVE Held(r)' = {}
        <4>1. \A p \in Held(r) : <<r, p>> = <<r, h>> BY <2>2, <3>2, <3>3
        <4> QED BY <2>3, <4>1
      <3>4. ASSUME Held(r)' = {} PROVE Entries(r) \ {e} = {}
        <4>1. \A d \in Entries(r) : d[2] = h BY <2>3, <3>1, <3>4
        <4> QED BY <2>2, <3>1, <4>1
      <3> QED BY <3>3, <3>4 DEF NoneLeft
    <2>5. /\ acked'[r] = acked[r] \cup {m.from} /\ \A q \in Requests : q # r => acked'[q] = acked[q]
          /\ acked' \in [Requests -> SUBSET Parity]
      BY <1>1, <1>2, <2>1 DEF RequestTypes
    <2>6. /\ clients' = IF answer THEN clients \ {r} ELSE clients
          /\ answers' = IF answer THEN [answers EXCEPT ![r] = Append(@, m.ok)] ELSE answers
      BY <2>1
    <2> HIDE DEF answer, h
    <2>7. ASSUME NEW q \in Requests, q # r PROVE Parts(q)'
      <3>1. Parts(q) BY DEF RequestInv
      <3>2. answers'[q] = answers[q] /\ ((q \in clients') <=> (q \in clients))
        BY <1>1, <2>6, <2>7 DEF RequestTypes
      <3> QED BY <1>5, <2>3, <2>5, <2>7, <3>1, <3>2, Untouched
    <2>8. RequestTypes'
      <3>1. answers' \in [Requests -> Seq(BOOLEAN)]
        <4>1. Append(answers[r], m.ok) \in Seq(BOOLEAN) BY <1>1, <1>2 DEF RequestTypes
        <4> QED BY <1>1, <2>6, <4>1 DEF RequestTypes
      <3>2. clients' \subseteq Requests BY <1>1, <2>6 DEF RequestTypes
      <3>3. peers' \subseteq Requests \X Parity BY <1>1, <2>1 DEF RequestTypes
      <3> QED BY <1>1, <2>5, <3>1, <3>2, <3>3 DEF RequestTypes
    <2>9. ASSUME NEW n \in msgs' PROVE MsgOwned(n)'
      <3>1. MsgOwned(n) /\ n.req \in Requests /\ (n.req = r => Peer(n) # m.from) BY <1>6
      <3>2. acked'[n.req] \subseteq acked[n.req] \cup (IF n.req = r THEN {m.from} ELSE {})
        BY <2>5, <3>1
      <3> QED BY <1>1, <3>1, <3>2 DEF MsgOwned
    <2>10. /\ Targets(r) \subseteq Parity /\ acked[r] \subseteq Targets(r) /\ Held(r) \subseteq Targets(r)
           /\ Lost(r) \subseteq Targets(r) /\ IsFiniteSet(Targets(r))
           /\ Cardinality(acked[r]) + Cardinality(Lost(r) \cup Held(r)) >= Cardinality(Targets(r))
           /\ Cardinality(acked[r]) + Cardinality(Held(r)) <= Cardinality(Targets(r))
      BY <1>3, <1>4, TargetsType, ParityFinite DEF Parts, Owned, Counted, Lost
    <2>11. /\ Cardinality(acked'[r]) + Cardinality(Lost(r) \cup Held(r)') >= Cardinality(Targets(r))
           /\ Cardinality(acked'[r]) + Cardinality(Held(r)') <= Cardinality(Targets(r))
      BY <1>4, <2>2, <2>3, <2>5, <2>10, CountTaken
    <2>12. Owned(r)' BY <1>2, <1>3, <1>4, <1>5, <2>3, <2>5 DEF Parts, Owned
    <2>13. Counted(r)' BY <1>2, <1>4, <1>5, <2>11 DEF Counted
    <2>14. AfterCount(r)'
      <3>1. Cardinality(acked[r]) \in Nat /\ Cardinality(acked'[r]) \in Nat /\ Cardinality(Lost(r)) \in Nat
            /\ Cardinality(acked[r]) <= Cardinality(acked'[r]) /\ Cardinality(Targets(r)) \in Nat
            /\ acked'[r] \subseteq Targets(r)
        <4>1. acked'[r] \in SUBSET Parity BY <1>2, <2>5
        <4> QED BY <1>4, <2>5, <2>10, <4>1, ParityFinite, CountGrows
      <3>2. CASE Held(r)' = {}
        <4>1. Cardinality(acked'[r]) + Cardinality(Lost(r)) >= Cardinality(Targets(r))
          BY <2>11, <3>2
        <4>2. Lost(r) = {} => acked'[r] = Targets(r)
          <5>1. SUFFICES ASSUME Lost(r) = {} PROVE acked'[r] = Targets(r) OBVIOUS
          <5>2. Cardinality(Lost(r)) = 0 BY <5>1, FS_EmptySet
          <5>3. Cardinality(acked'[r]) >= Cardinality(Targets(r)) BY <3>1, <4>1, <5>2
          <5> QED BY <2>10, <3>1, <5>3, CountFull
        <4> QED BY <1>2, <1>5, <4>1, <4>2 DEF AfterCount
      <3>3. CASE Held(r)' # {}
        <4>1. ~answer /\ answers' = answers BY <2>4, <2>6, <3>3 DEF answer
        <4>2. AfterCount(r) BY <1>3 DEF Parts
        <4> QED BY <1>2, <1>4, <1>5, <3>1, <4>1, <4>2 DEF AfterCount
      <3> QED BY <3>2, <3>3
    <2>15. Held(r)' = {} => r \notin clients'
      BY <2>4, <2>6 DEF answer
    <2>16. ClientExact(r)'
      <3>1. CASE answer
        <4>1. answers[r] = <<>> BY <1>3, <1>4, <3>1 DEF Parts, ClientExact, answer
        <4>2. answers'[r] = Append(<<>>, m.ok) BY <1>1, <1>2, <2>6, <3>1, <4>1 DEF RequestTypes
        <4>3. Len(answers'[r]) = 1 BY <4>2
        <4>4. r \notin clients' BY <2>6, <3>1
        <4> QED BY <1>1, <1>4, <4>3, <4>4 DEF ClientExact
      <3>2. CASE ~answer
        <4>1. answers' = answers /\ clients' = clients BY <2>6, <3>2
        <4> QED BY <1>1, <1>3, <4>1 DEF Parts, ClientExact
      <3> QED BY <3>1, <3>2
    <2>17. Due(r)'
      <3>1. Held(r)' # {} => Held(r) # {} BY <2>3
      <3> QED BY <1>1, <1>2, <1>3, <1>5, <2>5, <2>15, <3>1 DEF Parts, Due
    <2>18. Only(r)' BY <2>15 DEF Only
    <2> QED BY <1>7, <2>7, <2>8, <2>9, <2>12, <2>13, <2>14, <2>16, <2>17, <2>18 DEF RequestInv, Parts
  <1> QED BY <1>8, <1>9

(* A parity server crashes or is reported.                                 *)
LEMMA FailKeeps ==
    ASSUME Stripes, RequestInv, NEW p \in Failing, Fail(p)
    PROVE  RequestInv'
  <1>1. /\ RequestTypes /\ p \notin reported /\ reported' = reported \cup {p}
        /\ crashed' \subseteq crashed \cup {p}
        /\ msgs' \subseteq msgs
        /\ \A m \in msgs : Peer(m) # p => m \in msgs'
        /\ UNCHANGED <<at, todo, clients, peers, refusing, answers, acked>>
    <2>1. RequestTypes /\ \A m \in msgs : m.type = "MODIFY" => Peer(m) = m.to
      BY DEF RequestInv, Peer
    <2> QED BY <2>1 DEF Fail
  <1>2. RequestTypes' BY <1>1 DEF RequestTypes, Stripes
  <1>3. MsgsDistinct' /\ \A m \in msgs' : MsgOwned(m)'
    BY <1>1 DEF RequestInv, MsgsDistinct, MsgOwned
  <1>4. ASSUME NEW q \in Requests PROVE Parts(q)'
    <2>1. /\ Parts(q) /\ Held(q)' = Held(q) /\ acked'[q] = acked[q] /\ answers'[q] = answers[q]
          /\ at'[q] = at[q] /\ todo'[q] = todo[q]
          /\ (q \in clients') <=> (q \in clients)
      BY <1>1 DEF RequestInv, Held
    <2>2. CASE p \notin Targets(q)
      <3>1. Lost(q)' = Lost(q) BY <1>1, <2>2 DEF Lost
      <3>2. Under(q) \subseteq Under(q)'
        <4>1. \A m \in msgs : m.req = q => Peer(m) # p
          BY <2>2 DEF RequestInv, MsgOwned
        <4> QED BY <1>1, <4>1 DEF Under
      <3> QED BY <2>1, <3>1, <3>2, Untouched
    <2>3. CASE p \in Targets(q)
      <3>1. Lost(q)' = Lost(q) \cup {p} BY <1>1, <2>3 DEF Lost
      <3>2. Lost(q)' \subseteq Parity /\ Held(q) \subseteq Parity BY <1>2, TargetsType DEF Lost, Held
      <3>3. /\ Cardinality(Lost(q)) <= Cardinality(Lost(q)')
            /\ Cardinality(Lost(q) \cup Held(q)) <= Cardinality(Lost(q)' \cup Held(q)')
            /\ Cardinality(Lost(q)) \in Nat /\ Cardinality(Lost(q)') \in Nat
            /\ Cardinality(Lost(q) \cup Held(q)) \in Nat /\ Cardinality(Lost(q)' \cup Held(q)') \in Nat
        <4>1. IsFiniteSet(Lost(q)') /\ IsFiniteSet(Lost(q)' \cup Held(q)')
          BY <2>1, <3>2, ParityFinite
        <4> QED BY <2>1, <3>1, <4>1, CountGrows
      <3>4. Cardinality(acked[q]) \in Nat /\ Cardinality(Targets(q)) \in Nat
        BY <1>1, TargetsType, ParityFinite DEF RequestTypes
      <3>5. Owned(q)' BY <2>1 DEF Parts, Owned
      <3>6. Counted(q)' BY <2>1, <3>1, <3>3, <3>4 DEF Parts, Counted
      <3>7. AfterCount(q)' BY <2>1, <3>1, <3>3, <3>4 DEF Parts, AfterCount
      <3>8. ClientExact(q)' BY <2>1 DEF Parts, ClientExact
      <3>9. Due(q)' BY <3>1 DEF Due
      <3>10. Only(q)' BY <2>1 DEF Parts, Only
      <3> QED BY <3>5, <3>6, <3>7, <3>8, <3>9, <3>10 DEF Parts
    <2> QED BY <2>2, <2>3
  <1> QED BY <1>2, <1>3, <1>4 DEF RequestInv

(* A parity server learns of a state change of the data server; and steps  *)
(* that change nothing.                                                    *)
LEMMA LearnDegradedKeeps ==
    ASSUME RequestInv, refusing' \subseteq Parity,
           UNCHANGED <<at, todo, clients, peers, reported, crashed, answers, acked, msgs>>
    PROVE  RequestInv'
  <1>1. RequestTypes' BY DEF RequestInv, RequestTypes
  <1>2. ASSUME NEW q \in Requests PROVE Parts(q)'
    <2>1. /\ Parts(q) /\ Held(q)' = Held(q) /\ acked'[q] = acked[q] /\ answers'[q] = answers[q]
          /\ at'[q] = at[q] /\ todo'[q] = todo[q] /\ Lost(q)' = Lost(q) /\ Under(q)' = Under(q)
          /\ (q \in clients') <=> (q \in clients)
      BY DEF RequestInv, Held, Lost, Under
    <2>2. Under(q) \subseteq Under(q)' BY <2>1
    <2> QED BY <2>1, <2>2, Untouched
  <1>3. MsgsDistinct' /\ \A m \in msgs' : MsgOwned(m)'
    BY DEF RequestInv, MsgsDistinct, MsgOwned
  <1> QED BY <1>1, <1>2, <1>3 DEF RequestInv

(* handleRevertDelta                                                       *)
LEMMA HandleRevertKeeps ==
    ASSUME Stripes, RequestInv, NEW p \in Failing, HandleRevert(p)
    PROVE  RequestInv'
  <1> DEFINE waiting == {r \in Requests : <<r, p>> \in peers}
             answered == {r \in waiting : AnswersOnRevert(r)}
  <1>1. /\ RequestTypes /\ p \in reported /\ Free /\ p \in Parity
        /\ peers' = peers \ {<<r, p>> : r \in {q \in waiting : ~StaysOnRevert(q)}}
        /\ clients' = clients \ answered
        /\ answers' = [r \in Requests |->
               IF r \in answered THEN Append(answers[r], Op(r) = "UPDATE") ELSE answers[r]]
        /\ UNCHANGED <<at, todo, reported, crashed, refusing, acked, msgs>>
    BY DEF RequestInv, HandleRevert, Stripes
  <1>2. RequestTypes'
    <2>1. answers' \in [Requests -> Seq(BOOLEAN)]
      <3>1. ASSUME NEW r \in Requests PROVE Append(answers[r], Op(r) = "UPDATE") \in Seq(BOOLEAN)
        <4>1. (Op(r) = "UPDATE") \in BOOLEAN OBVIOUS
        <4>2. answers[r] \in Seq(BOOLEAN) BY <1>1 DEF RequestTypes
        <4> QED BY <4>1, <4>2
      <3> QED BY <1>1, <3>1 DEF RequestTypes
    <2>2. clients' \subseteq Requests /\ peers' \subseteq Requests \X Parity BY <1>1 DEF RequestTypes
    <2> QED BY <1>1, <2>1, <2>2 DEF RequestTypes
  <1>3. MsgsDistinct' /\ \A m \in msgs' : MsgOwned(m)'
    BY <1>1 DEF RequestInv, MsgsDistinct, MsgOwned
  <1>4. ASSUME NEW q \in Requests PROVE Parts(q)'
    <2>1. /\ Parts(q) /\ acked'[q] = acked[q] /\ at'[q] = at[q] /\ todo'[q] = todo[q]
          /\ Lost(q)' = Lost(q) /\ Under(q)' = Under(q) /\ Under(q) \subseteq Under(q)'
      BY <1>1 DEF RequestInv, Lost, Under
    <2>2. CASE q \notin waiting \/ StaysOnRevert(q)
      <3>1. q \notin answered BY <2>2 DEF StaysOnRevert, AnswersOnRevert
      <3>2. answers'[q] = answers[q] /\ ((q \in clients') <=> (q \in clients)) BY <1>1, <3>1
      <3>3. Held(q)' = Held(q) BY <1>1, <2>2 DEF Held
      <3> QED BY <2>1, <3>2, <3>3, Untouched
    <2>3. CASE q \in waiting /\ ~StaysOnRevert(q)
      <3>1. Held(q)' = Held(q) \ {p} /\ p \in Held(q) BY <1>1, <2>3 DEF Held
      <3>2. /\ p \in Targets(q) /\ p \in Lost(q) /\ Proceeds(q) /\ at[q] # "idle"
            /\ Held(q) \subseteq Targets(q)
        BY <1>1, <2>1, <3>1 DEF Parts, Owned, Lost
      <3>3. Lost(q) \cup Held(q)' = Lost(q) \cup Held(q) BY <3>1, <3>2
      <3>4. q \in answered <=> AnswersOnRevert(q) BY <2>3
      <3>5. /\ answers'[q] = IF AnswersOnRevert(q) THEN Append(answers[q], Op(q) = "UPDATE") ELSE answers[q]
            /\ (q \in clients') <=> (q \in clients /\ ~AnswersOnRevert(q))
        BY <1>1, <3>4
      <3> HIDE DEF waiting, answered
      <3>6. AnswersOnRevert(q) => Held(q) = {p}
        BY <1>1, <3>1, HeldEntries DEF AnswersOnRevert, Held
      <3>7. Owned(q)' BY <2>1, <3>1 DEF Parts, Owned
      <3>8. Counted(q)'
        <4>1. /\ Cardinality(Held(q)') <= Cardinality(Held(q))
              /\ Cardinality(Held(q)') \in Nat /\ Cardinality(Held(q)) \in Nat
          <5>1. IsFiniteSet(Held(q)) BY ParityFinite DEF Held
          <5> QED BY <3>1, <5>1, CountGrows
        <4>2. Cardinality(acked[q]) \in Nat /\ Cardinality(Targets(q)) \in Nat
          BY <1>1, TargetsType, ParityFinite DEF RequestTypes
        <4>3. Targets(q) \subseteq Listed(todo[q]) \cup Lost(q) \cup Held(q)
                => Targets(q) \subseteq Listed(todo[q]) \cup Lost(q) \cup Held(q)'
          BY <3>3
        <4> QED BY <2>1, <3>3, <4>1, <4>2, <4>3 DEF Parts, Counted
      <3>9. AfterCount(q)'
        <4>1. Lost(q)' # {} BY <2>1, <3>2
        <4>2. CASE AnswersOnRevert(q)
          <5>1. ASSUME ~Pool PROVE Cardinality(acked[q]) + Cardinality(Lost(q)) >= Cardinality(Targets(q))
            <6>1. at[q] = "sent" BY <1>1, <3>2, <5>1 DEF Free
            <6>2. Lost(q) \cup Held(q) = Lost(q) BY <3>2, <3>6, <4>2
            <6> QED BY <2>1, <3>2, <6>1, <6>2 DEF Parts, Counted
          <5> QED BY <2>1, <4>1, <5>1 DEF AfterCount
        <4>3. CASE ~AnswersOnRevert(q)
          BY <2>1, <3>5, <4>3 DEF Parts, AfterCount
        <4> QED BY <4>2, <4>3
      <3>10. ClientExact(q)'
        <4>1. CASE AnswersOnRevert(q)
          <5>1. answers[q] = <<>> BY <2>1, <3>2, <4>1 DEF Parts, ClientExact, AnswersOnRevert
          <5>2. answers'[q] = Append(<<>>, Op(q) = "UPDATE") BY <3>5, <4>1, <5>1
          <5>3. Len(answers'[q]) = 1 BY <5>2
          <5> QED BY <2>1, <3>2, <3>5, <4>1, <5>3 DEF ClientExact
        <4>2. CASE ~AnswersOnRevert(q)
          BY <2>1, <3>5, <4>2 DEF Parts, ClientExact
        <4> QED BY <4>1, <4>2
      <3>11. Due(q)' BY <2>1, <3>2 DEF Due
      <3>12. Only(q)'
        <4>1. SUFFICES ASSUME NEW s \in Parity, ~Mistaken(q), Targets(q) = {s}
                       PROVE  q \notin clients'
          BY DEF Only
        <4>2. Held(q) = {p} BY <3>1, <3>2, <4>1
        <4>3. Cardinality(Entries(q)) = 1 BY <1>1, <4>2, HeldEntries
        <4> QED BY <3>5, <4>1, <4>3 DEF AnswersOnRevert
      <3> QED BY <3>7, <3>8, <3>9, <3>10, <3>11, <3>12 DEF Parts
    <2> QED BY <2>2, <2>3
  <1> QED BY <1>2, <1>3, <1>4 DEF RequestInv

-----------------------------------------------------------------------------
(* The inductive invariant.                                                *)
LEMMA RequestInvariant ==
    ASSUME Stripes
    PROVE  Spec => []RequestInv
  <1>1. Init => RequestInv
    <2>1. SUFFICES ASSUME Init PROVE RequestInv OBVIOUS
    <2>2. RequestTypes BY <2>1 DEF Init, RequestTypes
    <2>3. ASSUME NEW r \in Requests PROVE Parts(r)
      <3>1. /\ at[r] = "idle" /\ todo[r] = <<>> /\ r \notin clients /\ Held(r) = {} /\ answers[r] = <<>>
            /\ acked[r] = {}
        BY <2>1 DEF Init, Held
      <3>2. Listed(<<>>) = {} BY DEF Listed
      <3>3. Owned(r) BY <3>1, <3>2 DEF Owned
      <3>4. Counted(r)
        <4>1. Cardinality(Targets(r)) \in Nat BY TargetsType, ParityFinite
        <4>2. Cardinality(acked[r]) = 0 /\ Cardinality(Held(r)) = 0 BY <3>1, FS_EmptySet
        <4> QED BY <3>1, <4>1, <4>2 DEF Counted
      <3>5. AfterCount(r) /\ ClientExact(r) /\ Due(r) /\ Only(r)
        BY <3>1 DEF AfterCount, ClientExact, Due, Only
      <3> QED BY <3>3, <3>4, <3>5 DEF Parts
    <2> QED BY <2>1, <2>2, <2>3 DEF Init, RequestInv, MsgsDistinct
  <1>2. RequestInv /\ [Next]_vars => RequestInv'
    <2>1. SUFFICES ASSUME RequestInv, [Next]_vars PROVE RequestInv' OBVIOUS
    <2>2. CASE UNCHANGED vars
      BY <2>1, <2>2, LearnDegradedKeeps DEF vars, RequestInv, RequestTypes
    <2>3. ASSUME NEW r \in Requests, HandleRequest(r) PROVE RequestInv'
      BY <2>1, <2>3, HandleRequestKeeps
    <2>4. ASSUME NEW r \in Requests, InsertPending(r) PROVE RequestInv'
      BY <2>1, <2>4, InsertPendingKeeps
    <2>5. ASSUME NEW r \in Requests, SendModify(r) PROVE RequestInv'
      BY <2>1, <2>5, SendModifyKeeps
    <2>6. ASSUME NEW m \in msgs, ParityHandle(m) PROVE RequestInv'
      BY <2>1, <2>6, ParityHandleKeeps
    <2>7. ASSUME NEW m \in msgs, HandleModifyResponse(m) PROVE RequestInv'
      BY <2>1, <2>7, HandleModifyResponseKeeps
    <2>8. ASSUME NEW p \in Failing, Fail(p) PROVE RequestInv'
      BY <2>1, <2>8, FailKeeps
    <2>9. ASSUME NEW p \in Failing, HandleRevert(p) PROVE RequestInv'
      BY <2>1, <2>9, HandleRevertKeeps
    <2>10. ASSUME NEW p \in Parity, LearnDegraded(p) PROVE RequestInv'
      BY <2>1, <2>10, LearnDegradedKeeps DEF LearnDegraded, RequestInv, RequestTypes
    <2> QED BY <2>1, <2>2, <2>3, <2>4, <2>5, <2>6, <2>7, <2>8, <2>9, <2>10 DEF Next
  <1> QED BY <1>1, <1>2, PTL DEF Spec

(* However many requests, parity servers and workers there are, and        *)
(* whichever parity servers fail: the client of an UPDATE or DELETE is     *)
(* answered when all parity servers have responded, or some have failed;   *)
(* and with one worker, when those that responded and those that failed    *)
(* are as many as the request was sent to (Pending::count).                *)
THEOREM AnswersCounted ==
    ASSUME Stripes
    PROVE  Spec => []AnsweredAfterCount
  <1>1. RequestInv => AnsweredAfterCount
    BY DEF RequestInv, Parts, AfterCount, AnsweredAfterCount, Lost
  <1> QED BY <1>1, RequestInvariant, PTL

(* When no message is under way and the entries of failed servers are      *)
(* dropped, the client has exactly one answer if the request is for one    *)
(* parity server or none of them has failed: responses that remove entries *)
(* of one another, and reverts among them (CHECK_RESPONSE_FOR_FAILED_      *)
(* PARITY), neither lose a client nor answer it twice.                     *)
THEOREM AllAnswered ==
    ASSUME Stripes
    PROVE  Spec => []NoneLeftWaiting
  <1>1. ASSUME RequestInv PROVE NoneLeftWaiting
    <2>1. SUFFICES ASSUME Settled, NEW r \in Requests, Answerable(r),
                          Cardinality(Targets(r)) = 1 \/ Targets(r) \cap reported = {}
                   PROVE  Len(answers[r]) = 1
      BY DEF NoneLeftWaiting
    <2>2. Parts(r) /\ RequestTypes /\ msgs = {} /\ at[r] = "sent" /\ ~Mistaken(r) /\ Targets(r) # {}
      BY <1>1, <2>1 DEF RequestInv, Settled, Answerable, Mistaken
    <2>3. CASE ~Proceeds(r)
      BY <2>1, <2>2, <2>3 DEF Parts, ClientExact, Proceeds, Ignored, Answerable
    <2>4. CASE Proceeds(r)
      <3>1. SUFFICES r \notin clients BY <2>2, <2>4 DEF Parts, ClientExact
      <3>2. \A q \in Held(r) : q \notin reported BY <2>1 DEF Settled, Held
      <3>3. CASE Lost(r) = {}
        <4>1. Held(r) = {} \/ Targets(r) \subseteq acked[r]
          BY <2>2, <2>4, <3>3 DEF Parts, Due, Under
        <4>2. ASSUME Targets(r) \subseteq acked[r] PROVE Held(r) = {}
          <5>1. acked[r] = Targets(r) BY <2>2, <4>2 DEF Parts, Owned
          <5>2. Cardinality(Targets(r)) + Cardinality(Held(r)) <= Cardinality(Targets(r))
            BY <2>2, <5>1 DEF Parts, Counted
          <5>3. /\ Cardinality(Targets(r)) \in Nat /\ Cardinality(Held(r)) \in Nat
                /\ IsFiniteSet(Held(r))
            BY TargetsType, ParityFinite DEF Held
          <5>4. Cardinality(Held(r)) = 0 BY <5>2, <5>3
          <5> QED BY <5>3, <5>4, FS_EmptySet
        <4> QED BY <2>2, <2>4, <3>3, <4>1, <4>2 DEF Parts, Due
      <3>4. CASE Lost(r) # {}
        <4>1. Cardinality(Targets(r)) = 1 /\ IsFiniteSet(Targets(r))
          BY <2>1, <3>4, TargetsType, ParityFinite DEF Lost
        <4>2. PICK p : Targets(r) = {p} BY <4>1, FS_Singleton
        <4>3. p \in Parity /\ p \in reported BY <3>4, <4>2, TargetsType DEF Lost
        <4>4. Held(r) = {} BY <2>2, <3>2, <4>2, <4>3 DEF Parts, Owned
        <4>5. p \notin Listed(todo[r])
          <5>1. todo[r] = <<>> BY <2>2 DEF Parts, Owned
          <5> QED BY <5>1 DEF Listed
        <4> QED BY <2>2, <2>4, <4>2, <4>3, <4>4, <4>5 DEF Parts, Only
      <3> QED BY <3>3, <3>4
    <2> QED BY <2>3, <2>4
  <1> QED BY <1>1, RequestInvariant, PTL
=============================================================================
