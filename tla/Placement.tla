------------------------------ MODULE Placement ------------------------------
(***************************************************************************)
(* Where objects are stored.  A key is hashed to a stripe list, n servers  *)
(* of which the first k hold data, and to one of the data servers; all     *)
(* nodes generate the same lists.  Requests for servers that are not in    *)
(* the normal state are redirected to other servers of the list.           *)
(* (common/stripe_list, common/ds/bitmask_array.cc, common/hash/           *)
(* hash_func.hh, client/worker/worker.cc, client/remap)                    *)
(*                                                                         *)
(* Servers, lists and chunks are numbered from 0.                          *)
(***************************************************************************)
EXTENDS Integers, Sequences, FiniteSets, SequencesExt, FiniteSetsExt

Numbers(n) == [i \in 1 .. n |-> i - 1]

-----------------------------------------------------------------------------
(***************************************************************************)
(* Bit arrays: count entries of size bits in one run of words.  An array   *)
(* is the set of the bits that are set, W the width of a word.             *)
(***************************************************************************)

\* The number of words is rounded up.
Words(W, size, count) == (size * count) \div W + (IF (size * count) % W # 0 THEN 1 ELSE 0)
Index(size, entry, bit) == entry * size + bit
set(mask, size, entry, bit) == mask \cup {Index(size, entry, bit)}
unset(mask, size, entry, bit) == mask \ {Index(size, entry, bit)}
check(mask, size, entry, bit) == Index(size, entry, bit) \in mask
checkAllSet(mask, size, entry) == \A bit \in 0 .. size - 1 : check(mask, size, entry, bit)

\* A mutant: a word is cleared even if the entry ends inside it.
clearWords(mask, W, size, entry) ==
    LET step(s, bit) ==
            LET index == Index(size, entry, bit)
            IN  IF bit < s.next THEN s
                ELSE IF index % W = 0
                THEN [mask |-> s.mask \ (index .. index + W - 1), next |-> bit + W]
                ELSE [mask |-> s.mask \ {index}, next |-> bit + 1]
    IN  FoldLeft(step, [mask |-> mask, next |-> 0], Numbers(size)).mask

\* Whole words are cleared at once.
clear(mask, W, size, entry) ==
    LET step(s, bit) ==
            LET index == Index(size, entry, bit)
            IN  IF bit < s.next THEN s
                ELSE IF index % W = 0 /\ bit + W <= size
                THEN [mask |-> s.mask \ (index .. index + W - 1), next |-> bit + W]
                ELSE [mask |-> s.mask \ {index}, next |-> bit + 1]
    IN  FoldLeft(step, [mask |-> mask, next |-> 0], Numbers(size)).mask

-----------------------------------------------------------------------------
(***************************************************************************)
(* Stripe lists.  The state of the generation has the data and parity      *)
(* servers of each list so far, and the load and the count of lists of     *)
(* each server.                                                            *)
(***************************************************************************)

\* The server with the least load, among these the one in the fewest lists, among
\* these the first, that the list does not have yet; server 0 if it has all.
pickMin(s, data, parity) ==
    LET free == (DOMAIN s.load) \ (data \cup parity)
        lighter(i, j) == s.load[i] < s.load[j] \/ (s.load[i] = s.load[j] /\ s.count[i] < s.count[j])
    IN  IF free = {} THEN 0 ELSE Min({i \in free : \A j \in free : ~lighter(j, i)})

\* One list.  Parity servers are picked first; they carry the load of k data servers.
generateList(n, k, s) ==
    LET parity == FoldLeft(LAMBDA p, j : p \cup {pickMin(s, {}, p)}, {}, Numbers(n - k))
        data == FoldLeft(LAMBDA d, j : d \cup {pickMin(s, d, parity)}, {}, Numbers(k))
    IN  [data |-> Append(s.data, data), parity |-> Append(s.parity, parity),
         load |-> [i \in DOMAIN s.load |-> s.load[i] + (IF i \in data THEN 1 ELSE IF i \in parity THEN k ELSE 0)],
         count |-> [i \in DOMAIN s.count |-> s.count[i] + (IF i \in data \cup parity THEN 1 ELSE 0)]]

generate(n, k, numLists, numServers) ==
    FoldLeft(LAMBDA s, i : generateList(n, k, s),
             [data |-> <<>>, parity |-> <<>>,
              load |-> [i \in 0 .. numServers - 1 |-> 0], count |-> [i \in 0 .. numServers - 1 |-> 0]],
             Numbers(numLists))

\* The servers of a list in the order of their chunks, each kind by its numbers
\* (generate, and update after a server was replaced).
ListOf(s, i, numServers) ==
    SelectSeq(Numbers(numServers), LAMBDA j : j \in s.data[i + 1])
        \o SelectSeq(Numbers(numServers), LAMBDA j : j \in s.parity[i + 1] \ s.data[i + 1])

\* The lists of a server, with the chunk it holds in each.
list(s, k, index) ==
    LET before(S) == Cardinality({j \in S : j < index})
    IN  {[listId |-> i - 1, chunkId |-> before(s.data[i]), isParity |-> FALSE] : i \in {i \in DOMAIN s.data : index \in s.data[i]}}
        \cup {[listId |-> i - 1, chunkId |-> k + before(s.parity[i]), isParity |-> TRUE] :
                 i \in {i \in DOMAIN s.data : index \in s.parity[i] \ s.data[i]}}

\* The hash of bytes, and of bytes that are in two or three places, here with small numbers.
HashModulus == 4096
hash(bytes) == FoldLeft(LAMBDA h, b : (h * 179 + b) % HashModulus, 13, bytes)
hashOfTwo(b1, b2) ==
    FoldLeft(LAMBDA h, n : (h * 179 + (IF n > Len(b2) THEN b1[Len(b1) + Len(b2) - n + 1] ELSE b2[Len(b2) - n + 1])) % HashModulus,
             13, Reverse([n \in 1 .. Len(b1) + Len(b2) |-> n]))
hashOfThree(b1, b2, b3) ==
    LET n2 == Len(b2)
        n3 == Len(b3)
        byte(n) == CASE n > n2 + n3 -> b1[Len(b1) + n2 + n3 - n + 1]
                     [] n > n3 /\ n <= n2 + n3 -> b2[n2 + n3 - n + 1]
                     [] OTHER -> b3[n3 - n + 1]
    IN  FoldLeft(LAMBDA h, n : (h * 179 + byte(n)) % HashModulus, 13, Reverse([n \in 1 .. Len(b1) + n2 + n3 |-> n]))

-----------------------------------------------------------------------------
(***************************************************************************)
(* Redirection (getServers of the client, BasicRemappingScheme::redirect). *)
(* Servers of the list are named by their chunks 0 .. k + m - 1.           *)
(***************************************************************************)

NotNormal(state) == {j \in DOMAIN state : state[j] # "normal"}

\* The chunks that a request is about: its own, the parity chunks, and for UPDATE and
\* DELETE the other data chunks whose servers are not in the normal state.
Entries(k, m, opcode, chunkId, state) ==
    <<chunkId>> \o [i \in 1 .. m |-> k + i - 1]
        \o (IF opcode \in {"UPDATE", "DELETE"}
            THEN SelectSeq(Numbers(k), LAMBDA i : i # chunkId /\ i \in NotNormal(state)) ELSE <<>>)

\* SET has checked before; GET looks at its own server, the others at the whole list.
UsesCoordinatedFlow(opcode, chunkId, state) ==
    CASE opcode = "SET" -> TRUE
      [] opcode = "GET" -> chunkId \in NotNormal(state)
      [] OTHER -> NotNormal(state) # {}

\* Servers that no request is redirected to: if the request is about few chunks all of
\* its servers, else only those of other data chunks.
Selected(k, m, entries) ==
    {entries[i] : i \in {i \in DOMAIN entries : Len(entries) <= k \/ i > 1 + m}}

\* Of the servers with the least latency the last one.
LeastLatency(S, latency) == Max({j \in S : \A o \in S : latency[j] <= latency[o]})

\* A mutant: two chunks can be redirected to one server.
RedirectEachShared(s, c, excluded) ==
    LET others == (DOMAIN s.latency) \ excluded
    IN  IF others = {}
        THEN [s EXCEPT !.remapped = Append(@, c)]
        ELSE LET j == LeastLatency(others, s.latency)
             IN  [remapped |-> Append(s.remapped, j), taken |-> s.taken \cup {j}, latency |-> [s.latency EXCEPT ![j] = @ + 1]]

\* One chunk goes to a server that no other chunk went to, or stays if there is none.
RedirectEach(s, c, excluded) ==
    LET others == (DOMAIN s.latency) \ (excluded \cup s.taken)
    IN  IF others = {}
        THEN [s EXCEPT !.remapped = Append(@, c)]
        ELSE LET j == LeastLatency(others, s.latency)
             IN  [remapped |-> Append(s.remapped, j), taken |-> s.taken \cup {j}, latency |-> [s.latency EXCEPT ![j] = @ + 1]]

\* Chunks of the request whose servers allow it are redirected; GET asks for data only.
redirect(k, m, opcode, chunkId, state, latency) ==
    LET entries == Entries(k, m, opcode, chunkId, state)
        original == SelectSeq(entries, LAMBDA c : state[c] = "degraded" /\ (opcode # "GET" \/ c < k))
        excluded == Selected(k, m, entries) \cup NotNormal(state)
        result == FoldLeft(LAMBDA s, c : RedirectEach(s, c, excluded),
                           [remapped |-> <<>>, taken |-> {}, latency |-> latency], original)
    IN  [original |-> original, remapped |-> result.remapped, latency |-> result.latency]

-----------------------------------------------------------------------------
(***************************************************************************)
(* What placement promises                                                 *)
(***************************************************************************)

\* Clearing an entry leaves the others alone, and all bits are in words that exist.
BitsExact(W, size, count, mask, entry) ==
    /\ Index(size, count - 1, size - 1) < W * Words(W, size, count)
    /\ clear(mask, W, size, entry) = {i \in mask : i \div size # entry}
    /\ checkAllSet(mask, size, entry) <=> (entry * size .. entry * size + size - 1) \subseteq mask

\* A list has n different servers, the chunk that a server is told it holds is the
\* one under which it is found, and loads add up.
ListsExact(n, k, numLists, numServers) ==
    LET s == generate(n, k, numLists, numServers)
        lists == [i \in 0 .. numLists - 1 |-> ListOf(s, i, numServers)]
    IN  numServers >= n =>
            /\ \A i \in 0 .. numLists - 1 : Len(lists[i]) = n /\ IsInjective(lists[i]) /\ Cardinality(s.data[i + 1]) = k
            /\ \A j \in 0 .. numServers - 1 :
                   /\ list(s, k, j) = {[listId |-> i, chunkId |-> c - 1, isParity |-> c > k] :
                                          <<i, c>> \in {x \in (0 .. numLists - 1) \X (1 .. n) : lists[x[1]][x[2]] = j}}
                   /\ s.count[j] = Cardinality(list(s, k, j))
                   /\ s.load[j] = MapThenSumSet(LAMBDA l : IF l.isParity THEN k ELSE 1, list(s, k, j))

\* The hash of a key does not depend on the places its bytes are in.
HashExact(bytes, i, j) ==
    LET part(a, b) == SubSeq(bytes, a, b)
    IN  i <= j /\ j <= Len(bytes) =>
            /\ hashOfTwo(part(1, i), part(i + 1, Len(bytes))) = hash(bytes)
            /\ hashOfThree(part(1, i), part(i + 1, j), part(j + 1, Len(bytes))) = hash(bytes)

\* Chunks are redirected to different servers in the normal state, and stay only when
\* no such server is left.  If the request's own servers are excluded, no server is
\* left with two chunks of the object.
RedirectExact(k, m, opcode, chunkId, state, latency) ==
    LET r == redirect(k, m, opcode, chunkId, state, latency)
        entries == Entries(k, m, opcode, chunkId, state)
        moved == {i \in DOMAIN r.original : r.remapped[i] # r.original[i]}
        usable == (DOMAIN state) \ (Selected(k, m, entries) \cup NotNormal(state))
        stay == ToSet(entries) \ {r.original[i] : i \in moved}
    IN  UsesCoordinatedFlow(opcode, chunkId, state) =>
            /\ Len(r.remapped) = Len(r.original)
            /\ \A i \in moved : state[r.remapped[i]] = "normal"
            /\ \A i, j \in moved : i # j => r.remapped[i] # r.remapped[j]
            /\ Cardinality(moved) = Min({Len(r.original), Cardinality(usable)})
            /\ Len(entries) <= k => \A i \in moved : r.remapped[i] \notin stay
=============================================================================
