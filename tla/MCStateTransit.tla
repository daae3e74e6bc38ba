--------------------------- MODULE MCStateTransit ---------------------------
EXTENDS StateTransit, TLC
CONSTANTS s1, s2, c1, c2, r1, r2, w1, w2, d1, d2
MCDataServer == [r \in Requests |-> s2]
MCParityServers == [r \in Requests |-> {s1}]

(* Threads of a kind run the same code.                                    *)
MCSymmetry == Permutations(Workers) \cup Permutations(Dispatchers)
=============================================================================
