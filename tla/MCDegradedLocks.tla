-------------------------- MODULE MCDegradedLocks --------------------------
(* Two settings in one run: a pool of threads, as the constants say, and   *)
(* one server and one thread with locks of two stripes.                    *)
EXTENDS DegradedLocks, TLC
CONSTANTS s1, s2, s3, s4, t1, t2, r1, r2, r3, r4, w1, w2, w3
VARIABLE one        \* the setting, chosen at the start

MCStripeOf == [r \in Requests |-> IF r = r1 THEN t1 ELSE CHOOSE t \in Stripes : t # t1 \/ Stripes = {t1}]

(* With one stripe all requests are alike, and so are the threads.         *)
MCSymmetry == Permutations(Workers) \cup Permutations(Requests)

One == INSTANCE DegradedLocks
    WITH Switchable <- {s1}, Stripes <- {t1, t2}, Requests <- {r3, r4},
         StripeOf <- (r3 :> t1 @@ r4 :> t2), Workers <- {w3}, MaxSwitches <- 1

MCInit == one \in BOOLEAN /\ IF one THEN One!Init ELSE Init
MCNext ==
    /\ UNCHANGED one
    /\ IF one THEN One!Next ELSE Next
MCSpec == MCInit /\ [][MCNext]_<<vars, one>>

(* The setting of the constants alone.                                     *)
PoolSpec == one = FALSE /\ Init /\ [][Next /\ UNCHANGED one]_<<vars, one>>

(* With one thread in the pool, no chunk of a server in normal state is    *)
(* locked: requests to it would be redirected to a stale copy.             *)
LockedOnlyDegradedByOne == one => One!LockedOnlyDegraded

(* With one thread, a server becomes NORMAL only when the chunks that were *)
(* reconstructed elsewhere are back.                                       *)
MigratedBeforeNormalByOne == [][one => One!NormalWhenMigrated]_vars

(* A lock that exists keeps its redirections, whichever threads expand it: *)
(* clients use them already.                                               *)
RedirectionsStable ==
    [][IF one THEN One!InsertKeepsRedirections ELSE InsertKeepsRedirections]_vars
=============================================================================
