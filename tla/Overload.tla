------------------------------ MODULE Overload ------------------------------
(***************************************************************************)
(* Which servers are overloaded.                                           *)
(*                                                                         *)
(* A client measures how long servers take to answer.  At every alarm it   *)
(* takes the 90th percentile per server, smooths it into the cumulative    *)
(* latency and reports that to the coordinator.  At its own alarms the     *)
(* coordinator averages what the clients reported since the last one,      *)
(* compares each server with the average of all, and tells the state       *)
(* transition which servers start and which stop being degraded, if there  *)
(* are enough of them.  It only compares the overloaded servers of two     *)
(* alarms: nothing else remembers which servers it told to degrade.        *)
(*                                                                         *)
(* Latencies are pairs of seconds and nanoseconds that are averaged and    *)
(* smoothed each for itself.  Thresholds are percentages.                  *)
(***************************************************************************)
EXTENDS Naturals, Sequences, FiniteSets, SequencesExt, FiniteSetsExt

CONSTANTS
    Servers,
    Clients,
    Ops,                \* GET and SET are measured apart
    Measured,           \* latencies: pairs of seconds and nanoseconds
    Giga,               \* nanoseconds of a second
    Start, Stop,        \* percent of the servers, for degrading and for stopping it
    Threshold,          \* percent of the average, for a server to be overloaded
    Maximum,            \* degraded servers at most, or 0
    MaxMeasures, MaxAlarms

VARIABLES
    past,           \* a client's measurements since its last alarm
    current,        \* the percentiles of its last alarm
    cumulative,     \* what it reports
    mirror,         \* cumulativeMirror, kept for those who read without the lock
    latest,         \* what the coordinator was told since its last alarm
    overloaded,     \* at the coordinator's last alarm
    known,          \* a client's copy of that
    network,        \* reports under way and stats pushed to clients
    degraded,       \* servers the state transition was told to degrade
    measures, alarms
overloadVars == <<past, current, cumulative, mirror, latest, overloaded, known, network,
                  degraded, measures, alarms>>

Empty == [x \in {} |-> 0]
Updated(f, x, v) == [y \in DOMAIN f \cup {x} |-> IF y = x THEN v ELSE f[y]]
PerOp(f) == [o \in Ops |-> f]

OverloadInit ==
    /\ past = [c \in Clients |-> PerOp(Empty)]
    /\ current = [c \in Clients |-> PerOp(Empty)]
    /\ cumulative = [c \in Clients |-> PerOp(Empty)]
    /\ mirror = [c \in Clients |-> PerOp(Empty)]
    /\ latest = PerOp(Empty) /\ overloaded = {} /\ known = [c \in Clients |-> {}]
    /\ network = <<>> /\ degraded = {} /\ measures = 0 /\ alarms = 0

-----------------------------------------------------------------------------
(***************************************************************************)
(* Latencies                                                               *)
(***************************************************************************)

Latency(sec, nsec) == [sec |-> sec, nsec |-> nsec]
Earlier(a, b) == a.sec < b.sec \/ (a.sec = b.sec /\ a.nsec < b.nsec)

\* Latency::set of a set: the 90th percentile.
Percentile(ls) ==
    LET sorted == SetToSortSeq(ls, Earlier)
    IN  sorted[(9 * Len(sorted)) \div 10 + 1]

\* Latency::aggregate: EWMA with factor 0.2.
aggregate(old, l) ==
    LET base == IF old.sec = 0 /\ old.nsec = 0 THEN l ELSE old
        sec == (4 * base.sec + l.sec) \div 5
        nsec == (4 * base.nsec + l.nsec) \div 5
    IN  IF nsec > Giga THEN Latency(sec + 1, nsec - Giga) ELSE Latency(sec, nsec)

Sums(ls) == [sec |-> MapThenSumSet(LAMBDA i : ls[i].sec, DOMAIN ls),
             nsec |-> MapThenSumSet(LAMBDA i : ls[i].nsec, DOMAIN ls)]

\* The average over clients loses the fraction of a second.
Average(ls) ==
    LET n == Cardinality(DOMAIN ls)
    IN  Latency(Sums(ls).sec \div n, Sums(ls).nsec \div n)

-----------------------------------------------------------------------------
(***************************************************************************)
(* Messages: the records of GET come first, and their number tells where   *)
(* those of SET begin.                                                     *)
(***************************************************************************)

Records(stats, o) ==
    IF o \in Ops
    THEN SetToSeq({[server |-> s, latency |-> stats[o][s]] : s \in DOMAIN stats[o]}) ELSE <<>>

reqPushLoadStats(stats, set) ==
    [gets |-> Len(Records(stats, "Get")),
     records |-> Records(stats, "Get") \o Records(stats, "Set"),
     overloaded |-> set]

parseLoadingStats(m) ==
    [o \in Ops |->
        LET mine == {i \in DOMAIN m.records : (i <= m.gets) = (o = "Get")}
        IN  [s \in {m.records[i].server : i \in mine} |->
                m.records[CHOOSE i \in mine : m.records[i].server = s].latency]]

-----------------------------------------------------------------------------
(***************************************************************************)
(* Clients                                                                 *)
(***************************************************************************)

\* The time between a request and its response is entered into the past.
Measure(c, o, s, l) ==
    /\ measures < MaxMeasures
    /\ measures' = measures + 1
    /\ past' = [past EXCEPT ![c][o] =
            Updated(@, s, (IF s \in DOMAIN @ THEN @[s] ELSE {}) \cup {Latency(l[1], l[2])})]
    /\ UNCHANGED <<current, cumulative, mirror, latest, overloaded, known, network, degraded, alarms>>

\* updateServersCumulativeLoading, for one operation: the mirror follows.
Smoothed(cum, cur) ==
    [s \in DOMAIN cum \cup DOMAIN cur |->
        CASE s \notin DOMAIN cur -> cum[s]
          [] s \notin DOMAIN cum -> cur[s]
          [] OTHER -> aggregate(cum[s], cur[s])]
Mirrored(mir, cum, changed) ==
    [s \in DOMAIN mir \cup changed |-> IF s \in changed THEN cum[s] ELSE mir[s]]

\* Client::signalHandler
ClientAlarm(c) ==
    /\ alarms < MaxAlarms
    /\ alarms' = alarms + 1
    /\ LET cur == [o \in Ops |-> [s \in DOMAIN past[c][o] |-> Percentile(past[c][o][s])]]
           cum == [o \in Ops |-> Smoothed(cumulative[c][o], cur[o])]
       IN  /\ current' = [current EXCEPT ![c] = cur]
           /\ cumulative' = [cumulative EXCEPT ![c] = cum]
           /\ mirror' = [mirror EXCEPT ![c] =
                    [o \in Ops |-> Mirrored(mirror[c][o], cum[o], DOMAIN cur[o])]]
           /\ network' = Append(network, [to |-> "coordinator", client |-> c,
                                                  load |-> reqPushLoadStats(cum, {})])
    /\ past' = [past EXCEPT ![c] = PerOp(Empty)]
    /\ UNCHANGED <<latest, overloaded, known, degraded, measures>>

\* mergeServerCumulativeLoading: servers that were measured at the last alarm are left
\* alone.
Merged(cum, cur, stats) ==
    [s \in DOMAIN cum \cup DOMAIN stats |->
        CASE s \in DOMAIN cur \/ s \notin DOMAIN stats -> cum[s]
          [] s \notin DOMAIN cum -> stats[s]
          [] OTHER -> aggregate(cum[s], stats[s])]

PushArrives ==
    /\ network # <<>> /\ Head(network).to # "coordinator"
    /\ LET m == Head(network)
           c == m.to
           stats == parseLoadingStats(m.load)
           cum == [o \in Ops |-> Merged(cumulative[c][o], current[c][o], stats[o])]
       IN  /\ cumulative' = [cumulative EXCEPT ![c] = cum]
           /\ mirror' = [mirror EXCEPT ![c] = [o \in Ops |->
                    Mirrored(mirror[c][o], cum[o], DOMAIN stats[o] \ DOMAIN current[c][o])]]
           /\ known' = [known EXCEPT ![c] = m.load.overloaded]
    /\ network' = Tail(network)
    /\ UNCHANGED <<past, current, latest, overloaded, degraded, measures, alarms>>

-----------------------------------------------------------------------------
(***************************************************************************)
(* The coordinator                                                         *)
(***************************************************************************)

ReportArrives ==
    /\ network # <<>> /\ Head(network).to = "coordinator"
    /\ LET m == Head(network)
           stats == parseLoadingStats(m.load)
       IN  latest' = [o \in Ops |-> [s \in DOMAIN latest[o] \cup DOMAIN stats[o] |->
                LET old == IF s \in DOMAIN latest[o] THEN latest[o][s] ELSE Empty
                IN  IF s \in DOMAIN stats[o] THEN Updated(old, m.client, stats[o][s]) ELSE old]]
    /\ network' = Tail(network)
    /\ UNCHANGED <<past, current, cumulative, mirror, overloaded, known, degraded, measures, alarms>>

\* updateAverageServerLoading: servers for which the clients measured nothing are
\* left out.
Averages(o) ==
    [s \in {t \in DOMAIN latest[o] : Sums(latest[o][t]).sec + Sums(latest[o][t]).nsec > 0} |->
        Average(latest[o][s])]

\* updateOverloadedServerSet: seconds decide, and nanoseconds between equal seconds.
Over(avg) ==
    LET n == Cardinality(DOMAIN avg)
        sum == Sums(avg)
    IN  {s \in DOMAIN avg :
            /\ sum.sec + sum.nsec > 0
            /\ \/ avg[s].sec * n * 100 > sum.sec * Threshold
               \/ /\ avg[s].sec * n * 100 = sum.sec * Threshold
                  /\ avg[s].nsec * n * 100 >= sum.nsec * Threshold}

Many(set, percent) == Cardinality(set) * 100 > Cardinality(Servers) * percent
Few(set, percent) == Cardinality(set) * 100 < Cardinality(Servers) * percent

\* The servers are told on, not the ones that were told before.
switchPhaseOnlyNew(prev, cur) ==
    IF Many(cur, Start)
    THEN [started |-> IF Many(prev, Start) THEN cur \ prev ELSE cur, stopped |-> {}]
    ELSE [started |-> {},
          stopped |-> IF Few(cur, Stop) /\ ~ Few(prev, Start) THEN prev ELSE {}]

\* switchPhase, from the overloaded servers of the last and of this alarm.
switchPhase(prev, cur) ==
    CASE /\ Many(cur, Start)
         /\ Maximum > 0 /\ (Cardinality(cur) > Maximum \/ Cardinality(degraded) >= Maximum) ->
            [started |-> {}, stopped |-> {}]
      [] /\ Many(cur, Start)
         /\ ~ (Maximum > 0 /\ (Cardinality(cur) > Maximum \/ Cardinality(degraded) >= Maximum)) ->
            IF Many(prev, Start)
            THEN [started |-> cur \ prev, stopped |-> prev \ cur]
            ELSE [started |-> cur, stopped |-> {}]
      [] OTHER ->
            [started |-> {},
             stopped |-> IF Few(cur, Stop) /\ ~ Few(prev, Start) THEN prev ELSE {}]

\* Coordinator::signalHandler: nothing is pushed to the clients when there was no
\* measurement.
CoordinatorAlarm ==
    /\ alarms < MaxAlarms
    /\ alarms' = alarms + 1
    /\ LET avg == [o \in Ops |-> Averages(o)]
           cur == UNION {Over(avg[o]) : o \in Ops}
           phase == switchPhase(overloaded, cur)
           push(c) == [to |-> c, load |-> reqPushLoadStats(avg, cur)]
       IN  /\ overloaded' = cur
           /\ degraded' = (degraded \cup phase.started) \ phase.stopped
           /\ network' = IF \E o \in Ops : DOMAIN avg[o] # {}
                         THEN network \o SetToSeq({push(c) : c \in Clients}) ELSE network
    /\ latest' = PerOp(Empty)
    /\ UNCHANGED <<past, current, cumulative, mirror, known, measures>>

OverloadNext ==
    \/ \E c \in Clients, o \in Ops, s \in Servers, l \in Measured : Measure(c, o, s, l)
    \/ \E c \in Clients : ClientAlarm(c)
    \/ PushArrives
    \/ ReportArrives
    \/ CoordinatorAlarm

-----------------------------------------------------------------------------
\* The servers that are degraded are those that were overloaded at the last alarm,
\* if they were more than the threshold for starting: a server that was told to
\* degrade is told when that is over.  And what is read without the lock is what the
\* client reports.
LoadTracked ==
    /\ degraded = IF Many(overloaded, Start) THEN overloaded ELSE {}
    /\ mirror = cumulative
=============================================================================
