--------------------------- MODULE MetricPipeline ---------------------------
(***************************************************************************)
(* The way of an event through the agent: ring buffer, the plugin's        *)
(* HttpEbpf/OomkillEbpf/TcpsynblEbpf.Start goroutine, its Gather goroutine,*)
(* the channel all plugins share, main's select loop, Influxdb.Write, the  *)
(* batch Points, and the goroutine of Influxdb.Run that commits the batch  *)
(* to the database every three seconds.                                    *)
(*                                                                         *)
(* The stages are connected by an unbuffered channel, a bounded channel    *)
(* and a mutex that is held while the batch is on the network, so a slow   *)
(* database stops the stages one after the other, down to the ring buffer, *)
(* which drops.                                                            *)
(***************************************************************************)
EXTENDS Integers, Sequences, FiniteSets, Functions

CONSTANTS
    Plugin,      \* the plugins that are registered
    Fatal,       \* plugins that end the process when they cannot load or start
    Lossy,       \* plugins whose DecodeMapItem may return an error
    None,        \* no metric, mutex free
    MaxEvent,    \* bound: events of each plugin
    RING_CAP,    \* events that fit in a ring buffer
    CHAN_CAP,    \* capacity of main's channel
    MaxFail      \* bound: failures (commits, loads)

ASSUME ConstantsAssumption ==
    /\ Fatal \subseteq Plugin /\ Lossy \subseteq Plugin
    /\ MaxEvent \in [Plugin -> Nat] /\ MaxFail \in Nat
    /\ RING_CAP \in Nat \ {0} /\ CHAN_CAP \in Nat \ {0}

\* An event, and the metric made of it: the n-th of a plugin.
EventOf(p) == [src : {p}, n : 1 .. MaxEvent[p]]
Metric == UNION {EventOf(p) : p \in Plugin}

ASSUME NoneAssumption == None \notin Metric \union {"main", "commit"}

VARIABLES
    plugin,    \* per plugin: loading, running (Start reads), deaf (Gather
               \* waits, Start has failed), failed (Gather has returned)
    made,      \* per plugin: events that happened
    ring,      \* per plugin: events in the kernel's ring buffer
    reader,    \* per plugin: metric Start is sending to Gather
    gather,    \* per plugin: metric Gather is sending to main
    ch,        \* main's channel
    main,      \* the metric main's loop is writing; None: it is in select
    exited,    \* the process has ended
    mu,        \* Influxdb.mu: the goroutine that holds it
    Points,    \* Influxdb.Points
    tick,      \* the ticker's channel holds a tick
    stopper,   \* the signal channel holds a signal
    db,        \* external: the metrics stored, in the order the server received them
    dropped,   \* history: events the ring buffer or the decoder dropped
    fails,     \* failures so far
    doubtful   \* history: commits that reached the server and reported an error

stages == <<ring, reader, gather>>
vars == <<plugin, made, stages, ch, main, exited, mu, Points, tick, stopper, db, dropped,
          fails, doubtful>>

Running == ~ exited

Init ==
    /\ plugin = [p \in Plugin |-> "loading"]
    /\ made = [p \in Plugin |-> 0]
    /\ ring = [p \in Plugin |-> << >>]
    /\ reader = [p \in Plugin |-> None]
    /\ gather = [p \in Plugin |-> None]
    /\ ch = << >>
    /\ main = None
    /\ exited = FALSE
    /\ mu = None
    /\ Points = << >>
    /\ tick = FALSE
    /\ stopper = FALSE
    /\ db = << >>
    /\ dropped = {}
    /\ fails = 0
    /\ doubtful = 0

-----------------------------------------------------------------------------
(* A plugin: Gather loads the program, runs Start in a goroutine and then   *)
(* passes on what Start sends.                                              *)

Load(p) ==
    /\ Running /\ plugin[p] = "loading"
    /\ plugin' = [plugin EXCEPT ![p] = "running"]
    /\ UNCHANGED <<exited, made, stages, ch, main, mu, Points, tick, stopper, db, dropped,
                   fails, doubtful>>

\* Load fails: the http plugin's Gather returns, the others end the process.
LoadFails(p) ==
    /\ Running /\ plugin[p] = "loading"
    /\ fails < MaxFail /\ fails' = fails + 1
    /\ IF p \in Fatal THEN exited' = TRUE /\ UNCHANGED plugin
       ELSE plugin' = [plugin EXCEPT ![p] = "failed"] /\ UNCHANGED exited
    /\ UNCHANGED <<made, stages, ch, main, mu, Points, tick, stopper, db, dropped, doubtful>>

\* ringbuf.NewReader fails in Start: Gather is not told and waits for ever.
StartFails(p) ==
    /\ Running /\ plugin[p] = "loading"
    /\ fails < MaxFail /\ fails' = fails + 1
    /\ IF p \in Fatal THEN exited' = TRUE /\ UNCHANGED plugin
       ELSE plugin' = [plugin EXCEPT ![p] = "deaf"] /\ UNCHANGED exited
    /\ UNCHANGED <<made, stages, ch, main, mu, Points, tick, stopper, db, dropped, doubtful>>

\* bpf_ringbuf_output of an event in the kernel; a full buffer drops it.
RingbufOutput(p) ==
    /\ Running /\ plugin[p] \in {"running", "deaf"}
    /\ made[p] < MaxEvent[p]
    /\ made' = [made EXCEPT ![p] = @ + 1]
    /\ LET m == [src |-> p, n |-> made[p] + 1] IN
       IF Len(ring[p]) < RING_CAP
       THEN ring' = [ring EXCEPT ![p] = Append(@, m)] /\ UNCHANGED dropped
       ELSE dropped' = dropped \union {m} /\ UNCHANGED ring
    /\ UNCHANGED <<exited, plugin, reader, gather, ch, main, mu, Points, tick, stopper, db,
                   fails, doubtful>>

\* DecodeMapItem may return an error: the http plugin's finds no pod for the
\* endpoint; the others' leave the pod empty.
DecodeFails(p) == p \in Lossy

\* rd.Read and DecodeMapItem in the loop of Start.
Read(p) ==
    /\ Running /\ plugin[p] = "running"
    /\ reader[p] = None /\ ring[p] # << >>
    /\ ring' = [ring EXCEPT ![p] = Tail(@)]
    /\ \/ /\ reader' = [reader EXCEPT ![p] = Head(ring[p])]
          /\ UNCHANGED dropped
       \/ /\ DecodeFails(p)
          /\ dropped' = dropped \union {Head(ring[p])}
          /\ UNCHANGED reader
    /\ UNCHANGED <<exited, plugin, made, gather, ch, main, mu, Points, tick, stopper, db,
                   fails, doubtful>>

\* The unbuffered channel between Start and Gather.
Handover(p) ==
    /\ Running /\ reader[p] # None /\ gather[p] = None
    /\ gather' = [gather EXCEPT ![p] = reader[p]]
    /\ reader' = [reader EXCEPT ![p] = None]
    /\ UNCHANGED <<exited, plugin, made, ring, ch, main, mu, Points, tick, stopper, db,
                   dropped, fails, doubtful>>

\* Mutant: a channel without a bound.
GatherSend_unbounded(p) ==
    /\ Running /\ gather[p] # None
    /\ ch' = Append(ch, gather[p])
    /\ gather' = [gather EXCEPT ![p] = None]
    /\ UNCHANGED <<plugin, made, ring, reader, main, exited, mu, Points, tick, stopper,
                   db, dropped, fails, doubtful>>

\* c <- m.CovertMetric()
GatherSend(p) ==
    /\ Running /\ gather[p] # None /\ Len(ch) < CHAN_CAP
    /\ ch' = Append(ch, gather[p])
    /\ gather' = [gather EXCEPT ![p] = None]
    /\ UNCHANGED <<exited, plugin, made, ring, reader, main, mu, Points, tick, stopper, db,
                   dropped, fails, doubtful>>

-----------------------------------------------------------------------------
(* main *)

MainReceive ==
    /\ Running /\ main = None /\ ch # << >>
    /\ main' = Head(ch)
    /\ ch' = Tail(ch)
    /\ UNCHANGED <<exited, plugin, made, stages, mu, Points, tick, stopper, db, dropped,
                   fails, doubtful>>

\* Mutant: TryLock, the metric is given up while a commit holds the mutex.
Write_trylock ==
    /\ Running /\ main # None
    /\ Points' = IF mu = None THEN Append(Points, main) ELSE Points
    /\ main' = None
    /\ UNCHANGED <<plugin, made, stages, ch, exited, mu, tick, stopper, db, dropped,
                   fails, doubtful>>

\* db.Write: lock, append, unlock.
Write ==
    /\ Running /\ main # None /\ mu = None
    /\ Points' = Append(Points, main)
    /\ main' = None
    /\ UNCHANGED <<exited, plugin, made, stages, ch, mu, tick, stopper, db, dropped, fails,
                   doubtful>>

\* SIGINT or SIGTERM.
Signal ==
    /\ Running /\ ~ stopper
    /\ stopper' = TRUE
    /\ UNCHANGED <<plugin, made, stages, ch, main, exited, mu, Points, tick, db, dropped,
                   fails, doubtful>>

\* Mutant: break, which leaves the select and not the loop.
MainStop_break ==
    /\ Running /\ main = None /\ stopper
    /\ stopper' = FALSE
    /\ UNCHANGED <<plugin, made, stages, ch, main, exited, mu, Points, tick, db, dropped,
                   fails, doubtful>>

\* The select takes the signal; main returns and every goroutine ends.
MainStop ==
    /\ Running /\ main = None /\ stopper
    /\ exited' = TRUE
    /\ UNCHANGED <<plugin, made, stages, ch, main, mu, Points, tick, stopper, db, dropped,
                   fails, doubtful>>

-----------------------------------------------------------------------------
(* The goroutine of Influxdb.Run. *)

\* The ticker's channel holds one tick; further ones are dropped.
Tick ==
    /\ Running /\ ~ tick
    /\ tick' = TRUE
    /\ UNCHANGED <<plugin, made, stages, ch, main, exited, mu, Points, stopper, db, dropped,
                   fails, doubtful>>

\* A tick is taken and the mutex locked; WritePoint is on its way.
CommitBegin ==
    /\ Running /\ tick /\ mu = None
    /\ tick' = FALSE
    /\ mu' = "commit"
    /\ UNCHANGED <<exited, plugin, made, stages, ch, main, Points, stopper, db, dropped,
                   fails, doubtful>>

\* Mutant: the mutex is given up before the batch is cleared.
CommitOK_late_clear ==
    /\ Running /\ mu = "commit"
    /\ db' = db \o Points
    /\ mu' = None
    /\ \/ Points' = << >> /\ UNCHANGED main
       \/ Points' = << >> /\ main # None /\ main' = None
    /\ UNCHANGED <<exited, plugin, made, stages, ch, tick, stopper, dropped, fails, doubtful>>

\* Mutant: the batch is not cleared.
CommitOK_not_cleared ==
    /\ Running /\ mu = "commit"
    /\ db' = db \o Points
    /\ mu' = None
    /\ UNCHANGED <<exited, plugin, made, stages, ch, main, Points, tick, stopper, dropped,
                   fails, doubtful>>

\* WritePoint succeeds, ClearPoints, unlock.
CommitOK ==
    /\ Running /\ mu = "commit"
    /\ db' = db \o Points
    /\ Points' = << >>
    /\ mu' = None
    /\ UNCHANGED <<exited, plugin, made, stages, ch, main, tick, stopper, dropped, fails,
                   doubtful>>

\* WritePoint returns an error: Commit returns early and the batch is kept for
\* the next tick.  The server may have stored it all the same.
CommitFails ==
    /\ Running /\ mu = "commit"
    /\ fails < MaxFail /\ fails' = fails + 1
    /\ mu' = None
    /\ \/ UNCHANGED <<db, doubtful>>
       \/ db' = db \o Points /\ doubtful' = doubtful + 1
    /\ UNCHANGED <<exited, plugin, made, stages, ch, main, Points, tick, stopper, dropped>>

Commit == CommitOK \/ CommitFails

PluginStep(p) == Load(p) \/ Read(p) \/ Handover(p) \/ GatherSend(p)

Next ==
    \/ \E p \in Plugin : \/ PluginStep(p) \/ LoadFails(p) \/ StartFails(p)
                         \/ RingbufOutput(p)
    \/ MainReceive \/ Write \/ Signal \/ MainStop
    \/ Tick \/ CommitBegin \/ Commit

\* Goroutines are scheduled.  The mutex is contended by main and the committer
\* only, and Go's mutex serves a waiter that has waited too long, so both are
\* strongly fair; so are the two cases of main's select, which picks at random
\* among the ready ones, and the senders on a full channel, which are queued.
Fairness ==
    /\ \A p \in Plugin : /\ WF_vars(Load(p)) /\ WF_vars(Read(p)) /\ WF_vars(Handover(p))
                         /\ SF_vars(GatherSend(p))
    /\ SF_vars(MainReceive) /\ SF_vars(MainStop) /\ SF_vars(Write)
    /\ WF_vars(Tick) /\ SF_vars(CommitBegin) /\ WF_vars(Commit)

Spec == Init /\ [][Next]_vars /\ Fairness
-----------------------------------------------------------------------------
(* Properties. *)

\* Every variable holds a value of its type.
TypeOK ==
    /\ plugin \in [Plugin -> {"loading", "running", "deaf", "failed"}]
    /\ made \in [Plugin -> Nat] /\ \A p \in Plugin : made[p] <= MaxEvent[p]
    /\ ring \in [Plugin -> Seq(Metric)]
    /\ \A p \in Plugin : Len(ring[p]) <= RING_CAP
    /\ reader \in [Plugin -> Metric \union {None}]
    /\ gather \in [Plugin -> Metric \union {None}]
    /\ ch \in Seq(Metric) /\ Len(ch) <= CHAN_CAP
    /\ main \in Metric \union {None} /\ exited \in BOOLEAN
    /\ mu \in {None, "commit"}
    /\ Points \in Seq(Metric)
    /\ tick \in BOOLEAN /\ stopper \in BOOLEAN
    /\ db \in Seq(Metric)
    /\ dropped \subseteq Metric
    /\ fails \in 0 .. MaxFail /\ doubtful \in 0 .. fails

\* The line an event of plugin p moves along, from the database to the kernel,
\* with the events of the other plugins on the stages they share.
Line(p) == db \o Points \o <<main>> \o ch \o <<gather[p], reader[p]>> \o ring[p]

\* The events of plugin p are in their order in s.
Ordered(p, s) ==
    \A i, j \in DOMAIN s : i < j /\ s[i] \in EventOf(p) /\ s[j] \in EventOf(p) => s[i].n < s[j].n

\* Nothing is lost inside the agent, however the stages interleave and commits
\* fail: an event that happened is on the line or was dropped by the ring
\* buffer or the decoder, and never both.
NothingLost ==
    \A p \in Plugin : \A n \in 1 .. made[p] :
        LET m == [src |-> p, n |-> n] IN
        (m \in dropped) # (m \in Range(Line(p)))

\* The stages keep the order of a plugin's events; only a commit whose error
\* was wrong puts a metric on the line twice.
InOrder == doubtful = 0 => \A p \in Plugin : Ordered(p, Line(p))

\* A retried batch is stored again only for the commits whose error was wrong.
BoundedDuplicates ==
    \A m \in Metric : Cardinality({i \in DOMAIN db : db[i] = m}) <= doubtful + 1

\* An event the ring buffer took reaches the database, unless the decoder
\* rejects it or the process ends.
EventuallyStored ==
    \A m \in Metric :
        (plugin[m.src] = "running" /\ m \in Range(ring[m.src])) ~>
            \/ m \in Range(db)
            \/ m \in dropped
            \/ exited

\* A stop signal ends the process, also while metrics keep coming and commits
\* hold the mutex.
SignalStops == stopper ~> exited
=============================================================================
