----------------------------- MODULE RedMetric -----------------------------
(***************************************************************************)
(* The R.E.D. statistics of the http plugin: the select loop of Gather     *)
(* (plugins/http/http.go), which adds every Traffic to the RED entry of    *)
(* its pod name, passes it on to main, and once a minute computes, sends   *)
(* and deletes every entry.                                                *)
(*                                                                         *)
(* Both sends block until main has room, so other traffic and further      *)
(* ticks wait meanwhile.  A status code is abstracted to whether it is     *)
(* above 499.  A duration is the uint32 of nanoseconds the kernel sent.    *)
(***************************************************************************)
EXTENDS Integers

CONSTANTS
    Pod,         \* pods: [name, ns, svc]
    None,        \* no entry, no traffic
    Durations,   \* response times in nanoseconds, of 32 bits
    MaxReq       \* bound: requests of a pod name

Name == {p.name : p \in Pod}
NameSpace == {p.ns : p \in Pod}
Traffic == [pod : Pod, isErr : 0 .. 1, duration : Durations]

\* An entry of the map.
RED == [PodName : Name, NameSpace : NameSpace, ServiceName : NameSpace,
        RequestCount : 1 .. MaxReq, ErrCount : 0 .. MaxReq, DurationCount : Nat]

ASSUME ConstantsAssumption ==
    /\ \A d \in Durations : d \in Nat /\ d \div 65536 < 65536
    /\ MaxReq \in Nat
    /\ None \notin RED
    /\ \A p \in Pod : DOMAIN p = {"name", "ns", "svc"}

VARIABLES
    redMetric,   \* map: pod name -> RED entry, None when there is none
    gather,      \* where Gather is: select, send (a Traffic), range
    todo,        \* keys the range over redMetric has not come to
    tick,        \* the ticker's channel holds a tick
    got,         \* history, per pod name: what was received
    sent         \* history, per pod name: what the RED metrics sent add up to

vars == <<redMetric, gather, todo, tick, got, sent>>

Keys == {k \in Name : redMetric[k] # None}

PerMs == 1000000
PowersOf2 == {1, 2, 4, 8, 16, 32, 64, 128, 256, 512, 1024, 2048, 4096}

\* The largest power of two that is not above n, or 1.
LeadingBit(n) == CHOOSE p \in PowersOf2 : n < 2 * p /\ (p <= n \/ p = 1)

\* The multiple of u that is nearest to n, the even one of two.
Rounded(n, u) ==
    LET low == n \div u
        rest == n % u
    IN  u * (IF 2 * rest > u \/ (2 * rest = u /\ low % 2 = 1) THEN low + 1 ELSE low)

\* float32(packet.Duration): of an integer 24 bits are kept.
float32(n) == Rounded(n, LeadingBit(n \div 8388608))

\* int(m.Duration), where m.Duration = float32(packet.Duration) / (1000 * 1000).
\* The quotient has 24 bits too: it becomes the next whole millisecond if it is
\* not farther from it than half their spacing; then the fraction is cut off.
Ms(m) ==
    LET ns == float32(m.duration)
        whole == ns \div PerMs
    IN  IF (whole + 1) * PerMs - ns <= PerMs \div (16777216 \div LeadingBit(whole))
        THEN whole + 1 ELSE whole

Init ==
    /\ redMetric = [k \in Name |-> None]
    /\ gather = "select"
    /\ todo = {}
    /\ tick = FALSE
    /\ got = [k \in Name |-> [requests |-> 0, errors |-> 0, duration |-> 0]]
    /\ sent = [k \in Name |-> [RequestCount |-> 0, ErrCount |-> 0, DurationCount |-> 0]]

\* The entry of the first traffic of a pod name.
NewRED(m) ==
    [PodName |-> m.pod.name, NameSpace |-> m.pod.ns, ServiceName |-> m.pod.ns,
     RequestCount |-> 1, ErrCount |-> m.isErr, DurationCount |-> Ms(m)]

\* Mutant: the duration is set, not added.
Counted_last(v, m) ==
    [v EXCEPT !.RequestCount = @ + 1, !.ErrCount = @ + m.isErr, !.DurationCount = Ms(m)]

\* Further traffic is added to the counters.
Counted(v, m) ==
    [v EXCEPT !.RequestCount = @ + 1, !.ErrCount = @ + m.isErr, !.DurationCount = @ + Ms(m)]

\* case m := <-ch: the entry is created or counted up; m is about to be sent.
Receive(m) ==
    LET k == m.pod.name IN
    /\ gather = "select"
    /\ got[k].requests < MaxReq
    /\ redMetric' = [redMetric EXCEPT ![k] = IF @ = None THEN NewRED(m) ELSE Counted(@, m)]
    /\ gather' = "send"
    /\ got' = [got EXCEPT ![k] = [requests |-> @.requests + 1, errors |-> @.errors + m.isErr,
                                  duration |-> @.duration + m.duration]]
    /\ UNCHANGED <<todo, tick, sent>>

\* c <- m.CovertMetric()
SendTraffic ==
    /\ gather = "send"
    /\ gather' = "select"
    /\ UNCHANGED <<redMetric, todo, tick, got, sent>>

\* Mutant: a timer, which fires no more once it has been served.
Tick_timer ==
    /\ ~ tick /\ \A k \in Name : sent[k].RequestCount = 0
    /\ tick' = TRUE
    /\ UNCHANGED <<redMetric, gather, todo, got, sent>>

\* The ticker of 60 seconds fires; its channel holds one tick.
Tick ==
    /\ ~ tick
    /\ tick' = TRUE
    /\ UNCHANGED <<redMetric, gather, todo, got, sent>>

\* case <-calTicker.C: the range over the map begins.
TakeTick ==
    /\ gather = "select" /\ tick
    /\ tick' = FALSE
    /\ gather' = "range"
    /\ todo' = Keys
    /\ UNCHANGED <<redMetric, got, sent>>

\* The totals of the metrics sent, with v sent too.
Added(v) ==
    [sent EXCEPT ![v.PodName] =
        [RequestCount |-> @.RequestCount + v.RequestCount, ErrCount |-> @.ErrCount + v.ErrCount,
         DurationCount |-> @.DurationCount + v.DurationCount]]

\* Mutant: the counters are set back, the entry stays.
Report_reset(k) ==
    /\ gather = "range" /\ k \in todo
    /\ sent' = Added(redMetric[k])
    /\ redMetric' = [redMetric EXCEPT ![k].RequestCount = 0, ![k].ErrCount = 0,
                                      ![k].DurationCount = 0]
    /\ todo' = todo \ {k}
    /\ UNCHANGED <<gather, tick, got>>

\* Mutant: the entry is not deleted.
Report_kept(k) ==
    /\ gather = "range" /\ k \in todo
    /\ sent' = Added(redMetric[k])
    /\ todo' = todo \ {k}
    /\ UNCHANGED <<redMetric, gather, tick, got>>

\* One turn of the range, in any order: the rates are computed from the
\* counters, the metric is sent and the entry deleted.
Report(k) ==
    /\ gather = "range" /\ k \in todo
    /\ sent' = Added(redMetric[k])
    /\ redMetric' = [redMetric EXCEPT ![k] = None]
    /\ todo' = todo \ {k}
    /\ UNCHANGED <<gather, tick, got>>

RangeEnd ==
    /\ gather = "range" /\ todo = {}
    /\ gather' = "select"
    /\ UNCHANGED <<redMetric, todo, tick, got, sent>>

RangeStep == (\E k \in Name : Report(k)) \/ RangeEnd

Next ==
    \/ \E m \in Traffic : Receive(m)
    \/ SendTraffic \/ Tick \/ TakeTick \/ RangeStep

\* main goes on receiving (SignalStops aside, MetricPipeline), so both sends
\* end; the select picks at random among the ready cases, so a tick is not
\* passed over for ever.
Fairness ==
    WF_vars(SendTraffic) /\ WF_vars(Tick) /\ SF_vars(TakeTick) /\ WF_vars(RangeStep)

Spec == Init /\ [][Next]_vars /\ Fairness
-----------------------------------------------------------------------------
(* Properties. *)

\* Every variable holds a value of its type.  An entry counts at least one
\* request, so no rate divides by zero.
TypeOK ==
    /\ redMetric \in [Name -> RED \union {None}]
    /\ gather \in {"select", "send", "range"}
    /\ todo \subseteq Keys
    /\ tick \in BOOLEAN
    /\ got \in [Name -> [requests : 0 .. MaxReq, errors : 0 .. MaxReq, duration : Nat]]
    /\ sent \in [Name -> [RequestCount : 0 .. MaxReq, ErrCount : 0 .. MaxReq, DurationCount : Nat]]

\* What the counters hold for a pod name, in the map and in all metrics sent.
Total(k) ==
    IF redMetric[k] = None THEN sent[k]
    ELSE [RequestCount |-> sent[k].RequestCount + redMetric[k].RequestCount,
          ErrCount |-> sent[k].ErrCount + redMetric[k].ErrCount,
          DurationCount |-> sent[k].DurationCount + redMetric[k].DurationCount]

\* Every request and every error is counted in exactly one minute, wherever a
\* tick falls between two requests and however long a send blocks.
CountsConserved ==
    \A k \in Name :
        /\ Total(k).RequestCount = got[k].requests
        /\ Total(k).ErrCount = got[k].errors

\* What the two roundings to 24 bits change, in nanoseconds: at most half of the
\* spacing of 256 and half of that of 488, at durations of four seconds.
MaxRounding == 372

\* The response times are neither lost nor counted twice: what the metrics hold
\* is too small by no more than the part of a millisecond cut off for each
\* request, and too large or smaller still only by what the float32 rounds.
DurationWithinMs ==
    \A k \in Name :
        LET counted == PerMs * Total(k).DurationCount
        IN  /\ counted <= got[k].duration + MaxRounding * got[k].requests
            /\ got[k].duration <= counted + (PerMs + MaxRounding) * got[k].requests

\* Every entry is reported, also when traffic keeps coming.
ReportedEventually ==
    \A k \in Name : redMetric[k] # None ~> redMetric[k] = None
=============================================================================
