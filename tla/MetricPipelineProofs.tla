------------------------ MODULE MetricPipelineProofs ------------------------
(***************************************************************************)
(* Proofs that the agent loses, reorders and repeats nothing on the way    *)
(* from the ring buffers to the database, for any plugins, any capacities  *)
(* and any number of events and failures.                                  *)
(***************************************************************************)
EXTENDS MetricPipeline, FiniteSetTheorems, SequenceTheorems, TLAPS

-----------------------------------------------------------------------------
(* Events. *)

\* The events of a plugin are numbered metrics, and no plugin has another's.
LEMMA EventType ==
    ASSUME NEW p \in Plugin
    PROVE  /\ EventOf(p) \subseteq Metric /\ None \notin EventOf(p)
           /\ \A m \in EventOf(p) : m.n \in Nat /\ m.n > 0 /\ m.n <= MaxEvent[p] /\ m.src = p
           /\ \A n \in 1 .. MaxEvent[p] : [src |-> p, n |-> n] \in EventOf(p)
<1>1. MaxEvent[p] \in Nat
  BY ConstantsAssumption
<1>2. EventOf(p) \subseteq Metric
  BY DEF Metric
<1> QED
  BY <1>1, <1>2, NoneAssumption DEF EventOf

LEMMA EventUnique ==
    ASSUME NEW p \in Plugin, NEW a \in EventOf(p), NEW b \in EventOf(p), a.n = b.n
    PROVE  a = b
  BY DEF EventOf

LEMMA EventDisjoint ==
    ASSUME NEW p \in Plugin, NEW q \in Plugin, NEW m \in EventOf(p), m \in EventOf(q)
    PROVE  p = q
  BY EventType

LEMMA MetricEvent ==
    ASSUME NEW m \in Metric
    PROVE  \E p \in Plugin : m \in EventOf(p)
  BY DEF Metric

-----------------------------------------------------------------------------
(* Order in a sequence. *)

\* The events of plugin p in S come before those in T.
Below(p, S, T) ==
    \A a \in S, b \in T : a \in EventOf(p) /\ b \in EventOf(p) => a.n < b.n

LEMMA RangeType ==
    ASSUME NEW S, NEW s \in Seq(S)
    PROVE  Range(s) \subseteq S /\ Range(<< >>) = {}
  BY DEF Range

\* A sequence that grows at its end, ...
LEMMA AppendOrder ==
    ASSUME NEW S, NEW s \in Seq(S), NEW x \in S, NEW p \in Plugin
    PROVE  /\ Range(Append(s, x)) = Range(s) \union {x}
           /\ Ordered(p, s) /\ Below(p, Range(s), {x}) => Ordered(p, Append(s, x))
<1> DEFINE t == Append(s, x)
           n == Len(s)
<1>1. /\ n \in Nat /\ DOMAIN s = 1 .. n /\ DOMAIN t = 1 .. n + 1
      /\ t[n + 1] = x /\ \A i \in 1 .. n : t[i] = s[i]
  OBVIOUS
<1> HIDE DEF t, n
<1>2. Range(t) = Range(s) \union {x}
  BY <1>1 DEF Range
<1>3. ASSUME Ordered(p, s), Below(p, Range(s), {x}),
             NEW i \in DOMAIN t, NEW j \in DOMAIN t, i < j,
             t[i] \in EventOf(p), t[j] \in EventOf(p)
      PROVE  t[i].n < t[j].n
  <2>1. i \in 1 .. n /\ t[i] = s[i] /\ s[i] \in Range(s)
    BY <1>1, <1>3 DEF Range
  <2>2. CASE j = n + 1
    BY <1>1, <1>3, <2>1, <2>2 DEF Below
  <2>3. CASE j \in 1 .. n
    BY <1>1, <1>3, <2>1, <2>3 DEF Ordered
  <2> QED
    BY <1>1, <1>3, <2>2, <2>3
<1>4. Ordered(p, s) /\ Below(p, Range(s), {x}) => Ordered(p, t)
  BY <1>3 DEF Ordered
<1> QED
  BY <1>2, <1>4 DEF t

\* ... one that shrinks at its head, ...
LEMMA TailOrder ==
    ASSUME NEW S, NEW s \in Seq(S), s # << >>, NEW p \in Plugin
    PROVE  /\ Head(s) \in S /\ Tail(s) \in Seq(S) /\ Len(Tail(s)) = Len(s) - 1
           /\ Range(s) = {Head(s)} \union Range(Tail(s))
           /\ Ordered(p, s) =>
                Ordered(p, Tail(s)) /\ Below(p, {Head(s)}, Range(Tail(s)))
<1> DEFINE t == Tail(s)
           n == Len(s)
           h == Head(s)
<1>1. /\ n \in Nat /\ n > 0 /\ DOMAIN s = 1 .. n /\ DOMAIN t = 1 .. n - 1
      /\ h = s[1] /\ \A i \in 1 .. n - 1 : t[i] = s[i + 1]
      /\ h \in S /\ t \in Seq(S) /\ Len(t) = n - 1
  OBVIOUS
<1> HIDE DEF t, n, h
<1>2. Range(s) = {h} \union Range(t)
  <2>1. ASSUME NEW i \in 1 .. n PROVE s[i] \in {h} \union Range(t)
    <3>1. CASE i = 1
      BY <1>1, <3>1
    <3>2. CASE i # 1
      <4>1. i - 1 \in DOMAIN t /\ s[i] = t[i - 1]
        BY <1>1, <3>2
      <4> QED
        BY <4>1 DEF Range
    <3> QED
      BY <3>1, <3>2
  <2>2. ASSUME NEW i \in 1 .. n - 1 PROVE t[i] \in Range(s)
    BY <1>1 DEF Range
  <2>3. h \in Range(s)
    BY <1>1 DEF Range
  <2> QED
    BY <1>1, <2>1, <2>2, <2>3 DEF Range
<1>3. ASSUME Ordered(p, s)
      PROVE  Ordered(p, t) /\ Below(p, {h}, Range(t))
  <2>1. Ordered(p, t)
    <3> SUFFICES ASSUME NEW i \in DOMAIN t, NEW j \in DOMAIN t, i < j,
                        t[i] \in EventOf(p), t[j] \in EventOf(p)
                 PROVE  t[i].n < t[j].n
      BY DEF Ordered
    <3>1. /\ i + 1 \in DOMAIN s /\ j + 1 \in DOMAIN s /\ i + 1 < j + 1
          /\ t[i] = s[i + 1] /\ t[j] = s[j + 1]
      BY <1>1
    <3> QED
      BY <1>3, <3>1 DEF Ordered
  <2>2. Below(p, {h}, Range(t))
    <3> SUFFICES ASSUME NEW i \in DOMAIN t, h \in EventOf(p), t[i] \in EventOf(p)
                 PROVE  h.n < t[i].n
      BY DEF Below, Range
    <3>1. i + 1 \in DOMAIN s /\ 1 \in DOMAIN s /\ 1 < i + 1 /\ t[i] = s[i + 1] /\ h = s[1]
      BY <1>1
    <3> QED
      BY <1>3, <3>1 DEF Ordered
  <2> QED
    BY <2>1, <2>2
<1> QED
  BY <1>1, <1>2, <1>3 DEF t, n, h

\* ... and two that are joined.
LEMMA ConcatOrder ==
    ASSUME NEW S, NEW s \in Seq(S), NEW t \in Seq(S), NEW p \in Plugin
    PROVE  /\ s \o t \in Seq(S) /\ Range(s \o t) = Range(s) \union Range(t)
           /\ Ordered(p, s) /\ Ordered(p, t) /\ Below(p, Range(s), Range(t))
                => Ordered(p, s \o t)
<1> DEFINE u == s \o t
           n == Len(s)
           m == Len(t)
<1>1. /\ n \in Nat /\ m \in Nat /\ DOMAIN s = 1 .. n /\ DOMAIN t = 1 .. m
      /\ DOMAIN u = 1 .. n + m /\ u \in Seq(S)
      /\ \A i \in 1 .. n : u[i] = s[i]
      /\ \A i \in n + 1 .. n + m : u[i] = t[i - n]
  BY ConcatProperties
<1> HIDE DEF u, n, m
<1>2. \A i \in 1 .. m : i + n \in n + 1 .. n + m /\ u[i + n] = t[i]
  BY <1>1
<1>3. \A i \in DOMAIN u : \/ i \in 1 .. n /\ u[i] = s[i] /\ s[i] \in Range(s)
                          \/ i \in n + 1 .. n + m /\ i - n \in 1 .. m /\ u[i] = t[i - n]
                             /\ t[i - n] \in Range(t)
  BY <1>1 DEF Range
<1>4. Range(u) = Range(s) \union Range(t)
  <2>1. \A i \in 1 .. n : i \in DOMAIN u /\ s[i] = u[i]
    BY <1>1
  <2>2. \A i \in 1 .. m : i + n \in DOMAIN u /\ t[i] = u[i + n]
    BY <1>1, <1>2
  <2>3. Range(u) \subseteq Range(s) \union Range(t)
    <3>1. \A i \in DOMAIN u : u[i] \in Range(s) \union Range(t)
      BY <1>3
    <3> QED
      BY <3>1 DEF Range
  <2>4. Range(s) \subseteq Range(u) /\ Range(t) \subseteq Range(u)
    <3>1. \A i \in DOMAIN s : s[i] \in Range(u)
      BY <1>1, <2>1 DEF Range
    <3>2. \A i \in DOMAIN t : t[i] \in Range(u)
      BY <1>1, <2>2 DEF Range
    <3> QED
      BY <3>1, <3>2 DEF Range
  <2> QED
    BY <2>3, <2>4
<1>5. ASSUME Ordered(p, s), Ordered(p, t), Below(p, Range(s), Range(t)),
             NEW i \in DOMAIN u, NEW j \in DOMAIN u, i < j,
             u[i] \in EventOf(p), u[j] \in EventOf(p)
      PROVE  u[i].n < u[j].n
  <2>1. CASE i \in 1 .. n /\ j \in 1 .. n
    BY <1>1, <1>5, <2>1 DEF Ordered
  <2>2. CASE i \in 1 .. n /\ j \in n + 1 .. n + m
    <3>1. u[i] \in Range(s)
      BY <1>1, <2>2 DEF Range
    <3>2. j - n \in DOMAIN t /\ u[j] = t[j - n]
      BY <1>1, <2>2
    <3>3. u[j] \in Range(t)
      BY <3>2 DEF Range
    <3> QED
      BY <1>5, <3>1, <3>3 DEF Below
  <2>3. CASE i \in n + 1 .. n + m /\ j \in n + 1 .. n + m
    <3>1. i - n \in DOMAIN t /\ j - n \in DOMAIN t /\ i - n < j - n
          /\ u[i] = t[i - n] /\ u[j] = t[j - n]
      BY <1>1, <1>5, <2>3
    <3> QED
      BY <1>5, <3>1 DEF Ordered
  <2> QED
    BY <1>1, <1>5, <2>1, <2>2, <2>3
<1> QED
  BY <1>1, <1>4, <1>5 DEF u, Ordered

-----------------------------------------------------------------------------
(* Types. *)

\* A stage holds events of its own plugin.
OwnStages ==
    \A p \in Plugin : /\ ring[p] \in Seq(EventOf(p))
                      /\ reader[p] \in EventOf(p) \union {None}
                      /\ gather[p] \in EventOf(p) \union {None}

\* The event that is next.
LEMMA NextEvent ==
    ASSUME TypeOK, NEW p \in Plugin, RingbufOutput(p)
    PROVE  /\ made[p] \in Nat /\ made[p] + 1 <= MaxEvent[p] /\ made'[p] = made[p] + 1
           /\ \A q \in Plugin \ {p} : made'[q] = made[q]
           /\ made' \in [Plugin -> Nat] /\ \A q \in Plugin : made'[q] <= MaxEvent[q]
           /\ [src |-> p, n |-> made[p] + 1] \in EventOf(p)
<1>1. made \in [Plugin -> Nat] /\ \A q \in Plugin : made[q] <= MaxEvent[q]
  BY DEF TypeOK
<1>2. made[p] < MaxEvent[p] /\ made' = [made EXCEPT ![p] = @ + 1]
  BY DEF RingbufOutput
<1>3. MaxEvent[p] \in Nat
  BY ConstantsAssumption
<1>4. /\ made[p] \in Nat /\ made[p] + 1 <= MaxEvent[p] /\ made'[p] = made[p] + 1
      /\ \A q \in Plugin \ {p} : made'[q] = made[q]
      /\ made' \in [Plugin -> Nat]
  BY <1>1, <1>2, <1>3
<1>5. made[p] + 1 \in 1 .. MaxEvent[p]
  BY <1>3, <1>4
<1> QED
  BY <1>1, <1>4, <1>5, EventType

LEMMA InitType == Init => TypeOK /\ OwnStages
<1> SUFFICES ASSUME Init PROVE TypeOK /\ OwnStages
  OBVIOUS
<1>1. TypeOK
  <2>1. \A p \in Plugin : made[p] <= MaxEvent[p] /\ Len(ring[p]) <= RING_CAP
    BY ConstantsAssumption DEF Init
  <2>2. Len(ch) <= CHAN_CAP /\ fails \in 0 .. MaxFail /\ doubtful \in 0 .. fails
    BY ConstantsAssumption DEF Init
  <2>3. /\ plugin \in [Plugin -> {"loading", "running", "deaf", "failed"}]
        /\ made \in [Plugin -> Nat] /\ ring \in [Plugin -> Seq(Metric)]
        /\ reader \in [Plugin -> Metric \union {None}]
        /\ gather \in [Plugin -> Metric \union {None}]
    BY DEF Init
  <2>4. ch \in Seq(Metric) /\ Points \in Seq(Metric) /\ db \in Seq(Metric)
    BY DEF Init
  <2> QED
    BY <2>1, <2>2, <2>3, <2>4 DEF Init, TypeOK
<1>2. OwnStages
  BY DEF Init, OwnStages
<1> QED
  BY <1>1, <1>2

\* The steps of the plugins keep the types.
LEMMA PluginType ==
    ASSUME TypeOK, NEW p \in Plugin,
           PluginStep(p) \/ LoadFails(p) \/ StartFails(p) \/ RingbufOutput(p)
    PROVE  TypeOK'
<1> USE DEF TypeOK
<1>1. CASE Load(p)
  BY <1>1 DEF Load, stages
<1>2. CASE LoadFails(p) \/ StartFails(p)
  <2>1. fails' \in 0 .. MaxFail /\ doubtful' \in 0 .. fails'
    <3>1. doubtful \in 0 .. fails /\ fails \in Nat /\ fails < MaxFail
      BY <1>2, ConstantsAssumption DEF LoadFails, StartFails
    <3>2. fails' = fails + 1 /\ doubtful' = doubtful
      BY <1>2 DEF LoadFails, StartFails
    <3> QED
      BY <3>1, <3>2, ConstantsAssumption
  <2> QED
    BY <1>2, <2>1 DEF LoadFails, StartFails, stages
<1>3. CASE RingbufOutput(p)
  <2> DEFINE m == [src |-> p, n |-> made[p] + 1]
  <2>0. m \in Metric
    BY <1>3, NextEvent, EventType
  <2>1. made' \in [Plugin -> Nat] /\ \A q \in Plugin : made'[q] <= MaxEvent[q]
    BY <1>3, NextEvent
  <2>2. /\ ring' \in [Plugin -> Seq(Metric)] /\ \A q \in Plugin : Len(ring'[q]) <= RING_CAP
        /\ dropped' \subseteq Metric
    <3>1. CASE ring' = [ring EXCEPT ![p] = Append(@, m)] /\ UNCHANGED dropped
               /\ Len(ring[p]) < RING_CAP
      <4>1. Append(ring[p], m) \in Seq(Metric) /\ Len(Append(ring[p], m)) = Len(ring[p]) + 1
        BY <2>0
      <4> HIDE DEF m
      <4> QED
        BY <3>1, <4>1, ConstantsAssumption
    <3>2. CASE dropped' = dropped \union {m} /\ UNCHANGED ring
      BY <2>0, <3>2
    <3> QED
      BY <1>3, <3>1, <3>2 DEF RingbufOutput
  <2> QED
    BY <1>3, <2>1, <2>2 DEF RingbufOutput
<1>4. CASE Read(p)
  <2>1. Head(ring[p]) \in Metric /\ Tail(ring[p]) \in Seq(Metric)
        /\ Len(Tail(ring[p])) = Len(ring[p]) - 1
    BY <1>4, TailOrder DEF Read
  <2>2. ring' \in [Plugin -> Seq(Metric)] /\ \A q \in Plugin : Len(ring'[q]) <= RING_CAP
    BY <1>4, <2>1, ConstantsAssumption DEF Read
  <2>3. reader' \in [Plugin -> Metric \union {None}] /\ dropped' \subseteq Metric
    BY <1>4, <2>1 DEF Read
  <2> QED
    BY <1>4, <2>2, <2>3 DEF Read
<1>5. CASE Handover(p)
  BY <1>5 DEF Handover
<1>6. CASE GatherSend(p)
  <2>1. gather[p] \in Metric
    BY <1>6 DEF GatherSend
  <2>2. ch' \in Seq(Metric) /\ Len(ch') <= CHAN_CAP
    BY <1>6, <2>1, ConstantsAssumption DEF GatherSend
  <2> QED
    BY <1>6, <2>2 DEF GatherSend
<1> QED
  BY <1>1, <1>2, <1>3, <1>4, <1>5, <1>6 DEF PluginStep

\* So do main, the ticker and the committer.
LEMMA SharedType ==
    ASSUME TypeOK, \/ MainReceive \/ Write \/ Signal \/ MainStop
                   \/ Tick \/ CommitBegin \/ Commit \/ UNCHANGED vars
    PROVE  TypeOK'
<1> USE DEF TypeOK
<1>1. CASE MainReceive
  <2>1. Head(ch) \in Metric /\ Tail(ch) \in Seq(Metric) /\ Len(Tail(ch)) = Len(ch) - 1
    BY <1>1, HeadTailProperties DEF MainReceive
  <2>2. ch' \in Seq(Metric) /\ Len(ch') <= CHAN_CAP /\ main' \in Metric \union {None}
    BY <1>1, <2>1, ConstantsAssumption DEF MainReceive
  <2> QED
    BY <1>1, <2>2 DEF MainReceive, stages
<1>2. CASE Write
  <2>1. Points' \in Seq(Metric)
    BY <1>2 DEF Write
  <2> QED
    BY <1>2, <2>1 DEF Write, stages
<1>3. CASE Signal \/ MainStop \/ Tick \/ CommitBegin
  BY <1>3 DEF Signal, MainStop, Tick, CommitBegin, stages
<1>4. CASE CommitOK
  <2>1. db' \in Seq(Metric) /\ Points' \in Seq(Metric)
    BY <1>4 DEF CommitOK
  <2> QED
    BY <1>4, <2>1 DEF CommitOK, stages
<1>5. CASE CommitFails
  <2>1. db' \in Seq(Metric)
    <3>1. db \o Points \in Seq(Metric)
      BY ConcatProperties
    <3> QED
      BY <1>5, <3>1 DEF CommitFails
  <2>2. fails' \in 0 .. MaxFail /\ doubtful' \in 0 .. fails'
    BY <1>5, ConstantsAssumption DEF CommitFails
  <2> QED
    BY <1>5, <2>1, <2>2 DEF CommitFails, stages
<1>6. CASE UNCHANGED vars
  BY <1>6 DEF vars, stages
<1> QED
  BY <1>1, <1>2, <1>3, <1>4, <1>5, <1>6 DEF Commit

LEMMA TypeNext == TypeOK /\ [Next]_vars => TypeOK'
  BY PluginType, SharedType DEF Next

\* Every variable keeps its type (TypeOK); in particular no ring buffer and no
\* channel ever holds more than its capacity.
THEOREM TypeOKHolds == Spec => []TypeOK
<1>1. Init => TypeOK
  BY InitType
<1> QED
  BY <1>1, TypeNext, PTL DEF Spec

LEMMA OwnStagesNext ==
    ASSUME TypeOK, OwnStages, [Next]_vars
    PROVE  OwnStages'
<1> USE DEF OwnStages
<1>0. /\ ring \in [Plugin -> Seq(Metric)] /\ reader \in [Plugin -> Metric \union {None}]
      /\ gather \in [Plugin -> Metric \union {None}]
  BY DEF TypeOK
<1>1. CASE UNCHANGED stages
  BY <1>1 DEF stages
<1>2. ASSUME NEW p \in Plugin, RingbufOutput(p) PROVE OwnStages'
  <2> DEFINE m == [src |-> p, n |-> made[p] + 1]
  <2>1. m \in EventOf(p)
    BY <1>2, NextEvent
  <2>2. Append(ring[p], m) \in Seq(EventOf(p))
    BY <2>1
  <2> HIDE DEF m
  <2>3. ring' = [ring EXCEPT ![p] = Append(@, m)] \/ ring' = ring
    BY <1>2 DEF RingbufOutput, m
  <2>4. \A q \in Plugin : ring'[q] \in Seq(EventOf(q))
    BY <1>0, <2>2, <2>3
  <2> QED
    BY <1>2, <2>4 DEF RingbufOutput
<1>3. ASSUME NEW p \in Plugin, Read(p) PROVE OwnStages'
  <2>1. Head(ring[p]) \in EventOf(p) /\ Tail(ring[p]) \in Seq(EventOf(p))
    BY <1>3, TailOrder DEF Read
  <2> QED
    BY <1>0, <1>3, <2>1 DEF Read
<1>4. ASSUME NEW p \in Plugin, Handover(p) \/ GatherSend(p) PROVE OwnStages'
  BY <1>0, <1>4 DEF Handover, GatherSend
<1> QED
  BY <1>1, <1>2, <1>3, <1>4 DEF Next, PluginStep, Load, LoadFails, StartFails, MainReceive,
     Write, Signal, MainStop, Tick, CommitBegin, Commit, CommitOK, CommitFails, vars

-----------------------------------------------------------------------------
(* The inductive invariant: what is on the line, stage by stage. *)

\* What has not reached Gather, the channel, main and the batch yet.
BehindGather(p) == {reader[p]} \union Range(ring[p])
BehindChannel(p) == {gather[p]} \union BehindGather(p)
BehindMain(p) == Range(ch) \union BehindChannel(p)
BehindBatch(p) == {main} \union BehindMain(p)

OnLine(p) == Range(db) \union Range(Points) \union BehindBatch(p)

\* Every stage is in order and ahead of the stages behind it.  The batch is
\* behind the database only as long as no commit was wrong about its failure.
OrderOK(p) ==
    /\ Ordered(p, ring[p]) /\ Ordered(p, ch) /\ Ordered(p, Points)
    /\ Below(p, {reader[p]}, Range(ring[p]))
    /\ Below(p, {gather[p]}, BehindGather(p))
    /\ Below(p, Range(ch), BehindChannel(p))
    /\ Below(p, {main}, BehindMain(p))
    /\ Below(p, Range(Points), BehindBatch(p)) /\ Below(p, Range(db), BehindBatch(p))
    /\ doubtful = 0 => Ordered(p, db) /\ Below(p, Range(db), Range(Points))

\* The events that happened are on the line or dropped, and no others.
AccountOK(p) ==
    \A m \in EventOf(p) :
        /\ m.n <= made[p] => (m \in dropped) # (m \in OnLine(p))
        /\ m \in dropped \/ m \in OnLine(p) => m.n <= made[p]

LineInv == \A p \in Plugin : OrderOK(p) /\ AccountOK(p)

\* Only the events of a plugin count.
LEMMA BelowOnly ==
    ASSUME NEW p \in Plugin, NEW S, NEW T, NEW U, NEW V, Below(p, S, T),
           S \intersect EventOf(p) = U \intersect EventOf(p),
           T \intersect EventOf(p) = V \intersect EventOf(p)
    PROVE  Below(p, U, V)
  BY DEF Below

\* Events that only move along the line stay accounted for.
LEMMA MoveAccount ==
    ASSUME NEW p \in Plugin, AccountOK(p), made' = made, dropped' = dropped,
           OnLine(p)' \intersect EventOf(p) = OnLine(p) \intersect EventOf(p)
    PROVE  AccountOK(p)'
<1> SUFFICES ASSUME NEW m \in EventOf(p)
             PROVE  /\ m.n <= made[p] => (m \in dropped) # (m \in OnLine(p)')
                    /\ m \in dropped \/ m \in OnLine(p)' => m.n <= made[p]
  BY DEF AccountOK
<1>1. m \in OnLine(p)' <=> m \in OnLine(p)
  OBVIOUS
<1> QED
  BY <1>1 DEF AccountOK

\* A step that leaves the stages of a plugin alone.
LEMMA OtherLine ==
    ASSUME NEW q \in Plugin, OrderOK(q), AccountOK(q),
           UNCHANGED <<ch, main, Points, db, doubtful>>, ring'[q] = ring[q],
           reader'[q] = reader[q], gather'[q] = gather[q], made'[q] = made[q],
           \A m \in EventOf(q) : m \in dropped' <=> m \in dropped
    PROVE  OrderOK(q)' /\ AccountOK(q)'
<1>1. OrderOK(q)'
  BY DEF OrderOK, BehindGather, BehindChannel, BehindMain, BehindBatch
<1>2. OnLine(q)' = OnLine(q)
  BY DEF OnLine, BehindGather, BehindChannel, BehindMain, BehindBatch
<1> QED
  BY <1>1, <1>2 DEF AccountOK

-----------------------------------------------------------------------------
(* One lemma per step that changes the line. *)

LEMMA OutputLine ==
    ASSUME TypeOK, OwnStages, LineInv, NEW p \in Plugin, RingbufOutput(p), NEW q \in Plugin
    PROVE  OrderOK(q)' /\ AccountOK(q)'
<1> DEFINE m == [src |-> p, n |-> made[p] + 1]
<1>0. /\ m \in EventOf(p) /\ m.n = made[p] + 1 /\ made[p] \in Nat /\ made'[p] = made[p] + 1
      /\ \A r \in Plugin \ {p} : made'[r] = made[r]
  BY NextEvent
<1>1. /\ UNCHANGED <<reader, gather, ch, main, Points, db, doubtful>>
      /\ ring \in [Plugin -> Seq(Metric)] /\ ring[p] \in Seq(EventOf(p))
      /\ \/ ring' = [ring EXCEPT ![p] = Append(@, m)] /\ dropped' = dropped
         \/ ring' = ring /\ dropped' = dropped \union {m}
  BY DEF RingbufOutput, TypeOK, OwnStages
<1> HIDE DEF m
<1>2. OrderOK(q) /\ AccountOK(q)
  BY DEF LineInv
<1>3. m \notin EventOf(q) \/ q = p
  BY <1>0, EventDisjoint
<1>4. CASE q # p
  <2>1. ring'[q] = ring[q] /\ made'[q] = made[q]
    BY <1>0, <1>1, <1>4
  <2>2. \A x \in EventOf(q) : x \in dropped' <=> x \in dropped
    BY <1>1, <1>3, <1>4
  <2> QED
    BY <1>1, <1>2, <2>1, <2>2, OtherLine
<1>5. CASE q = p
  <2>1. \A x \in EventOf(p) : x \in OnLine(p) => x.n < m.n
    BY <1>0, <1>2, <1>5, EventType DEF AccountOK
  <2>2. m \notin OnLine(p) /\ m \notin dropped
    BY <1>0, <1>2, <1>5 DEF AccountOK
  <2>3. CASE ring' = ring /\ dropped' = dropped \union {m}
    <3>1. OrderOK(q)'
      BY <1>1, <1>2, <2>3 DEF OrderOK, BehindGather, BehindChannel, BehindMain, BehindBatch
    <3>2. OnLine(p)' = OnLine(p)
      BY <1>1, <2>3 DEF OnLine, BehindGather, BehindChannel, BehindMain, BehindBatch
    <3>3. ASSUME NEW x \in EventOf(p)
          PROVE  /\ x.n <= made'[p] => (x \in dropped') # (x \in OnLine(p))
                 /\ x \in dropped' \/ x \in OnLine(p) => x.n <= made'[p]
      <4>1. CASE x = m
        BY <1>0, <2>2, <2>3, <4>1
      <4>2. CASE x # m
        <5>1. x.n \in Nat /\ x.n # m.n
          BY <1>0, <4>2, EventType, EventUnique
        <5> QED
          BY <1>0, <1>2, <1>5, <2>3, <4>2, <5>1 DEF AccountOK
      <4> QED
        BY <4>1, <4>2
    <3> QED
      BY <1>5, <3>1, <3>2, <3>3 DEF AccountOK
  <2>4. CASE ring' = [ring EXCEPT ![p] = Append(@, m)] /\ dropped' = dropped
    <3>0. ring'[p] = Append(ring[p], m)
      BY <1>1, <2>4
    <3>1. /\ Range(ring'[p]) = Range(ring[p]) \union {m}
          /\ Below(p, Range(ring[p]), {m}) => Ordered(p, ring'[p])
      <4>1. /\ Range(Append(ring[p], m)) = Range(ring[p]) \union {m}
            /\ Ordered(p, ring[p]) /\ Below(p, Range(ring[p]), {m})
                 => Ordered(p, Append(ring[p], m))
        <5>1. PICK S : ring[p] \in Seq(S) /\ m \in S
          BY <1>0, <1>1
        <5> QED
          BY <5>1, AppendOrder
      <4> QED
        BY <1>2, <1>5, <3>0, <4>1 DEF OrderOK
    <3>2. \A S : S \subseteq OnLine(p) => Below(p, S, {m})
      BY <2>1 DEF Below
    <3>3. \A S, T : Below(p, S, T) /\ Below(p, S, {m}) => Below(p, S, T \union {m})
      BY DEF Below
    <3>4. /\ BehindGather(p)' = BehindGather(p) \union {m}
          /\ BehindChannel(p)' = BehindChannel(p) \union {m}
          /\ BehindMain(p)' = BehindMain(p) \union {m}
          /\ BehindBatch(p)' = BehindBatch(p) \union {m}
          /\ OnLine(p)' = OnLine(p) \union {m}
      BY <1>1, <3>1 DEF OnLine, BehindGather, BehindChannel, BehindMain, BehindBatch
    <3>5. /\ Below(p, Range(ring[p]), {m}) /\ Below(p, {reader[p]}, {m})
          /\ Below(p, {gather[p]}, {m}) /\ Below(p, Range(ch), {m}) /\ Below(p, {main}, {m})
          /\ Below(p, Range(Points), {m}) /\ Below(p, Range(db), {m})
      BY <3>2 DEF OnLine, BehindGather, BehindChannel, BehindMain, BehindBatch
    <3>6. OrderOK(p)'
      BY <1>1, <1>2, <1>5, <3>1, <3>3, <3>4, <3>5 DEF OrderOK
    <3>7. ASSUME NEW x \in EventOf(p)
          PROVE  /\ x.n <= made'[p] => (x \in dropped) # (x \in OnLine(p)')
                 /\ x \in dropped \/ x \in OnLine(p)' => x.n <= made'[p]
      <4>1. CASE x = m
        BY <1>0, <2>2, <3>4, <4>1
      <4>2. CASE x # m
        <5>1. x.n \in Nat /\ x.n # m.n
          BY <1>0, <4>2, EventType, EventUnique
        <5> QED
          BY <1>0, <1>2, <1>5, <3>4, <4>2, <5>1 DEF AccountOK
      <4> QED
        BY <4>1, <4>2
    <3> QED
      BY <1>5, <2>4, <3>6, <3>7 DEF AccountOK
  <2> QED
    BY <1>1, <2>3, <2>4
<1> QED
  BY <1>4, <1>5

LEMMA ReadLine ==
    ASSUME TypeOK, OwnStages, LineInv, NEW p \in Plugin, Read(p), NEW q \in Plugin
    PROVE  OrderOK(q)' /\ AccountOK(q)'
<1>0. OrderOK(q) /\ AccountOK(q)
  BY DEF LineInv
<1>1. /\ UNCHANGED <<made, gather, ch, main, Points, db, doubtful>>
      /\ ring \in [Plugin -> Seq(Metric)] /\ ring[p] \in Seq(EventOf(p)) /\ ring[p] # << >>
      /\ ring' = [ring EXCEPT ![p] = Tail(@)] /\ reader[p] = None
      /\ reader \in [Plugin -> Metric \union {None}]
      /\ \/ reader' = [reader EXCEPT ![p] = Head(ring[p])] /\ dropped' = dropped
         \/ reader' = reader /\ dropped' = dropped \union {Head(ring[p])}
  BY DEF Read, TypeOK, OwnStages
<1> DEFINE h == Head(ring[p])
           t == Tail(ring[p])
<1>2. /\ h \in EventOf(p) /\ Range(ring[p]) = {h} \union Range(t)
      /\ Ordered(p, ring[p]) => Ordered(p, t) /\ Below(p, {h}, Range(t))
  BY <1>1, TailOrder
<1>3. ring'[p] = t /\ \A r \in Plugin \ {p} : ring'[r] = ring[r] /\ reader'[r] = reader[r]
  BY <1>1
<1>4. CASE q # p
  <2>1. \A x \in EventOf(q) : x \in dropped' <=> x \in dropped
    BY <1>1, <1>2, <1>4, EventDisjoint
  <2> QED
    BY <1>0, <1>1, <1>3, <1>4, <2>1, OtherLine
<1>5. CASE q = p
  <2>1. Ordered(p, t) /\ Below(p, {h}, Range(t))
    BY <1>0, <1>2, <1>5 DEF OrderOK
  <2>2. None \notin EventOf(p)
    BY EventType
  <2>3. CASE reader' = [reader EXCEPT ![p] = h] /\ dropped' = dropped
    <3>1. reader'[p] = h
      BY <1>1, <2>3
    <3> HIDE DEF h, t
    <3>2. /\ BehindGather(p)' = Range(ring[p])
          /\ BehindGather(p) = {None} \union Range(ring[p])
      BY <1>1, <1>2, <1>3, <3>1 DEF BehindGather
    <3>3. /\ BehindChannel(p) = {None} \union BehindChannel(p)'
          /\ BehindMain(p) = {None} \union BehindMain(p)'
          /\ BehindBatch(p) = {None} \union BehindBatch(p)'
          /\ OnLine(p) = {None} \union OnLine(p)'
      BY <1>1, <3>2 DEF BehindChannel, BehindMain, BehindBatch, OnLine
    <3>4. \A S, T : Below(p, S, {None} \union T) => Below(p, S, T)
      BY DEF Below
    <3>5. OrderOK(p)'
      <4>1. OrderOK(p)
        BY <1>0, <1>5
      <4>2. Below(p, {gather[p]}, Range(ring[p]))
        BY <3>2, <3>4, <4>1 DEF OrderOK
      <4>3. /\ Below(p, Range(ch), BehindChannel(p)') /\ Below(p, {main}, BehindMain(p)')
            /\ Below(p, Range(Points), BehindBatch(p)') /\ Below(p, Range(db), BehindBatch(p)')
        BY <3>3, <3>4, <4>1 DEF OrderOK
      <4> QED
        BY <1>1, <1>3, <2>1, <3>1, <3>2, <4>1, <4>2, <4>3 DEF OrderOK
    <3>6. OnLine(p)' \intersect EventOf(p) = OnLine(p) \intersect EventOf(p)
      BY <2>2, <3>3
    <3> QED
      BY <1>0, <1>1, <1>5, <2>3, <3>5, <3>6, MoveAccount
  <2>4. CASE reader' = reader /\ dropped' = dropped \union {h}
    <3> HIDE DEF h, t
    <3>1. /\ BehindGather(p) = {h} \union BehindGather(p)'
          /\ BehindChannel(p) = {h} \union BehindChannel(p)'
          /\ BehindMain(p) = {h} \union BehindMain(p)'
          /\ BehindBatch(p) = {h} \union BehindBatch(p)'
          /\ OnLine(p) = {h} \union OnLine(p)'
      BY <1>1, <1>2, <1>3, <2>4 DEF BehindGather, BehindChannel, BehindMain, BehindBatch, OnLine
    <3>2. \A S, T : Below(p, S, {h} \union T) => Below(p, S, T)
      BY DEF Below
    <3>3. OrderOK(p)'
      <4>1. OrderOK(p)
        BY <1>0, <1>5
      <4>2. Below(p, {reader[p]}, Range(t)) /\ Below(p, {gather[p]}, BehindGather(p)')
        BY <1>2, <3>1, <3>2, <4>1 DEF OrderOK
      <4>3. /\ Below(p, Range(ch), BehindChannel(p)') /\ Below(p, {main}, BehindMain(p)')
            /\ Below(p, Range(Points), BehindBatch(p)') /\ Below(p, Range(db), BehindBatch(p)')
        BY <3>1, <3>2, <4>1 DEF OrderOK
      <4> QED
        BY <1>1, <1>3, <2>1, <2>4, <4>1, <4>2, <4>3 DEF OrderOK
    <3>4. h \notin OnLine(p)'
      <4>1. \A S, T : Below(p, S, T) /\ h \in T => h \notin S
        BY <1>2, EventType DEF Below
      <4>2. \A S, T : Below(p, S, T) /\ h \in S => h \notin T
        BY <1>2, EventType DEF Below
      <4>3. h \in BehindGather(p) /\ h \in BehindChannel(p) /\ h \in BehindMain(p)
            /\ h \in BehindBatch(p)
        BY <3>1
      <4>4. h \notin Range(db) /\ h \notin Range(Points) /\ h # main /\ h \notin Range(ch)
            /\ h # gather[p]
        BY <1>0, <1>5, <4>1, <4>3 DEF OrderOK, BehindChannel, BehindMain
      <4>5. h \notin Range(t) /\ h # None
        BY <1>2, <2>1, <2>2, <4>2
      <4> QED
        BY <1>1, <1>3, <2>4, <4>4, <4>5 DEF OnLine, BehindGather, BehindChannel, BehindMain,
           BehindBatch
    <3>5. ASSUME NEW x \in EventOf(p)
          PROVE  /\ x.n <= made[p] => (x \in dropped') # (x \in OnLine(p)')
                 /\ x \in dropped' \/ x \in OnLine(p)' => x.n <= made[p]
      BY <1>0, <1>5, <2>4, <3>1, <3>4 DEF AccountOK
    <3> QED
      BY <1>1, <1>5, <3>3, <3>5 DEF AccountOK
  <2> QED
    BY <1>1, <2>3, <2>4
<1> QED
  BY <1>4, <1>5

LEMMA HandoverLine ==
    ASSUME TypeOK, OwnStages, LineInv, NEW p \in Plugin, Handover(p), NEW q \in Plugin
    PROVE  OrderOK(q)' /\ AccountOK(q)'
<1>0. OrderOK(q) /\ AccountOK(q)
  BY DEF LineInv
<1>1. /\ UNCHANGED <<made, ring, dropped, ch, main, Points, db, doubtful>>
      /\ gather[p] = None /\ gather'[p] = reader[p] /\ reader'[p] = None
      /\ \A r \in Plugin \ {p} : gather'[r] = gather[r] /\ reader'[r] = reader[r]
  BY DEF Handover, TypeOK
<1>2. CASE q # p
  BY <1>0, <1>1, <1>2, OtherLine
<1>3. CASE q = p
  <2>1. None \notin EventOf(p)
    BY EventType
  <2>2. BehindGather(p)' = {None} \union Range(ring[p])
    BY <1>1 DEF BehindGather
  <2>3. BehindChannel(p)' = BehindChannel(p) \union {None}
    BY <1>1 DEF BehindGather, BehindChannel
  <2>4. /\ BehindMain(p)' = BehindMain(p) \union {None}
        /\ BehindBatch(p)' = BehindBatch(p) \union {None}
        /\ OnLine(p)' = OnLine(p) \union {None}
    BY <1>1, <2>3 DEF BehindMain, BehindBatch, OnLine
  <2>5. /\ \A S, T : Below(p, S, T) => Below(p, S, T \union {None})
        /\ \A S, T : Below(p, S, T) => Below(p, S, {None} \union T)
        /\ \A T : Below(p, {None}, T)
    BY <2>1 DEF Below
  <2>6. OrderOK(p)'
    <3>1. OrderOK(p)
      BY <1>0, <1>3
    <3>2. Below(p, {None}, Range(ring[p])) /\ Below(p, {reader[p]}, BehindGather(p)')
      BY <2>2, <2>5, <3>1 DEF OrderOK
    <3>3. /\ Below(p, Range(ch), BehindChannel(p)') /\ Below(p, {main}, BehindMain(p)')
          /\ Below(p, Range(Points), BehindBatch(p)') /\ Below(p, Range(db), BehindBatch(p)')
      BY <2>3, <2>4, <2>5, <3>1 DEF OrderOK
    <3> QED
      BY <1>1, <3>1, <3>2, <3>3 DEF OrderOK
  <2>7. OnLine(p)' \intersect EventOf(p) = OnLine(p) \intersect EventOf(p)
    BY <2>1, <2>4
  <2> QED
    BY <1>0, <1>1, <1>3, <2>6, <2>7, MoveAccount
<1> QED
  BY <1>2, <1>3

LEMMA SendLine ==
    ASSUME TypeOK, OwnStages, LineInv, NEW p \in Plugin, GatherSend(p), NEW q \in Plugin
    PROVE  OrderOK(q)' /\ AccountOK(q)'
<1>0. OrderOK(q) /\ AccountOK(q)
  BY DEF LineInv
<1>1. /\ UNCHANGED <<made, ring, reader, dropped, main, Points, db, doubtful>>
      /\ gather[p] \in EventOf(p) /\ gather'[p] = None /\ ch' = Append(ch, gather[p])
      /\ \A r \in Plugin \ {p} : gather'[r] = gather[r]
      /\ ch \in Seq(Metric)
  BY DEF GatherSend, TypeOK, OwnStages
<1> DEFINE g == gather[p]
<1>2. /\ Range(ch') = Range(ch) \union {g}
      /\ Ordered(q, ch) /\ Below(q, Range(ch), {g}) => Ordered(q, ch')
  <2>1. PICK S : ch \in Seq(S) /\ g \in S
    BY <1>1, EventType
  <2>2. /\ Range(Append(ch, g)) = Range(ch) \union {g}
        /\ Ordered(q, ch) /\ Below(q, Range(ch), {g}) => Ordered(q, Append(ch, g))
    BY <2>1, AppendOrder
  <2> QED
    BY <1>1, <2>2
<1>3. None \notin EventOf(q)
  BY EventType
<1>4. Below(q, Range(ch), {g}) /\ Below(q, {g}, BehindGather(q))
  <2>1. CASE q = p
    BY <1>0, <2>1 DEF OrderOK, BehindChannel, Below
  <2>2. CASE q # p
    <3>1. g \notin EventOf(q)
      BY <1>1, <2>2, EventDisjoint
    <3> QED
      BY <3>1 DEF Below
  <2> QED
    BY <2>1, <2>2
<1>5. /\ BehindGather(q)' = BehindGather(q)
      /\ BehindChannel(q)' \intersect EventOf(q) \subseteq BehindChannel(q)
      /\ Below(q, {g}, BehindChannel(q)')
      /\ BehindMain(q)' \intersect EventOf(q) = BehindMain(q) \intersect EventOf(q)
      /\ BehindBatch(q)' \intersect EventOf(q) = BehindBatch(q) \intersect EventOf(q)
      /\ OnLine(q)' \intersect EventOf(q) = OnLine(q) \intersect EventOf(q)
  <2>0. BehindGather(q)' = BehindGather(q)
    BY <1>1 DEF BehindGather
  <2>1. CASE q = p
    <3>1. /\ BehindChannel(p)' = {None} \union BehindGather(p)
          /\ BehindChannel(p) = {g} \union BehindGather(p)
      BY <1>1, <2>0, <2>1 DEF BehindChannel
    <3>2. BehindMain(p)' = {None} \union BehindMain(p)
      BY <1>2, <3>1 DEF BehindMain
    <3>3. BehindBatch(p)' = {None} \union BehindBatch(p) /\ OnLine(p)' = {None} \union OnLine(p)
      BY <1>1, <3>2 DEF BehindBatch, OnLine
    <3>4. Below(p, {g}, BehindChannel(p)')
      BY <1>3, <1>4, <2>1, <3>1 DEF Below
    <3> QED
      BY <1>3, <2>0, <2>1, <3>1, <3>2, <3>3, <3>4
  <2>2. CASE q # p
    <3>0. g \notin EventOf(q)
      BY <1>1, <2>2, EventDisjoint
    <3>1. BehindChannel(q)' = BehindChannel(q)
      BY <1>1, <2>0, <2>2 DEF BehindChannel
    <3>2. BehindMain(q)' = {g} \union BehindMain(q)
      BY <1>2, <3>1 DEF BehindMain
    <3>3. BehindBatch(q)' = {g} \union BehindBatch(q) /\ OnLine(q)' = {g} \union OnLine(q)
      BY <1>1, <3>2 DEF BehindBatch, OnLine
    <3>4. Below(q, {g}, BehindChannel(q)')
      BY <3>0 DEF Below
    <3> QED
      BY <2>0, <3>0, <3>1, <3>2, <3>3, <3>4
  <2> QED
    BY <2>1, <2>2
<1>6. OrderOK(q)'
  <2> HIDE DEF g
  <2>1. Below(q, {gather'[q]}, BehindGather(q))
    BY <1>0, <1>1, <1>3 DEF OrderOK, Below
  <2>2. Below(q, Range(ch'), BehindChannel(q)')
    BY <1>0, <1>2, <1>5 DEF OrderOK, Below
  <2>3. Below(q, {main}, BehindMain(q)')
    BY <1>0, <1>5 DEF OrderOK, Below
  <2>4. Below(q, Range(Points), BehindBatch(q)') /\ Below(q, Range(db), BehindBatch(q)')
    BY <1>0, <1>5 DEF OrderOK, Below
  <2> QED
    BY <1>0, <1>1, <1>2, <1>4, <1>5, <2>1, <2>2, <2>3, <2>4 DEF OrderOK
<1> QED
  BY <1>0, <1>1, <1>5, <1>6, MoveAccount

LEMMA ReceiveLine ==
    ASSUME TypeOK, LineInv, MainReceive, NEW q \in Plugin
    PROVE  OrderOK(q)' /\ AccountOK(q)'
<1>0. OrderOK(q) /\ AccountOK(q) /\ None \notin EventOf(q)
  BY EventType DEF LineInv
<1> DEFINE h == Head(ch)
           t == Tail(ch)
<1>1. /\ UNCHANGED <<made, ring, reader, gather, dropped, Points, db, doubtful>>
      /\ main = None /\ main' = h /\ ch' = t /\ ch \in Seq(Metric) /\ ch # << >>
  BY DEF MainReceive, stages, TypeOK
<1>2. /\ Range(ch) = {h} \union Range(t)
      /\ Ordered(q, ch) => Ordered(q, t) /\ Below(q, {h}, Range(t))
  BY <1>1, TailOrder
<1> HIDE DEF h, t
<1>3. BehindGather(q)' = BehindGather(q) /\ BehindChannel(q)' = BehindChannel(q)
  BY <1>1 DEF BehindGather, BehindChannel
<1>4. /\ BehindMain(q)' = Range(t) \union BehindChannel(q)
      /\ BehindMain(q) = {h} \union BehindMain(q)'
  BY <1>1, <1>2, <1>3 DEF BehindMain
<1>5. BehindBatch(q) = {None} \union BehindBatch(q)' /\ OnLine(q) = {None} \union OnLine(q)'
  BY <1>1, <1>4 DEF BehindBatch, OnLine
<1>6. OrderOK(q)'
  <2>1. Ordered(q, t) /\ Below(q, Range(t), BehindChannel(q)) /\ Below(q, {h}, BehindMain(q)')
    BY <1>0, <1>2, <1>4 DEF OrderOK, Below
  <2>2. Below(q, Range(Points), BehindBatch(q)') /\ Below(q, Range(db), BehindBatch(q)')
    BY <1>0, <1>5 DEF OrderOK, Below
  <2> QED
    BY <1>0, <1>1, <1>3, <2>1, <2>2 DEF OrderOK
<1>7. OnLine(q)' \intersect EventOf(q) = OnLine(q) \intersect EventOf(q)
  BY <1>0, <1>5
<1> QED
  BY <1>0, <1>1, <1>6, <1>7, MoveAccount

LEMMA WriteLine ==
    ASSUME TypeOK, LineInv, Write, NEW q \in Plugin
    PROVE  OrderOK(q)' /\ AccountOK(q)'
<1>0. OrderOK(q) /\ AccountOK(q) /\ None \notin EventOf(q)
  BY EventType DEF LineInv
<1>1. /\ UNCHANGED <<made, ring, reader, gather, ch, dropped, db, doubtful>>
      /\ main \in Metric /\ main' = None /\ Points' = Append(Points, main)
      /\ Points \in Seq(Metric)
  BY DEF Write, stages, TypeOK
<1>2. /\ Range(Points') = Range(Points) \union {main}
      /\ Ordered(q, Points) /\ Below(q, Range(Points), {main}) => Ordered(q, Points')
  <2>1. PICK S : Points \in Seq(S) /\ main \in S
    BY <1>1
  <2>2. /\ Range(Append(Points, main)) = Range(Points) \union {main}
        /\ Ordered(q, Points) /\ Below(q, Range(Points), {main})
             => Ordered(q, Append(Points, main))
    BY <2>1, AppendOrder
  <2> QED
    BY <1>1, <2>2
<1>3. BehindGather(q)' = BehindGather(q) /\ BehindChannel(q)' = BehindChannel(q)
      /\ BehindMain(q)' = BehindMain(q)
  BY <1>1 DEF BehindGather, BehindChannel, BehindMain
<1>4. /\ BehindBatch(q)' = {None} \union BehindMain(q)
      /\ BehindBatch(q) = {main} \union BehindMain(q)
  BY <1>1, <1>3 DEF BehindBatch
<1>5. OnLine(q)' = {None} \union OnLine(q)
  BY <1>1, <1>2, <1>4 DEF OnLine
<1>6. OrderOK(q)'
  <2>1. Below(q, Range(Points), {main}) /\ Below(q, Range(db), {main})
    BY <1>0, <1>4 DEF OrderOK, Below
  <2>2. Below(q, Range(Points'), BehindBatch(q)') /\ Below(q, Range(db), BehindBatch(q)')
    BY <1>0, <1>2, <1>4 DEF OrderOK, Below
  <2>3. Below(q, {None}, BehindMain(q))
    BY <1>0 DEF Below
  <2>4. Below(q, Range(db), Range(Points)) => Below(q, Range(db), Range(Points'))
    BY <1>2, <2>1 DEF Below
  <2> QED
    BY <1>0, <1>1, <1>2, <1>3, <2>1, <2>2, <2>3, <2>4 DEF OrderOK
<1>7. OnLine(q)' \intersect EventOf(q) = OnLine(q) \intersect EventOf(q)
  BY <1>0, <1>5
<1> QED
  BY <1>0, <1>1, <1>6, <1>7, MoveAccount

LEMMA CommitLine ==
    ASSUME TypeOK, LineInv, Commit, NEW q \in Plugin
    PROVE  OrderOK(q)' /\ AccountOK(q)'
<1>0. OrderOK(q) /\ AccountOK(q)
  BY DEF LineInv
<1>1. /\ UNCHANGED <<made, ring, reader, gather, ch, main, dropped>>
      /\ db \in Seq(Metric) /\ Points \in Seq(Metric) /\ doubtful \in Nat
  <2>1. doubtful \in Nat
    BY DEF TypeOK
  <2> QED
    BY <2>1 DEF Commit, CommitOK, CommitFails, stages, TypeOK
<1>2. /\ Range(db \o Points) = Range(db) \union Range(Points)
      /\ Ordered(q, db) /\ Ordered(q, Points) /\ Below(q, Range(db), Range(Points))
           => Ordered(q, db \o Points)
  BY <1>1, ConcatOrder
<1>3. /\ BehindGather(q)' = BehindGather(q) /\ BehindChannel(q)' = BehindChannel(q)
      /\ BehindMain(q)' = BehindMain(q) /\ BehindBatch(q)' = BehindBatch(q)
  BY <1>1 DEF BehindGather, BehindChannel, BehindMain, BehindBatch
<1>4. CASE CommitOK
  <2>1. db' = db \o Points /\ Points' = << >> /\ doubtful' = doubtful
    BY <1>4 DEF CommitOK
  <2>2. Range(Points') = {} /\ Ordered(q, Points')
    BY <2>1 DEF Range, Ordered
  <2>3. OrderOK(q)'
    <3>1. /\ Below(q, Range(db'), BehindBatch(q)) /\ Below(q, Range(Points'), BehindBatch(q))
          /\ Below(q, Range(db'), Range(Points'))
      BY <1>0, <1>2, <2>1, <2>2 DEF OrderOK, Below
    <3>2. doubtful = 0 => Ordered(q, db')
      BY <1>0, <1>2, <2>1 DEF OrderOK
    <3> QED
      BY <1>0, <1>1, <1>3, <2>1, <2>2, <3>1, <3>2 DEF OrderOK
  <2>4. OnLine(q)' = OnLine(q)
    BY <1>2, <1>3, <2>1, <2>2 DEF OnLine
  <2> QED
    BY <1>0, <1>1, <2>3, <2>4, MoveAccount
<1>5. CASE CommitFails /\ UNCHANGED <<db, doubtful>>
  <2>1. UNCHANGED Points
    BY <1>5 DEF CommitFails
  <2> QED
    BY <1>0, <1>1, <1>5, <2>1, OtherLine
<1>6. CASE CommitFails /\ db' = db \o Points /\ doubtful' = doubtful + 1
  <2>1. UNCHANGED Points /\ doubtful' # 0
    BY <1>1, <1>6 DEF CommitFails
  <2>2. OrderOK(q)'
    <3>1. Below(q, Range(db'), BehindBatch(q))
      BY <1>0, <1>2, <1>6 DEF OrderOK, Below
    <3> QED
      BY <1>0, <1>1, <1>3, <2>1, <3>1 DEF OrderOK
  <2>3. OnLine(q)' = OnLine(q)
    BY <1>2, <1>3, <1>6, <2>1 DEF OnLine
  <2> QED
    BY <1>0, <1>1, <2>2, <2>3, MoveAccount
<1> QED
  BY <1>4, <1>5, <1>6 DEF Commit, CommitFails

\* The other steps do not touch the line.
LEMMA IdleLine ==
    ASSUME LineInv, NEW q \in Plugin,
           UNCHANGED <<made, stages, ch, main, Points, db, dropped, doubtful>>
    PROVE  OrderOK(q)' /\ AccountOK(q)'
<1>1. OrderOK(q) /\ AccountOK(q)
  BY DEF LineInv
<1> QED
  BY <1>1, OtherLine DEF stages

LEMMA LineNext ==
    ASSUME TypeOK, OwnStages, LineInv, [Next]_vars
    PROVE  LineInv'
<1> SUFFICES ASSUME NEW q \in Plugin PROVE OrderOK(q)' /\ AccountOK(q)'
  BY DEF LineInv
<1>1. ASSUME NEW p \in Plugin, PluginStep(p) \/ RingbufOutput(p) PROVE OrderOK(q)' /\ AccountOK(q)'
  <2>1. CASE Load(p)
    BY <2>1, IdleLine DEF Load
  <2> QED
    BY <1>1, <2>1, OutputLine, ReadLine, HandoverLine, SendLine DEF PluginStep
<1>2. ASSUME NEW p \in Plugin, LoadFails(p) \/ StartFails(p) PROVE OrderOK(q)' /\ AccountOK(q)'
  BY <1>2, IdleLine DEF LoadFails, StartFails
<1>3. CASE MainReceive \/ Write \/ Commit
  BY <1>3, ReceiveLine, WriteLine, CommitLine
<1>4. CASE Signal \/ MainStop \/ Tick \/ CommitBegin \/ UNCHANGED vars
  BY <1>4, IdleLine DEF Signal, MainStop, Tick, CommitBegin, vars
<1> QED
  BY <1>1, <1>2, <1>3, <1>4 DEF Next

LEMMA LineInit == Init => LineInv
<1> SUFFICES ASSUME Init, NEW p \in Plugin PROVE OrderOK(p) /\ AccountOK(p)
  BY DEF LineInv
<1>1. /\ ring[p] = << >> /\ ch = << >> /\ Points = << >> /\ db = << >> /\ dropped = {}
      /\ reader[p] = None /\ gather[p] = None /\ main = None /\ made[p] = 0
  BY DEF Init
<1>2. None \notin EventOf(p) /\ \A m \in EventOf(p) : m.n \in Nat /\ m.n > 0
  BY EventType
<1>3. Range(<< >>) = {}
  BY DEF Range
<1>4. OnLine(p) = {None} /\ BehindGather(p) = {None} /\ BehindChannel(p) = {None}
      /\ BehindMain(p) = {None} /\ BehindBatch(p) = {None}
  BY <1>1, <1>3 DEF OnLine, BehindGather, BehindChannel, BehindMain, BehindBatch
<1>5. AccountOK(p)
  BY <1>1, <1>2, <1>4 DEF AccountOK
<1>6. OrderOK(p)
  BY <1>1, <1>2, <1>3, <1>4 DEF OrderOK, Ordered, Below
<1> QED
  BY <1>5, <1>6

LEMMA LineInvHolds == Spec => [](TypeOK /\ OwnStages /\ LineInv)
<1>1. Init => TypeOK /\ OwnStages /\ LineInv
  BY InitType, LineInit
<1>2. TypeOK /\ OwnStages /\ LineInv /\ [Next]_vars => TypeOK' /\ OwnStages' /\ LineInv'
  BY TypeNext, OwnStagesNext, LineNext
<1> QED
  BY <1>1, <1>2, PTL DEF Spec

\* What the line holds, and in which order.
LEMMA LineRange ==
    ASSUME TypeOK, NEW p \in Plugin
    PROVE  /\ Range(Line(p)) = OnLine(p)
           /\ doubtful = 0 /\ OrderOK(p) => Ordered(p, Line(p))
<1> DEFINE S == Metric \union {None}
           a == db \o Points
           e == <<main>>
           b == a \o e
           c == b \o ch
           g == <<gather[p], reader[p]>>
           d == c \o g
           k == ring[p]
<1>1. /\ db \in Seq(S) /\ Points \in Seq(S) /\ e \in Seq(S) /\ ch \in Seq(S)
      /\ g \in Seq(S) /\ k \in Seq(S)
  <2>1. /\ db \in Seq(Metric) /\ Points \in Seq(Metric) /\ ch \in Seq(Metric)
        /\ ring[p] \in Seq(Metric)
    BY DEF TypeOK
  <2>2. main \in S /\ gather[p] \in S /\ reader[p] \in S
    BY DEF TypeOK
  <2>3. /\ db \in Seq(S) /\ Points \in Seq(S) /\ ch \in Seq(S) /\ ring[p] \in Seq(S)
    BY <2>1, SeqMonotonic
  <2> HIDE DEF S
  <2> QED
    BY <2>2, <2>3
<1> HIDE DEF S
<1>2. Range(e) = {main} /\ Ordered(p, e)
  BY DEF Range, Ordered
<1> HIDE DEF e, k
<1>3. Range(g) = {gather[p], reader[p]} /\ (OrderOK(p) => Ordered(p, g))
  <2>1. DOMAIN g = {1, 2} /\ g[1] = gather[p] /\ g[2] = reader[p]
    OBVIOUS
  <2> HIDE DEF g
  <2>2. Range(g) = {gather[p], reader[p]}
    BY <2>1 DEF Range
  <2>3. OrderOK(p) => Ordered(p, g)
    BY <2>1 DEF OrderOK, Ordered, BehindGather, Below
  <2> QED
    BY <2>2, <2>3
<1> HIDE DEF g
<1>4. /\ a \in Seq(S) /\ Range(a) = Range(db) \union Range(Points)
      /\ Ordered(p, db) /\ Ordered(p, Points) /\ Below(p, Range(db), Range(Points))
           => Ordered(p, a)
  BY <1>1, ConcatOrder
<1> HIDE DEF a
<1>5. /\ b \in Seq(S) /\ Range(b) = Range(a) \union Range(e)
      /\ Ordered(p, a) /\ Ordered(p, e) /\ Below(p, Range(a), Range(e)) => Ordered(p, b)
  BY <1>1, <1>4, ConcatOrder
<1> HIDE DEF b
<1>6. /\ c \in Seq(S) /\ Range(c) = Range(b) \union Range(ch)
      /\ Ordered(p, b) /\ Ordered(p, ch) /\ Below(p, Range(b), Range(ch)) => Ordered(p, c)
  BY <1>1, <1>5, ConcatOrder
<1> HIDE DEF c
<1>7. /\ d \in Seq(S) /\ Range(d) = Range(c) \union Range(g)
      /\ Ordered(p, c) /\ Ordered(p, g) /\ Below(p, Range(c), Range(g)) => Ordered(p, d)
  BY <1>1, <1>6, ConcatOrder
<1> HIDE DEF d
<1>8. /\ d \o k \in Seq(S) /\ Range(d \o k) = Range(d) \union Range(k)
      /\ Ordered(p, d) /\ Ordered(p, k) /\ Below(p, Range(d), Range(k)) => Ordered(p, d \o k)
  BY <1>1, <1>7, ConcatOrder
<1>9. Line(p) = d \o k /\ k = ring[p]
  BY DEF Line, a, b, c, d, e, g, k
<1>10. Range(Line(p)) = OnLine(p)
  BY <1>2, <1>3, <1>4, <1>5, <1>6, <1>7, <1>8, <1>9 DEF OnLine, BehindGather, BehindChannel, BehindMain,
     BehindBatch
<1>11. ASSUME doubtful = 0, OrderOK(p) PROVE Ordered(p, Line(p))
  <2>1. Ordered(p, a)
    BY <1>4, <1>11 DEF OrderOK
  <2>2. Ordered(p, b)
    BY <1>2, <1>4, <1>5, <1>11, <2>1 DEF OrderOK, Below, BehindBatch
  <2>3. Ordered(p, c)
    <3>1. Below(p, Range(b), Range(ch))
      BY <1>2, <1>4, <1>5, <1>11 DEF OrderOK, Below, BehindBatch, BehindMain
    <3> QED
      BY <1>6, <1>11, <2>2, <3>1 DEF OrderOK
  <2>4. Ordered(p, d)
    <3>1. Below(p, Range(c), Range(g))
      BY <1>2, <1>3, <1>4, <1>5, <1>6, <1>11 DEF OrderOK, Below, BehindBatch, BehindMain, BehindChannel,
         BehindGather
    <3> QED
      BY <1>3, <1>7, <1>11, <2>3, <3>1
  <2>5. Below(p, Range(d), Range(k))
    BY <1>2, <1>3, <1>4, <1>5, <1>6, <1>7, <1>9, <1>11 DEF OrderOK, Below, BehindBatch, BehindMain,
       BehindChannel, BehindGather
  <2> QED
    BY <1>8, <1>9, <1>11, <2>4, <2>5 DEF OrderOK
<1> QED
  BY <1>10, <1>11

\* Nothing is lost inside the agent and nothing is both stored and dropped
\* (NothingLost), whatever the capacities, however the goroutines interleave
\* and however often commits fail.
THEOREM NothingLostHolds == Spec => []NothingLost
<1>1. TypeOK /\ LineInv => NothingLost
  <2> SUFFICES ASSUME TypeOK, LineInv, NEW p \in Plugin, NEW n \in 1 .. made[p]
               PROVE  LET m == [src |-> p, n |-> n]
                      IN  (m \in dropped) # (m \in Range(Line(p)))
    BY DEF NothingLost
  <2>1. made[p] \in Nat /\ MaxEvent[p] \in Nat /\ made[p] <= MaxEvent[p]
    BY ConstantsAssumption DEF TypeOK
  <2>2. n \in 1 .. MaxEvent[p] /\ n <= made[p]
    BY <2>1
  <2>3. [src |-> p, n |-> n] \in EventOf(p) /\ [src |-> p, n |-> n].n = n
    BY <2>2, EventType
  <2>4. AccountOK(p) /\ Range(Line(p)) = OnLine(p)
    BY LineRange DEF LineInv
  <2> QED
    BY <2>2, <2>3, <2>4 DEF AccountOK
<1> QED
  BY <1>1, LineInvHolds, PTL

\* The events of a plugin stay in their order from the ring buffer to the
\* database (InOrder), as long as no commit was wrong about its failure.
THEOREM InOrderHolds == Spec => []InOrder
<1>1. TypeOK /\ LineInv => InOrder
  BY LineRange DEF InOrder, LineInv
<1> QED
  BY <1>1, LineInvHolds, PTL

-----------------------------------------------------------------------------
(* How often a metric is stored. *)

Occurrences(s, m) == {i \in DOMAIN s : s[i] = m}

LEMMA OccurrencesFinite ==
    ASSUME NEW S, NEW s \in Seq(S), NEW m
    PROVE  /\ IsFiniteSet(Occurrences(s, m)) /\ Cardinality(Occurrences(s, m)) \in Nat
           /\ m \notin Range(s) => Cardinality(Occurrences(s, m)) = 0
<1>1. DOMAIN s = 1 .. Len(s) /\ Len(s) \in Nat
  OBVIOUS
<1>2. IsFiniteSet(1 .. Len(s))
  BY <1>1, FS_Interval
<1>3. Occurrences(s, m) \in SUBSET (1 .. Len(s))
  BY <1>1 DEF Occurrences
<1>4. IsFiniteSet(Occurrences(s, m))
  BY <1>2, <1>3, FS_Subset
<1>5. m \notin Range(s) => Occurrences(s, m) = {}
  BY DEF Occurrences, Range
<1> QED
  BY <1>4, <1>5, FS_CardinalityType, FS_EmptySet

\* A batch in which a metric occurs at most once adds at most one occurrence.
LEMMA OccurrencesConcat ==
    ASSUME NEW S, NEW s \in Seq(S), NEW t \in Seq(S), NEW m,
           \A i, j \in DOMAIN t : t[i] = m /\ t[j] = m => i = j
    PROVE  /\ m \in Range(t) =>
                Cardinality(Occurrences(s \o t, m)) = Cardinality(Occurrences(s, m)) + 1
           /\ m \notin Range(t) =>
                Cardinality(Occurrences(s \o t, m)) = Cardinality(Occurrences(s, m))
<1> DEFINE u == s \o t
           n == Len(s)
           k == Len(t)
<1>1. /\ n \in Nat /\ k \in Nat /\ DOMAIN s = 1 .. n /\ DOMAIN t = 1 .. k
      /\ DOMAIN u = 1 .. n + k
      /\ \A i \in 1 .. n : u[i] = s[i]
      /\ \A i \in n + 1 .. n + k : u[i] = t[i - n]
  BY ConcatProperties
<1> HIDE DEF u, n, k
<1>2. CASE m \notin Range(t)
  <2>1. \A i \in n + 1 .. n + k : u[i] # m
    <3>1. \A i \in n + 1 .. n + k : i - n \in DOMAIN t
      BY <1>1
    <3> QED
      BY <1>1, <1>2, <3>1 DEF Range
  <2>2. Occurrences(u, m) = Occurrences(s, m)
    <3>1. \A i \in 1 .. n + k : i \in 1 .. n \/ i \in n + 1 .. n + k
      BY <1>1
    <3>2. \A i \in 1 .. n : i \in 1 .. n + k
      BY <1>1
    <3> QED
      BY <1>1, <2>1, <3>1, <3>2 DEF Occurrences
  <2> QED
    BY <1>2, <2>2 DEF u
<1>3. CASE m \in Range(t)
  <2>1. PICK j \in DOMAIN t : t[j] = m
    BY <1>3 DEF Range
  <2>2. n + j \in n + 1 .. n + k /\ n + j \notin 1 .. n /\ (n + j) - n = j
    BY <1>1, <2>1
  <2>3. u[n + j] = m
    BY <1>1, <2>1, <2>2
  <2>4. \A i \in n + 1 .. n + k : u[i] = m => i = n + j
    <3> SUFFICES ASSUME NEW i \in n + 1 .. n + k, u[i] = m PROVE i = n + j
      OBVIOUS
    <3>1. i - n \in DOMAIN t /\ t[i - n] = m
      BY <1>1
    <3>2. i - n = j
      BY <2>1, <3>1
    <3> QED
      BY <1>1, <2>1, <3>2
  <2>5. Occurrences(u, m) = Occurrences(s, m) \union {n + j}
    <3>1. \A i \in 1 .. n + k : i \in 1 .. n \/ i \in n + 1 .. n + k
      BY <1>1
    <3>2. \A i \in 1 .. n : i \in 1 .. n + k
      BY <1>1
    <3>3. n + j \in 1 .. n + k
      BY <1>1, <2>2
    <3> QED
      BY <1>1, <2>3, <2>4, <3>1, <3>2, <3>3 DEF Occurrences
  <2>6. n + j \notin Occurrences(s, m) /\ IsFiniteSet(Occurrences(s, m))
    <3>1. n + j \notin Occurrences(s, m)
      BY <1>1, <2>2 DEF Occurrences
    <3> QED
      BY <3>1, OccurrencesFinite
  <2>7. Cardinality(Occurrences(u, m)) = Cardinality(Occurrences(s, m)) + 1
    BY <2>5, <2>6, FS_AddElement
  <2> QED
    BY <1>3, <2>7 DEF u
<1> QED
  BY <1>2, <1>3

\* A metric is stored at most once, and once more for every commit that was
\* wrong about its failure; one that is in the batch has a commit to come.
StoredOK(m) ==
    /\ Cardinality(Occurrences(db, m)) <= doubtful + 1
    /\ m \in Range(Points) => Cardinality(Occurrences(db, m)) <= doubtful

StoredInv == \A m \in Metric : StoredOK(m)

LEMMA StoredNext ==
    ASSUME TypeOK, LineInv, StoredInv, [Next]_vars
    PROVE  StoredInv'
<1> SUFFICES ASSUME NEW m \in Metric PROVE StoredOK(m)'
  BY DEF StoredInv
<1>0. /\ StoredOK(m) /\ db \in Seq(Metric) /\ Points \in Seq(Metric) /\ doubtful \in Nat
      /\ Cardinality(Occurrences(db, m)) \in Nat
  <2>1. StoredOK(m) /\ db \in Seq(Metric) /\ Points \in Seq(Metric) /\ doubtful \in Nat
    BY DEF StoredInv, TypeOK
  <2> QED
    BY <2>1, OccurrencesFinite
<1>1. PICK p \in Plugin : m \in EventOf(p)
  BY MetricEvent
<1>2. OrderOK(p) /\ m.n \in Nat
  BY <1>1, EventType DEF LineInv
<1>3. CASE UNCHANGED <<db, Points, doubtful>>
  BY <1>0, <1>3 DEF StoredOK, Occurrences
<1>4. CASE Write
  <2>1. Points' = Append(Points, main) /\ UNCHANGED <<db, doubtful>> /\ main \in Metric
    BY <1>4 DEF Write, TypeOK
  <2>2. Range(Points') = Range(Points) \union {main}
    BY <1>0, <1>1, <2>1, AppendOrder
  <2>3. m = main => m \notin Range(db)
    BY <1>1, <1>2 DEF OrderOK, Below, BehindBatch
  <2>4. m = main => Cardinality(Occurrences(db, m)) = 0
    BY <1>0, <2>3, OccurrencesFinite
  <2> QED
    BY <1>0, <2>1, <2>2, <2>4 DEF StoredOK, Occurrences
<1>5. \A i, j \in DOMAIN Points : Points[i] = m /\ Points[j] = m => i = j
  <2> SUFFICES ASSUME NEW i \in DOMAIN Points, NEW j \in DOMAIN Points,
                      Points[i] = m, Points[j] = m
               PROVE  i = j
    OBVIOUS
  <2>1. i \in Int /\ j \in Int
    BY <1>0
  <2>2. ~ (i < j) /\ ~ (j < i)
    BY <1>1, <1>2 DEF OrderOK, Ordered
  <2> QED
    BY <2>1, <2>2
<1>6. /\ m \in Range(Points) => Cardinality(Occurrences(db \o Points, m))
                                  = Cardinality(Occurrences(db, m)) + 1
      /\ m \notin Range(Points) => Cardinality(Occurrences(db \o Points, m))
                                     = Cardinality(Occurrences(db, m))
  BY <1>0, <1>5, OccurrencesConcat
<1>7. CASE CommitOK
  <2>1. db' = db \o Points /\ Range(Points') = {} /\ doubtful' = doubtful
    BY <1>7 DEF CommitOK, Range
  <2> QED
    BY <1>0, <1>6, <2>1 DEF StoredOK
<1>8. CASE CommitFails /\ db' = db \o Points /\ doubtful' = doubtful + 1
  <2>1. Points' = Points
    BY <1>8 DEF CommitFails
  <2> QED
    BY <1>0, <1>6, <1>8, <2>1 DEF StoredOK
<1> QED
  BY <1>3, <1>4, <1>7, <1>8 DEF Next, PluginStep, Load, LoadFails, StartFails, RingbufOutput, Read,
     Handover, GatherSend, MainReceive, Signal, MainStop, Tick, CommitBegin, Commit, CommitFails,
     vars

\* A metric is stored twice only for a commit that stored its batch and reported
\* an error (BoundedDuplicates): Commit clears Points under the mutex whenever
\* WritePoint says that the batch is stored.
THEOREM BoundedDuplicatesHolds == Spec => []BoundedDuplicates
<1>1. Init => StoredInv
  <2> SUFFICES ASSUME Init, NEW m \in Metric PROVE StoredOK(m)
    BY DEF StoredInv
  <2>1. db = << >> /\ Points = << >> /\ doubtful = 0
    BY DEF Init
  <2>2. Occurrences(db, m) = {} /\ Range(Points) = {}
    BY <2>1 DEF Occurrences, Range
  <2>3. Cardinality(Occurrences(db, m)) = 0
    BY <2>2, FS_EmptySet
  <2> QED
    BY <2>1, <2>2, <2>3 DEF StoredOK
<1>2. TypeOK /\ LineInv /\ StoredInv /\ [Next]_vars => StoredInv'
  BY StoredNext
<1>3. StoredInv => BoundedDuplicates
  BY DEF StoredInv, StoredOK, Occurrences, BoundedDuplicates
<1> QED
  BY <1>1, <1>2, <1>3, LineInvHolds, PTL DEF Spec
=============================================================================
