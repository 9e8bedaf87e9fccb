--------------------------- MODULE RedMetricProofs ---------------------------
(***************************************************************************)
(* Proofs about the R.E.D. statistics, for any pods, response times and    *)
(* number of requests.                                                     *)
(***************************************************************************)
EXTENDS RedMetric, TLAPS

Got == [requests : 0 .. MaxReq, errors : 0 .. MaxReq, duration : Nat]
Sent == [RequestCount : 0 .. MaxReq, ErrCount : 0 .. MaxReq, DurationCount : Nat]

-----------------------------------------------------------------------------
(* Arithmetic. *)

LEMMA Distributes ==
    ASSUME NEW p \in Nat, NEW a \in Nat, NEW b \in Nat
    PROVE  p * (a + b) = p * a + p * b /\ p * a \in Nat /\ p * b \in Nat
OBVIOUS

\* A power of two is found for every number of 13 bits.
LEMMA LeadingBitFacts ==
    ASSUME NEW n \in Nat, n < 8192
    PROVE  /\ LeadingBit(n) \in PowersOf2
           /\ LeadingBit(n) <= n \/ LeadingBit(n) = 1
<1>1. \E p \in PowersOf2 : n < 2 * p /\ (p <= n \/ p = 1)
  <2>1. CASE n < 128
    BY <2>1 DEF PowersOf2
  <2>2. CASE n >= 128
    BY <2>2 DEF PowersOf2
  <2> QED
    BY <2>1, <2>2
<1>2. LeadingBit(n) \in PowersOf2 /\ (LeadingBit(n) <= n \/ LeadingBit(n) = 1)
  <2> DEFINE Q(p) == n < 2 * p /\ (p <= n \/ p = 1)
  <2>1. LeadingBit(n) = CHOOSE p \in PowersOf2 : Q(p)
    BY DEF LeadingBit
  <2>2. \E p \in PowersOf2 : Q(p)
    BY <1>1
  <2> HIDE DEF Q
  <2>3. LeadingBit(n) \in PowersOf2 /\ Q(LeadingBit(n))
    BY <2>1, <2>2
  <2> QED
    BY <2>3 DEF Q
<1> QED
  BY <1>2

\* Rounding to the nearest multiple of u moves a number by half of u at most.
LEMMA RoundedFacts ==
    ASSUME NEW n \in Nat, NEW u \in Nat \ {0}
    PROVE  /\ Rounded(n, u) \in Nat
           /\ 2 * Rounded(n, u) <= 2 * n + u
           /\ 2 * n <= 2 * Rounded(n, u) + u
<1>1. PICK low \in Nat, rest \in Nat :
        low = n \div u /\ rest = n % u /\ n = u * low + rest /\ rest < u
  OBVIOUS
<1>2. u * (low + 1) = u * low + u /\ u * low \in Nat
  BY <1>1, Distributes
<1>3. CASE 2 * rest > u \/ (2 * rest = u /\ low % 2 = 1)
  <2>1. Rounded(n, u) = u * (low + 1)
    BY <1>1, <1>3 DEF Rounded
  <2>2. 2 * rest >= u
    BY <1>3
  <2>3. PICK a \in Nat : a = u * low
    BY <1>2
  <2> QED
    BY <1>1, <1>2, <2>1, <2>2, <2>3
<1>4. CASE ~ (2 * rest > u \/ (2 * rest = u /\ low % 2 = 1))
  <2>1. Rounded(n, u) = u * low
    BY <1>1, <1>4 DEF Rounded
  <2>2. 2 * rest <= u
    BY <1>1, <1>4
  <2>3. PICK a \in Nat : a = u * low
    BY <1>2
  <2> QED
    BY <1>1, <1>2, <2>1, <2>2, <2>3
<1> QED
  BY <1>3, <1>4

\* The number of values of 32 bits.
Two32 == 4294967296

\* float32 changes a duration by 128 nanoseconds at most.
LEMMA Float32Facts ==
    ASSUME NEW n \in Nat, n < Two32
    PROVE  float32(n) \in Nat /\ float32(n) <= n + 128 /\ n <= float32(n) + 128
<1>1. n \div 8388608 \in Nat /\ n \div 8388608 < 512
  BY DEF Two32
<1>2. PICK u \in PowersOf2 : u = LeadingBit(n \div 8388608) /\ (u < 512 \/ u = 1)
  <2>1. PICK h \in Nat : h = n \div 8388608 /\ h < 512
    BY <1>1
  <2>2. LeadingBit(h) \in PowersOf2 /\ (LeadingBit(h) <= h \/ LeadingBit(h) = 1)
    BY <2>1, LeadingBitFacts
  <2>3. PICK u \in PowersOf2 : u = LeadingBit(h) /\ (u <= h \/ u = 1)
    BY <2>2
  <2> QED
    BY <2>1, <2>3 DEF PowersOf2
<1>3. u \in Nat \ {0} /\ u <= 256
  BY <1>2 DEF PowersOf2
<1>4. float32(n) = Rounded(n, u)
  BY <1>2 DEF float32
<1>5. /\ Rounded(n, u) \in Nat
      /\ 2 * Rounded(n, u) <= 2 * n + u
      /\ 2 * n <= 2 * Rounded(n, u) + u
  BY <1>3, RoundedFacts
<1> QED
  BY <1>3, <1>4, <1>5

\* int(m.Duration) cuts off less than a millisecond, and is too large only by
\* what is rounded.
LEMMA MsFacts ==
    ASSUME NEW m \in Traffic
    PROVE  /\ Ms(m) \in Nat /\ m.duration \in Nat
           /\ PerMs * Ms(m) <= m.duration + MaxRounding
           /\ m.duration <= PerMs * Ms(m) + (PerMs + MaxRounding)
<1>1. m.duration \in Nat /\ m.duration \div 65536 < 65536
  BY ConstantsAssumption DEF Traffic
<1>2. PICK d \in Nat : d = m.duration /\ d < Two32
  BY <1>1 DEF Two32
<1>3. PICK ns \in Nat : ns = float32(d) /\ ns <= d + 128 /\ d <= ns + 128
  BY <1>2, Float32Facts
<1>4. PICK w \in Nat : w = ns \div 1000000 /\ 1000000 * w <= ns /\ ns < 1000000 * w + 1000000
  OBVIOUS
<1>5. w < 4296
  BY <1>2, <1>3, <1>4 DEF Two32
<1>6. PICK b \in PowersOf2 : b = LeadingBit(w)
  BY <1>5, LeadingBitFacts
<1>7. 1000000 \div (16777216 \div b) <= 244 /\ 1000000 \div (16777216 \div b) \in Int
  BY <1>6 DEF PowersOf2
<1>8. \/ Ms(m) = w
      \/ Ms(m) = w + 1 /\ (w + 1) * 1000000 - ns <= 244
  <2>1. PICK h \in Int : h = 1000000 \div (16777216 \div b) /\ h <= 244
    BY <1>7
  <2>2. Ms(m) = IF (w + 1) * 1000000 - ns <= h THEN w + 1 ELSE w
    BY <1>2, <1>3, <1>4, <1>6, <2>1 DEF Ms, PerMs
  <2> QED
    BY <2>1, <2>2
<1> QED
  BY <1>2, <1>3, <1>4, <1>8 DEF PerMs, MaxRounding

-----------------------------------------------------------------------------
(* The inductive invariant, for one pod name. *)

\* What the entry v adds to the counters sent.
Counts(v, s) == IF v = None THEN s ELSE
    [RequestCount |-> s.RequestCount + v.RequestCount, ErrCount |-> s.ErrCount + v.ErrCount,
     DurationCount |-> s.DurationCount + v.DurationCount]

\* An entry is its pod name's, no more errors than requests are counted, and
\* all counters agree with what was received.
Kept(k, v, g, s) ==
    /\ v # None => v.PodName = k
    /\ g.errors <= g.requests
    /\ Counts(v, s).RequestCount = g.requests
    /\ Counts(v, s).ErrCount = g.errors
    /\ PerMs * Counts(v, s).DurationCount <= g.duration + MaxRounding * g.requests
    /\ g.duration <= PerMs * Counts(v, s).DurationCount + (PerMs + MaxRounding) * g.requests

Inv == TypeOK /\ \A k \in Name : Kept(k, redMetric[k], got[k], sent[k])

\* Traffic is received: a new entry or one counted up.
LEMMA KeptReceive ==
    ASSUME NEW m \in Traffic, NEW v \in RED \union {None}, NEW g \in Got, NEW s \in Sent,
           g.requests < MaxReq, Kept(m.pod.name, v, g, s),
           NEW w, w = IF v = None THEN NewRED(m) ELSE Counted(v, m),
           NEW h, h = [requests |-> g.requests + 1, errors |-> g.errors + m.isErr,
                       duration |-> g.duration + m.duration]
    PROVE  w \in RED /\ h \in Got /\ Kept(m.pod.name, w, h, s)
<1>0. /\ m.pod \in Pod /\ m.isErr \in 0 .. 1 /\ Ms(m) \in Nat /\ m.duration \in Nat
      /\ PerMs \in Nat /\ MaxReq \in Nat
  BY MsFacts, ConstantsAssumption DEF Traffic, PerMs
<1>1. m.pod.name \in Name /\ m.pod.ns \in NameSpace
  BY <1>0 DEF Name, NameSpace
<1>2. /\ g.requests \in Nat /\ g.errors \in Nat /\ g.duration \in Nat /\ g.errors <= g.requests
      /\ s.RequestCount \in Nat /\ s.ErrCount \in Nat /\ s.DurationCount \in Nat
  BY <1>0 DEF Got, Sent, Kept
<1>3. /\ h.requests = g.requests + 1 /\ h.errors = g.errors + m.isErr
      /\ h.duration = g.duration + m.duration
  OBVIOUS
<1>4. h \in Got /\ h.errors <= h.requests
  BY <1>0, <1>2, <1>3 DEF Got
\* The counters of the entry, and its type.
<1>5. /\ w \in RED /\ w.PodName = m.pod.name
      /\ Counts(w, s).RequestCount = Counts(v, s).RequestCount + 1
      /\ Counts(w, s).ErrCount = Counts(v, s).ErrCount + m.isErr
      /\ Counts(w, s).DurationCount = Counts(v, s).DurationCount + Ms(m)
      /\ Counts(v, s).DurationCount \in Nat
  <2>1. CASE v = None
    <3>1. /\ w.RequestCount = 1 /\ w.ErrCount = m.isErr /\ w.DurationCount = Ms(m)
          /\ w.PodName = m.pod.name
      BY <2>1 DEF NewRED
    <3>2. 1 \in 1 .. MaxReq /\ m.isErr \in 0 .. MaxReq
      BY <1>0, <1>2
    <3>3. w \in RED
      BY <1>0, <1>1, <2>1, <3>2 DEF NewRED, RED
    <3>4. w # None
      BY <3>3, ConstantsAssumption
    <3> QED
      BY <1>0, <1>2, <2>1, <3>1, <3>3, <3>4 DEF Counts
  <2>2. CASE v # None
    <3>0. /\ v \in RED /\ v.RequestCount \in Nat /\ v.ErrCount \in Nat /\ v.DurationCount \in Nat
          /\ v.PodName = m.pod.name /\ v.RequestCount >= 1
      BY <2>2, <1>0 DEF RED, Kept
    <3>1. /\ w.RequestCount = v.RequestCount + 1 /\ w.ErrCount = v.ErrCount + m.isErr
          /\ w.DurationCount = v.DurationCount + Ms(m) /\ w.PodName = v.PodName
          /\ w.NameSpace = v.NameSpace /\ w.ServiceName = v.ServiceName
      BY <2>2, <3>0 DEF Counted, RED
    <3>2. s.RequestCount + v.RequestCount = g.requests /\ s.ErrCount + v.ErrCount = g.errors
      BY <2>2 DEF Kept, Counts
    <3>3. v.RequestCount + 1 \in 1 .. MaxReq /\ v.ErrCount + m.isErr \in 0 .. MaxReq
      BY <1>0, <1>2, <3>0, <3>2
    <3>4. w \in RED
      <4>1. v.DurationCount + Ms(m) \in Nat
        BY <1>0, <3>0
      <4>2. w = [v EXCEPT !.RequestCount = v.RequestCount + 1, !.ErrCount = v.ErrCount + m.isErr,
                          !.DurationCount = v.DurationCount + Ms(m)]
        BY <2>2, <3>0 DEF Counted
      <4> QED
        BY <3>0, <3>3, <4>1, <4>2 DEF RED
    <3>5. w # None
      BY <3>4, ConstantsAssumption
    <3> QED
      BY <1>0, <1>2, <2>2, <3>0, <3>1, <3>4, <3>5 DEF Counts
  <2> QED
    BY <2>1, <2>2
<1>6. PICK c \in Nat : c = Counts(v, s).DurationCount
  BY <1>5
<1>7. /\ PerMs * c <= g.duration + MaxRounding * g.requests
      /\ g.duration <= PerMs * c + (PerMs + MaxRounding) * g.requests
  BY <1>6 DEF Kept
<1>8. /\ PerMs * Ms(m) <= m.duration + MaxRounding
      /\ m.duration <= PerMs * Ms(m) + (PerMs + MaxRounding)
  BY MsFacts
<1>9. /\ PerMs * (c + Ms(m)) <= g.duration + m.duration + MaxRounding * (g.requests + 1)
      /\ g.duration + m.duration
           <= PerMs * (c + Ms(m)) + (PerMs + MaxRounding) * (g.requests + 1)
  BY <1>0, <1>2, <1>6, <1>7, <1>8 DEF PerMs, MaxRounding
<1>10. /\ PerMs * Counts(w, s).DurationCount <= h.duration + MaxRounding * h.requests
       /\ h.duration <= PerMs * Counts(w, s).DurationCount + (PerMs + MaxRounding) * h.requests
  BY <1>3, <1>5, <1>6, <1>9
<1>12. Counts(w, s).RequestCount = h.requests /\ Counts(w, s).ErrCount = h.errors
  BY <1>3, <1>5 DEF Kept
<1> QED
  BY <1>4, <1>5, <1>10, <1>12 DEF Kept

\* An entry is reported and deleted.
LEMMA KeptReport ==
    ASSUME NEW k, NEW v \in RED, NEW g \in Got, NEW s \in Sent, Kept(k, v, g, s), NEW u,
           u = [RequestCount |-> s.RequestCount + v.RequestCount, ErrCount |-> s.ErrCount + v.ErrCount,
                DurationCount |-> s.DurationCount + v.DurationCount]
    PROVE  u \in Sent /\ Kept(k, None, g, u)
<1>1. v # None
  BY ConstantsAssumption
<1>2. Counts(v, s) = u /\ Counts(None, u) = u
  BY <1>1 DEF Counts
<1>3. u.RequestCount = g.requests /\ u.ErrCount = g.errors
  BY <1>2 DEF Kept
<1>4. s.DurationCount + v.DurationCount \in Nat
  BY DEF Sent, RED
<1>5. u \in Sent
  BY <1>3, <1>4 DEF Sent, Got
<1> QED
  BY <1>2, <1>5 DEF Kept

-----------------------------------------------------------------------------
(* The invariant holds. *)

LEMMA InitInv ==
    ASSUME Init
    PROVE  Inv
<1>0. MaxReq \in Nat /\ PerMs \in Nat
  BY ConstantsAssumption DEF PerMs
<1>1. PICK g \in Got : g = [requests |-> 0, errors |-> 0, duration |-> 0]
  <2>1. 0 \in 0 .. MaxReq /\ 0 \in Nat
    BY <1>0
  <2>2. [requests |-> 0, errors |-> 0, duration |-> 0] \in Got
    BY <2>1 DEF Got
  <2> QED
    BY <2>2
<1>2. PICK s \in Sent : s = [RequestCount |-> 0, ErrCount |-> 0, DurationCount |-> 0]
  <2>1. 0 \in 0 .. MaxReq /\ 0 \in Nat
    BY <1>0
  <2>2. [RequestCount |-> 0, ErrCount |-> 0, DurationCount |-> 0] \in Sent
    BY <2>1 DEF Sent
  <2> QED
    BY <2>2
<1>3. TypeOK
  BY <1>1, <1>2 DEF Init, TypeOK, Got, Sent, Keys
<1>4. ASSUME NEW k \in Name PROVE Kept(k, None, g, s)
  <2>1. Counts(None, s) = s /\ PerMs * 0 = 0 /\ MaxRounding * 0 = 0
        /\ (PerMs + MaxRounding) * 0 = 0
    BY <1>0 DEF Counts, PerMs, MaxRounding
  <2> QED
    BY <1>1, <1>2, <2>1 DEF Kept
<1> QED
  BY <1>1, <1>2, <1>3, <1>4 DEF Init, Inv

LEMMA ReceiveStep ==
    ASSUME Inv, NEW m \in Traffic, Receive(m)
    PROVE  Inv'
<1>0. m.pod.name \in Name
  BY DEF Traffic, Name
<1>1. PICK k \in Name : k = m.pod.name
  BY <1>0
<1>2. /\ redMetric \in [Name -> RED \union {None}] /\ got \in [Name -> Got]
      /\ sent \in [Name -> Sent]
  BY DEF Inv, TypeOK, Got, Sent
<1>3. PICK w : w = IF redMetric[k] = None THEN NewRED(m) ELSE Counted(redMetric[k], m)
  OBVIOUS
<1>4. PICK h : h = [requests |-> got[k].requests + 1, errors |-> got[k].errors + m.isErr,
                    duration |-> got[k].duration + m.duration]
  OBVIOUS
<1>5. redMetric' = [redMetric EXCEPT ![k] = w] /\ got' = [got EXCEPT ![k] = h] /\ sent' = sent
  BY <1>1, <1>3, <1>4 DEF Receive
<1>6. /\ redMetric[k] \in RED \union {None} /\ got[k] \in Got /\ sent[k] \in Sent
      /\ got[k].requests < MaxReq /\ Kept(k, redMetric[k], got[k], sent[k])
  BY <1>1, <1>2 DEF Receive, Inv
<1>7. w \in RED /\ h \in Got /\ Kept(k, w, h, sent[k])
  BY <1>1, <1>3, <1>4, <1>6, KeptReceive
<1>8. redMetric' \in [Name -> RED \union {None}] /\ got' \in [Name -> Got] /\ sent' \in [Name -> Sent]
  BY <1>2, <1>5, <1>7
<1>9. todo' \subseteq Keys'
  <2>1. w # None
    BY <1>7, ConstantsAssumption
  <2> QED
    BY <1>2, <1>5, <2>1 DEF Inv, TypeOK, Keys, Receive
<1>10. TypeOK'
  BY <1>8, <1>9 DEF Receive, Inv, TypeOK, Got, Sent
<1>11. ASSUME NEW j \in Name PROVE Kept(j, redMetric'[j], got'[j], sent'[j])
  <2>1. CASE j = k
    BY <1>2, <1>5, <1>7, <2>1
  <2>2. CASE j # k
    <3>1. redMetric'[j] = redMetric[j] /\ got'[j] = got[j] /\ sent'[j] = sent[j]
      BY <1>2, <1>5, <2>2
    <3> QED
      BY <3>1 DEF Inv
  <2> QED
    BY <2>1, <2>2
<1> QED
  BY <1>10, <1>11 DEF Inv

LEMMA ReportStep ==
    ASSUME Inv, NEW k \in Name, Report(k)
    PROVE  Inv'
<1>2. /\ redMetric \in [Name -> RED \union {None}] /\ got \in [Name -> Got]
      /\ sent \in [Name -> Sent] /\ todo \subseteq Keys
  BY DEF Inv, TypeOK, Got, Sent
<1>3. /\ redMetric[k] \in RED /\ got[k] \in Got /\ sent[k] \in Sent
      /\ Kept(k, redMetric[k], got[k], sent[k])
  BY <1>2 DEF Report, Keys, Inv
<1>4. redMetric[k].PodName = k
  BY <1>3, ConstantsAssumption DEF Kept
<1>5. PICK u : u = [RequestCount |-> sent[k].RequestCount + redMetric[k].RequestCount,
                    ErrCount |-> sent[k].ErrCount + redMetric[k].ErrCount,
                    DurationCount |-> sent[k].DurationCount + redMetric[k].DurationCount]
  OBVIOUS
<1>6. redMetric' = [redMetric EXCEPT ![k] = None] /\ got' = got /\ sent' = [sent EXCEPT ![k] = u]
  BY <1>4, <1>5 DEF Report, Added
<1>7. u \in Sent /\ Kept(k, None, got[k], u)
  BY <1>3, <1>5, KeptReport
<1>8. redMetric' \in [Name -> RED \union {None}] /\ got' \in [Name -> Got] /\ sent' \in [Name -> Sent]
  BY <1>2, <1>6, <1>7
<1>9. todo' \subseteq Keys'
  BY <1>2, <1>6 DEF Report, Keys
<1>10. TypeOK'
  BY <1>8, <1>9 DEF Report, Inv, TypeOK, Got, Sent
<1>11. ASSUME NEW j \in Name PROVE Kept(j, redMetric'[j], got'[j], sent'[j])
  <2>1. CASE j = k
    BY <1>2, <1>6, <1>7, <2>1
  <2>2. CASE j # k
    <3>1. redMetric'[j] = redMetric[j] /\ got'[j] = got[j] /\ sent'[j] = sent[j]
      BY <1>2, <1>6, <2>2
    <3> QED
      BY <3>1 DEF Inv
  <2> QED
    BY <2>1, <2>2
<1> QED
  BY <1>10, <1>11 DEF Inv

LEMMA InvStep ==
    ASSUME Inv, [Next]_vars
    PROVE  Inv'
<1>1. ASSUME UNCHANGED <<redMetric, got, sent>>, gather' \in {"select", "send", "range"},
             tick' \in BOOLEAN, todo' \subseteq Keys
      PROVE  Inv'
  BY <1>1 DEF Inv, TypeOK, Keys
<1>2. gather \in {"select", "send", "range"} /\ tick \in BOOLEAN /\ todo \subseteq Keys
  BY DEF Inv, TypeOK
<1>3. CASE SendTraffic
  BY <1>1, <1>2, <1>3 DEF SendTraffic
<1>4. CASE Tick
  BY <1>1, <1>2, <1>4 DEF Tick
<1>5. CASE TakeTick
  BY <1>1, <1>2, <1>5 DEF TakeTick
<1>6. CASE RangeEnd
  BY <1>1, <1>2, <1>6 DEF RangeEnd
<1>7. CASE UNCHANGED vars
  BY <1>1, <1>2, <1>7 DEF vars
<1> QED
  BY <1>3, <1>4, <1>5, <1>6, <1>7, ReceiveStep, ReportStep DEF Next, RangeStep

LEMMA InvHolds == Spec => []Inv
  BY InitInv, InvStep, PTL DEF Spec

LEMMA TotalCounts ==
    ASSUME NEW k
    PROVE  Total(k) = Counts(redMetric[k], sent[k])
  BY DEF Total, Counts

\* Every variable of the statistics keeps a value of its type: an entry of the map
\* counts at least one request when Gather divides by RequestCount.
THEOREM TypeOKHolds == Spec => []TypeOK
  BY InvHolds, PTL DEF Inv

\* Gather counts every request and every error in exactly one RED metric, wherever
\* a tick falls, for any number of pods and requests.
THEOREM CountsConservedHolds == Spec => []CountsConserved
<1>1. Inv => CountsConserved
  BY TotalCounts DEF Inv, Kept, CountsConserved
<1> QED
  BY <1>1, InvHolds, PTL

\* The response times Gather adds up with int(m.Duration) are one millisecond per
\* request too small at most, up to what the conversions to float32 round, and
\* too large only by that, for every duration of 32 bits and every sequence of
\* requests and ticks.
THEOREM DurationWithinMsHolds == Spec => []DurationWithinMs
<1>1. Inv => DurationWithinMs
  BY TotalCounts DEF Inv, Kept, DurationWithinMs
<1> QED
  BY <1>1, InvHolds, PTL
=============================================================================
