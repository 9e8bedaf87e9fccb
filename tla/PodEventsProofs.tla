--------------------------- MODULE PodEventsProofs --------------------------
(***************************************************************************)
(* Proofs about the table of the node's pods and the plugins that read it, *)
(* for any names, UIDs, processes, plugins' buffers and bounds.            *)
(***************************************************************************)
EXTENDS PodEvents, FiniteSetTheorems, SequenceTheorems, TLAPS

Event == [name : Name, pod : Pod \union {Absent}, tomb : BOOLEAN]

-----------------------------------------------------------------------------
(* What the queue's operations do with the events in it. *)

LEMMA SeqFacts ==
    ASSUME NEW S, NEW s \in Seq(S)
    PROVE  Len(s) \in Nat /\ \A i \in 1 .. Len(s) : s[i] \in S
OBVIOUS

LEMMA AppendFacts ==
    ASSUME NEW S, NEW s \in Seq(S), NEW x \in S
    PROVE  /\ Append(s, x) \in Seq(S)
           /\ Len(Append(s, x)) = Len(s) + 1
           /\ \A i \in 1 .. Len(s) : Append(s, x)[i] = s[i]
           /\ Append(s, x)[Len(s) + 1] = x
OBVIOUS

LEMMA TailFacts ==
    ASSUME NEW S, NEW s \in Seq(S), s # << >>
    PROVE  /\ Head(s) \in S /\ Head(s) = s[1] /\ 1 \in 1 .. Len(s)
           /\ Tail(s) \in Seq(S)
           /\ Len(Tail(s)) = Len(s) - 1
           /\ \A i \in 1 .. Len(Tail(s)) : i + 1 \in 1 .. Len(s) /\ Tail(s)[i] = s[i + 1]
OBVIOUS

LEMMA ConcatFacts ==
    ASSUME NEW S, NEW s \in Seq(S), NEW t \in Seq(S)
    PROVE  /\ s \o t \in Seq(S)
           /\ Len(s \o t) = Len(s) + Len(t)
           /\ \A i \in 1 .. Len(s) : (s \o t)[i] = s[i]
           /\ \A i \in 1 .. Len(t) : (s \o t)[Len(s) + i] = t[i]
OBVIOUS

-----------------------------------------------------------------------------
(* The informer's list. *)

\* A finite set indexed by another one.
LEMMA ImageFinite ==
    ASSUME NEW T, IsFiniteSet(T), NEW S, NEW f \in [T -> S],
           \A y \in S : \E x \in T : f[x] = y
    PROVE  IsFiniteSet(S)
<1>1. f \in Surjection(T, S)
  BY DEF Surjection
<1> QED
  BY <1>1, FS_Surjection

\* A sequence of a finite set's elements that has each of them.
LEMMA OrdersSeq ==
    ASSUME NEW S, IsFiniteSet(S), NEW q \in Orders(S)
    PROVE  /\ q \in Seq(S)
           /\ \A x \in S : \E i \in 1 .. Len(q) : q[i] = x
<1>1. PICK k \in Nat : k = Cardinality(S)
  BY FS_CardinalityType
<1>2. q \in [1 .. k -> S] /\ \A x \in S : \E i \in DOMAIN q : q[i] = x
  BY <1>1 DEF Orders
<1>3. q \in Seq(S)
  BY <1>1, <1>2
<1>4. DOMAIN q = 1 .. Len(q)
  BY <1>3
<1> QED
  BY <1>2, <1>3, <1>4

\* The events of a list are finitely many, as the names are.
LEMMA ListedFinite ==
    ASSUME pods \in [Name -> Pod \union {Absent}], NEW st \in [Name -> Pod \union {Absent}]
    PROVE  /\ IsFiniteSet(Listed) /\ Listed \subseteq Event
           /\ IsFiniteSet(Tombstones(st)) /\ Tombstones(st) \subseteq Event
<1> DEFINE A == {n \in Name : pods[n] # Absent}
           B == {n \in Name : pods[n] = Absent /\ st[n] # Absent}
           f == [n \in A |-> [name |-> n, pod |-> pods[n], tomb |-> FALSE]]
           g == [n \in B |-> [name |-> n, pod |-> Absent, tomb |-> TRUE]]
<1>1. IsFiniteSet(A) /\ IsFiniteSet(B)
  <2>1. A \in SUBSET Name /\ B \in SUBSET Name
    OBVIOUS
  <2> HIDE DEF A, B
  <2> QED
    BY <2>1, ConstantsAssumption, FS_Subset
<1>2. Listed \subseteq Event /\ Tombstones(st) \subseteq Event
  <2>1. f \in [A -> Event] /\ g \in [B -> Event]
    BY DEF Event
  <2>2. Listed = {f[n] : n \in A} /\ Tombstones(st) = {g[n] : n \in B}
    BY DEF Listed, Tombstones
  <2> QED
    BY <2>1, <2>2
<1>3. f \in [A -> Listed] /\ \A y \in Listed : \E n \in A : f[n] = y
  BY DEF Listed
<1>4. g \in [B -> Tombstones(st)] /\ \A y \in Tombstones(st) : \E n \in B : g[n] = y
  BY DEF Tombstones
<1> HIDE DEF A, B, f, g
<1>5. IsFiniteSet(Listed)
  BY <1>1, <1>3, ImageFinite
<1>6. IsFiniteSet(Tombstones(st))
  BY <1>1, <1>4, ImageFinite
<1> QED
  BY <1>2, <1>5, <1>6

\* A list says of every name it mentions what the API server has, and it
\* mentions every name that has a pod, there or in the store.
LEMMA ListedNames ==
    ASSUME pods \in [Name -> Pod \union {Absent}],
           NEW st \in [Name -> Pod \union {Absent}], NEW l \in ListEvents(st)
    PROVE  /\ l \in Seq(Event)
           /\ \A i \in 1 .. Len(l) : l[i].name \in Name /\ l[i].pod = pods[l[i].name]
           /\ \A n \in Name : pods[n] # Absent \/ st[n] # Absent =>
                \E i \in 1 .. Len(l) : l[i].name = n
<1> DEFINE S == Listed
           T == Tombstones(st)
<1>1. PICK p \in Orders(S), d \in Orders(T) : l = p \o d
  BY DEF ListEvents
<1>2. IsFiniteSet(S) /\ IsFiniteSet(T) /\ S \subseteq Event /\ T \subseteq Event
  BY ListedFinite
<1>3. \A x \in S \union T : x.name \in Name /\ x.pod = pods[x.name]
  BY DEF Listed, Tombstones
<1>4. \A n \in Name : pods[n] # Absent \/ st[n] # Absent => \E x \in S \union T : x.name = n
  <2> SUFFICES ASSUME NEW n \in Name, pods[n] # Absent \/ st[n] # Absent
               PROVE  \E x \in S \union T : x.name = n
    OBVIOUS
  <2>1. CASE pods[n] # Absent
    <3>1. [name |-> n, pod |-> pods[n], tomb |-> FALSE] \in S
      BY <2>1 DEF Listed
    <3> QED
      BY <3>1
  <2>2. CASE pods[n] = Absent
    <3>1. [name |-> n, pod |-> Absent, tomb |-> TRUE] \in T
      BY <2>2 DEF Tombstones
    <3> QED
      BY <3>1
  <2> QED
    BY <2>1, <2>2
<1> HIDE DEF S, T
<1>5. p \in Seq(S) /\ \A x \in S : \E i \in 1 .. Len(p) : p[i] = x
  BY <1>2, OrdersSeq
<1>6. d \in Seq(T) /\ \A x \in T : \E i \in 1 .. Len(d) : d[i] = x
  BY <1>2, OrdersSeq
<1>7. p \in Seq(Event) /\ d \in Seq(Event)
  BY <1>2, <1>5, <1>6
<1>8. /\ l \in Seq(Event) /\ Len(l) = Len(p) + Len(d)
      /\ \A i \in 1 .. Len(l) : l[i] = IF i <= Len(p) THEN p[i] ELSE d[i - Len(p)]
  BY <1>1, <1>7
<1>9. ASSUME NEW i \in 1 .. Len(l) PROVE l[i] \in S \union T
  <2>1. CASE i <= Len(p)
    <3>1. i \in 1 .. Len(p) /\ l[i] = p[i]
      BY <1>7, <1>8, <2>1
    <3> QED
      BY <1>5, <3>1
  <2>2. CASE ~ (i <= Len(p))
    <3>1. i - Len(p) \in 1 .. Len(d) /\ l[i] = d[i - Len(p)]
      BY <1>7, <1>8, <2>2
    <3> QED
      BY <1>6, <3>1
  <2> QED
    BY <2>1, <2>2
<1>10. \A x \in S \union T : \E i \in 1 .. Len(l) : l[i] = x
  <2>1. ASSUME NEW x \in S PROVE \E i \in 1 .. Len(l) : l[i] = x
    <3>1. PICK i \in 1 .. Len(p) : p[i] = x
      BY <1>5
    <3>2. i \in 1 .. Len(l) /\ l[i] = x
      BY <3>1, <1>7, <1>8
    <3> QED
      BY <3>2
  <2>2. ASSUME NEW x \in T PROVE \E i \in 1 .. Len(l) : l[i] = x
    <3>1. PICK i \in 1 .. Len(d) : d[i] = x
      BY <1>6
    <3>2. PICK k : k = i + Len(p)
      OBVIOUS
    <3>3. k \in 1 .. Len(l) /\ ~ (k <= Len(p)) /\ k - Len(p) = i
      BY <1>7, <1>8, <3>2
    <3> QED
      BY <1>8, <3>1, <3>3
  <2> QED
    BY <2>1, <2>2
<1>11. \A i \in 1 .. Len(l) : l[i].name \in Name /\ l[i].pod = pods[l[i].name]
  BY <1>3, <1>9
<1>12. ASSUME NEW n \in Name, pods[n] # Absent \/ st[n] # Absent
       PROVE  \E i \in 1 .. Len(l) : l[i].name = n
  <2>1. PICK x \in S \union T : x.name = n
    BY <1>4, <1>12
  <2> QED
    BY <1>10, <2>1
<1> QED
  BY <1>8, <1>11, <1>12

-----------------------------------------------------------------------------
(* The invariant of the informer and the table. *)

\* A pod keeps the node it was scheduled to: what is said of it later is the
\* same, once it has a node.
Later(r, s) ==
    r # Absent /\ s # Absent /\ r.uid = s.uid /\ r.node # NoNode => s = r

\* A pod that the API server, the handlers or an event on the way has for n.
SeenAt(n, r) ==
    /\ r # Absent
    /\ \/ r = pods[n] \/ r = known[n]
       \/ \E i \in 1 .. Len(queue) : queue[i].name = n /\ queue[i].pod = r

\* A UID belongs to one name for ever.
OneName ==
    /\ \A n \in Name, r \in Pod : SeenAt(n, r) => r.uid \in used
    /\ \A n, m \in Name, r, s \in Pod :
         SeenAt(n, r) /\ SeenAt(m, s) /\ r.uid = s.uid => n = m

\* The handlers' pod of a name is not later than those of its events, which are
\* in order, and these are not later than the API server's.
InTime ==
    /\ \A n \in Name : Later(known[n], pods[n])
    /\ \A i \in 1 .. Len(queue) :
         /\ Later(known[queue[i].name], queue[i].pod)
         /\ Later(queue[i].pod, pods[queue[i].name])
         /\ \A j \in 1 .. Len(queue) :
              i < j /\ queue[i].name = queue[j].name => Later(queue[i].pod, queue[j].pod)

\* The store is the API server's pods while the watch is up, and what the
\* handlers will know once the events are handled.
StoreOK ==
    /\ running /\ connected => store = pods
    /\ \A n \in Name :
         (\A i \in 1 .. Len(queue) : queue[i].name # n) => store[n] = known[n]
    /\ \A i \in 1 .. Len(queue) :
         (\A j \in 1 .. Len(queue) : i < j => queue[j].name # queue[i].name)
            => store[queue[i].name] = queue[i].pod

ChainInv == OneName /\ InTime /\ StoreOK

\* The event at the handler's is the last one of its name, and the pod it
\* replaces is none of another name's.
WorkerOK ==
    worker # << >> =>
        /\ Later(worker[1].old, worker[1].new)
        /\ \E n \in Name :
             /\ known[n] = worker[1].new
             /\ \A m \in Name \ {n} :
                  worker[1].old # Absent /\ known[m] # Absent
                     => known[m].uid # worker[1].old.uid

\* The table has each pod of the node that the handlers know, but for the one
\* being written, and another only if it was replaced, but for the one being
\* removed.
TableOK ==
    /\ \A n \in Name : known[n] # Absent /\ known[n].node = "here" =>
         \/ Pods[known[n].uid] = known[n]
         \/ worker # << >> /\ worker[1].new = known[n]
    /\ \A u \in Uid : Pods[u] # Absent =>
         \/ u \in replaced
         \/ \E n \in Name : known[n] = Pods[u]
         \/ worker # << >> /\ worker[1].old = Pods[u]

PodInv == PodTypeOK /\ ChainInv /\ WorkerOK /\ TableOK

\* A name gets a pod that is new or the one it had without a node.
LEMMA ChangeChain ==
    ASSUME PodTypeOK, ChainInv, NEW n \in Name, NEW x \in Pod \union {Absent}, Change(n, x),
           used \subseteq used', x # Absent => x.uid \in used',
           x # Absent => \A m \in Name, r \in Pod :
                           SeenAt(m, r) /\ r.uid = x.uid => m = n /\ r.node = NoNode
    PROVE  ChainInv'
<1> DEFINE ev == [name |-> n, pod |-> x, tomb |-> FALSE]
<1>1. /\ pods \in [Name -> Pod \union {Absent}] /\ known \in [Name -> Pod \union {Absent}]
      /\ store \in [Name -> Pod \union {Absent}] /\ queue \in Seq(Event) /\ ev \in Event
  BY DEF PodTypeOK, Event
<1>2. Len(queue) \in Nat /\ \A i \in 1 .. Len(queue) : queue[i] \in Event
  BY <1>1, SeqFacts
<1>3. pods' = [pods EXCEPT ![n] = x] /\ known' = known
  BY DEF Change, table
<1>4. \/ running /\ connected /\ queue' = Append(queue, ev) /\ store' = [store EXCEPT ![n] = x]
      \/ ~ (running /\ connected) /\ queue' = queue /\ store' = store
  BY DEF Change
<1>5. connected' = connected /\ running' = running
  BY DEF Change
<1>6. ev.name = n /\ ev.pod = x
  OBVIOUS
<1> HIDE DEF ev
<1>70. running /\ connected =>
        /\ Len(queue') = Len(queue) + 1
        /\ \A i \in 1 .. Len(queue) : queue'[i] = queue[i]
        /\ queue'[Len(queue) + 1] = ev
  BY <1>1, <1>4, AppendFacts
<1>7. ASSUME NEW i \in 1 .. Len(queue')
      PROVE  \/ i \in 1 .. Len(queue) /\ queue'[i] = queue[i]
             \/ queue'[i] = ev /\ i = Len(queue) + 1
  <2>1. CASE running /\ connected
    BY <1>2, <1>70, <2>1
  <2>2. CASE ~ (running /\ connected)
    BY <1>4, <2>2
  <2> QED
    BY <2>1, <2>2
<1>8. ASSUME NEW m \in Name, NEW r \in Pod, SeenAt(m, r)'
      PROVE  SeenAt(m, r) \/ (m = n /\ r = x)
  <2>1. CASE r = pods'[m] \/ r = known'[m]
    BY <1>1, <1>3, <1>8, <2>1 DEF SeenAt
  <2>2. CASE \E i \in 1 .. Len(queue') : queue'[i].name = m /\ queue'[i].pod = r
    BY <1>6, <1>7, <1>8, <2>2 DEF SeenAt
  <2> QED
    BY <1>8, <2>1, <2>2 DEF SeenAt
<1>9. OneName'
  <2>1. ASSUME NEW m \in Name, NEW r \in Pod, SeenAt(m, r)' PROVE r.uid \in used'
    <3>1. r # Absent
      BY <2>1 DEF SeenAt
    <3> QED
      BY <1>8, <2>1, <3>1 DEF ChainInv, OneName
  <2>2. ASSUME NEW m \in Name, NEW k \in Name, NEW r \in Pod, NEW q \in Pod,
               SeenAt(m, r)', SeenAt(k, q)', r.uid = q.uid
        PROVE  m = k
    <3>1. SeenAt(m, r) \/ (m = n /\ r = x)
      BY <1>8, <2>2
    <3>2. SeenAt(k, q) \/ (k = n /\ q = x)
      BY <1>8, <2>2
    <3>3. r # Absent /\ q # Absent
      BY <2>2 DEF SeenAt
    <3> QED
      BY <2>2, <3>1, <3>2, <3>3 DEF ChainInv, OneName
  <2> QED
    BY <2>1, <2>2 DEF OneName
<1>10. ASSUME NEW r, SeenAt(n, r), r \in Pod
       PROVE  Later(r, x)
  BY <1>10 DEF Later
<1>11. InTime'
  <2>1. ASSUME NEW m \in Name PROVE Later(known'[m], pods'[m])
    <3>1. CASE m = n
      BY <1>1, <1>3, <1>10, <3>1 DEF SeenAt, Later
    <3>2. CASE m # n
      BY <1>1, <1>3, <3>2 DEF ChainInv, InTime, Later
    <3> QED
      BY <3>1, <3>2
  <2>2. ASSUME NEW i \in 1 .. Len(queue)
        PROVE  Later(queue[i].pod, pods'[queue[i].name])
    <3>1. CASE queue[i].name = n
      <4>1. Later(queue[i].pod, x)
        BY <1>2, <1>10, <3>1 DEF SeenAt, Later, Event
      <4> QED
        BY <1>1, <1>3, <3>1, <4>1
    <3>2. CASE queue[i].name # n
      <4>1. pods'[queue[i].name] = pods[queue[i].name]
        BY <1>1, <1>2, <1>3, <3>2 DEF Event
      <4> QED
        BY <4>1 DEF ChainInv, InTime, Later
    <3> QED
      BY <3>1, <3>2
  <2>3. Later(known'[n], x)
    BY <1>1, <1>3, <1>10 DEF SeenAt, Later
  <2>4. ASSUME NEW i \in 1 .. Len(queue) PROVE queue[i].name = n => Later(queue[i].pod, x)
    BY <1>2, <1>10 DEF SeenAt, Later, Event
  <2>5. Later(x, pods'[n])
    BY <1>1, <1>3 DEF Later
  <2>6. ASSUME NEW i \in 1 .. Len(queue')
        PROVE  /\ Later(known'[queue'[i].name], queue'[i].pod)
               /\ Later(queue'[i].pod, pods'[queue'[i].name])
    BY <1>3, <1>6, <1>7, <2>2, <2>3, <2>5 DEF ChainInv, InTime
  <2>7. ASSUME NEW i \in 1 .. Len(queue'), NEW j \in 1 .. Len(queue'), i < j,
               queue'[i].name = queue'[j].name
        PROVE  Later(queue'[i].pod, queue'[j].pod)
    <3>1. i \in 1 .. Len(queue) /\ queue'[i] = queue[i]
      <4>1. j \in 1 .. Len(queue) + 1
        BY <1>2, <1>7
      <4> QED
        BY <1>2, <1>7, <2>7, <4>1
    <3>2. CASE queue'[j] = ev
      BY <1>6, <2>4, <2>7, <3>1, <3>2
    <3>3. CASE j \in 1 .. Len(queue) /\ queue'[j] = queue[j]
      BY <2>7, <3>1, <3>3 DEF ChainInv, InTime
    <3> QED
      BY <1>7, <3>2, <3>3
  <2> QED
    BY <2>1, <2>6, <2>7 DEF InTime, Later
<1>12. StoreOK'
  <2>1. CASE ~ (running /\ connected)
    <3>1. queue' = queue /\ store' = store
      BY <1>4, <2>1
    <3> QED
      BY <1>3, <1>5, <2>1, <3>1 DEF ChainInv, StoreOK
  <2>2. CASE running /\ connected
    <3>1. queue' = Append(queue, ev) /\ store' = [store EXCEPT ![n] = x] /\ store = pods
      BY <1>4, <2>2 DEF ChainInv, StoreOK
    <3>2. /\ Len(queue') = Len(queue) + 1 /\ Len(queue) \in Nat
          /\ \A i \in 1 .. Len(queue) : queue'[i] = queue[i]
          /\ queue'[Len(queue) + 1] = ev
      BY <1>2, <1>70, <2>2
    <3>3. store' = pods'
      BY <1>3, <3>1
    <3>4. ASSUME NEW m \in Name, \A i \in 1 .. Len(queue') : queue'[i].name # m
          PROVE  store'[m] = known'[m]
      <4>1. m # n
        BY <1>6, <3>2, <3>4
      <4>2. \A i \in 1 .. Len(queue) : queue[i].name # m
        BY <3>2, <3>4
      <4> QED
        BY <1>1, <1>3, <3>1, <4>1, <4>2 DEF ChainInv, StoreOK
    <3>5. ASSUME NEW i \in 1 .. Len(queue'),
                 \A j \in 1 .. Len(queue') : i < j => queue'[j].name # queue'[i].name
          PROVE  store'[queue'[i].name] = queue'[i].pod
      <4>1. CASE queue'[i] = ev
        BY <1>1, <1>6, <3>1, <4>1
      <4>2. CASE i \in 1 .. Len(queue) /\ queue'[i] = queue[i]
        <5>1. queue[i].name # n
          BY <1>6, <3>2, <3>5, <4>2
        <5>2. \A j \in 1 .. Len(queue) : i < j => queue[j].name # queue[i].name
          BY <3>2, <3>5, <4>2
        <5>3. store[queue[i].name] = queue[i].pod
          BY <4>2, <5>2 DEF ChainInv, StoreOK
        <5>4. queue[i].name \in Name
          BY <1>2, <4>2 DEF Event
        <5> QED
          BY <1>1, <3>1, <4>2, <5>1, <5>3, <5>4
      <4> QED
        BY <1>7, <4>1, <4>2
    <3> QED
      BY <3>3, <3>4, <3>5 DEF StoreOK
  <2> QED
    BY <2>1, <2>2
<1> QED
  BY <1>9, <1>11, <1>12 DEF ChainInv

\* The API server's steps.
LEMMA ServerChain ==
    ASSUME PodTypeOK, ChainInv, NEW n \in Name,
           \/ \E u \in Uid, node \in {NoNode, "here", "other"} : CreatePod(n, u, node)
           \/ \E node \in {"here", "other"} : SchedulePod(n, node)
           \/ DeletePod(n)
    PROVE  ChainInv'
<1>1. ASSUME NEW u \in Uid, NEW node \in {NoNode, "here", "other"}, CreatePod(n, u, node)
      PROVE  ChainInv'
  <2>1. PICK x \in Pod : x = [uid |-> u, node |-> node]
    BY DEF Pod
  <2>2. x.uid = u
    BY <2>1
  <2>3. Change(n, x) /\ used \subseteq used' /\ x.uid \in used' /\ u \notin used
    BY <1>1, <2>1, <2>2 DEF CreatePod
  <2>4. \A m \in Name, r \in Pod : SeenAt(m, r) => r.uid # x.uid
    BY <2>2, <2>3 DEF ChainInv, OneName
  <2> QED
    BY <2>3, <2>4, ChangeChain
<1>2. ASSUME NEW node \in {"here", "other"}, SchedulePod(n, node)
      PROVE  ChainInv'
  <2>1. /\ pods[n] # Absent /\ pods[n] \in Pod /\ pods[n].node = NoNode /\ used' = used
        /\ Change(n, [uid |-> pods[n].uid, node |-> node])
    BY <1>2 DEF SchedulePod, PodTypeOK
  <2>2. PICK x \in Pod : x = [uid |-> pods[n].uid, node |-> node]
    BY <2>1 DEF Pod
  <2>3. x.uid = pods[n].uid /\ Change(n, x)
    BY <2>1, <2>2
  <2>4. SeenAt(n, pods[n])
    BY <2>1 DEF SeenAt
  <2>5. x.uid \in used'
    BY <2>1, <2>3, <2>4 DEF ChainInv, OneName
  <2>6. ASSUME NEW m \in Name, NEW r \in Pod, SeenAt(m, r), r.uid = x.uid
        PROVE  m = n /\ r.node = NoNode
    <3>1. m = n
      BY <2>1, <2>3, <2>4, <2>6 DEF ChainInv, OneName
    <3>2. Later(r, pods[n])
      BY <2>6, <3>1 DEF ChainInv, InTime, SeenAt, Later
    <3> QED
      BY <2>1, <2>3, <2>6, <3>1, <3>2 DEF Later, SeenAt
  <2> QED
    BY <2>1, <2>3, <2>5, <2>6, ChangeChain
<1>3. ASSUME DeletePod(n)
      PROVE  ChainInv'
  <2>1. Change(n, Absent) /\ used' = used
    BY <1>3 DEF DeletePod
  <2> QED
    BY <2>1, ChangeChain
<1> QED
  BY <1>1, <1>2, <1>3

\* The watch comes back: the list is queued after the events on the way.
LEMMA RelistChain ==
    ASSUME PodTypeOK, ChainInv, Relist
    PROVE  ChainInv'
<1>1. PICK l \in ListEvents(store) : queue' = queue \o l
  BY DEF Relist
<1>2. /\ pods \in [Name -> Pod \union {Absent}] /\ known \in [Name -> Pod \union {Absent}]
      /\ store \in [Name -> Pod \union {Absent}] /\ queue \in Seq(Event)
  BY DEF PodTypeOK, Event
<1>3. /\ l \in Seq(Event)
      /\ \A i \in 1 .. Len(l) : l[i].name \in Name /\ l[i].pod = pods[l[i].name]
      /\ \A n \in Name : pods[n] # Absent \/ store[n] # Absent =>
           \E i \in 1 .. Len(l) : l[i].name = n
  BY <1>2, ListedNames
<1>4. pods' = pods /\ known' = known /\ store' = pods /\ used' = used
  BY DEF Relist, cluster, table
<1>5. PICK k \in Nat : k = Len(queue)
  BY <1>2, SeqFacts
<1>6. /\ Len(queue') = k + Len(l) /\ Len(l) \in Nat
      /\ \A i \in 1 .. k : queue'[i] = queue[i]
      /\ \A i \in 1 .. Len(l) : queue'[k + i] = l[i]
  BY <1>1, <1>2, <1>3, <1>5, SeqFacts, ConcatFacts
<1>7. \A i \in 1 .. k : queue[i].name \in Name
  <2>1. \A i \in 1 .. k : queue[i] \in Event
    BY <1>2, <1>5, SeqFacts
  <2> QED
    BY <2>1 DEF Event
<1>8. ASSUME NEW i \in 1 .. Len(queue')
      PROVE  \/ i \in 1 .. k /\ queue'[i] = queue[i]
             \/ i > k /\ queue'[i].name \in Name /\ queue'[i].pod = pods[queue'[i].name]
  <2>1. CASE i <= k
    BY <1>6, <2>1
  <2>2. CASE i > k
    <3>1. PICK j \in 1 .. Len(l) : i = k + j
      <4>1. i - k \in 1 .. Len(l) /\ i = k + (i - k)
        BY <1>6, <2>2
      <4> QED
        BY <4>1
    <3>2. queue'[i] = l[j]
      BY <1>6, <3>1
    <3> QED
      BY <1>3, <2>2, <3>2
  <2> QED
    BY <2>1, <2>2
<1>9. ASSUME NEW m \in Name, NEW r \in Pod, SeenAt(m, r)' PROVE SeenAt(m, r)
  BY <1>4, <1>5, <1>8, <1>9 DEF SeenAt
<1>10. OneName'
  BY <1>4, <1>9 DEF ChainInv, OneName
<1>11. InTime'
  <2>1. ASSUME NEW i \in 1 .. Len(queue')
        PROVE  /\ Later(known[queue'[i].name], queue'[i].pod)
               /\ Later(queue'[i].pod, pods[queue'[i].name])
    BY <1>5, <1>8 DEF ChainInv, InTime, Later
  <2>2. ASSUME NEW i \in 1 .. Len(queue'), NEW j \in 1 .. Len(queue'), i < j,
               queue'[i].name = queue'[j].name
        PROVE  Later(queue'[i].pod, queue'[j].pod)
    <3>1. CASE j > k
      <4>1. queue'[j].pod = pods[queue'[j].name]
        BY <1>8, <3>1
      <4> QED
        BY <2>1, <2>2, <4>1
    <3>2. CASE j <= k
      <4>1. i \in 1 .. k /\ j \in 1 .. k /\ queue'[i] = queue[i] /\ queue'[j] = queue[j]
        BY <1>6, <2>2, <3>2
      <4> QED
        BY <1>5, <2>2, <4>1 DEF ChainInv, InTime
    <3> QED
      BY <1>6, <3>1, <3>2
  <2> QED
    BY <1>4, <2>1, <2>2 DEF ChainInv, InTime, Later
<1>12. StoreOK'
  <2>1. ASSUME NEW n \in Name, \A i \in 1 .. Len(queue') : queue'[i].name # n
        PROVE  pods[n] = known[n]
    <3>1. \A i \in 1 .. Len(l) : l[i].name # n
      <4> SUFFICES ASSUME NEW i \in 1 .. Len(l) PROVE l[i].name # n
        OBVIOUS
      <4>1. k + i \in 1 .. Len(queue')
        BY <1>6
      <4> QED
        BY <1>6, <2>1, <4>1
    <3>2. pods[n] = Absent /\ store[n] = Absent
      BY <1>3, <3>1
    <3>3. \A i \in 1 .. k : queue[i].name # n
      BY <1>6, <2>1
    <3>4. store[n] = known[n]
      BY <1>5, <3>3 DEF ChainInv, StoreOK
    <3> QED
      BY <3>2, <3>4
  <2>2. ASSUME NEW i \in 1 .. Len(queue'),
               \A j \in 1 .. Len(queue') : i < j => queue'[j].name # queue'[i].name
        PROVE  pods[queue'[i].name] = queue'[i].pod
    <3>1. CASE i > k
      BY <1>8, <3>1
    <3>2. CASE i \in 1 .. k /\ queue'[i] = queue[i]
      <4>1. PICK n \in Name : n = queue[i].name
        BY <1>7, <3>2
      <4>2. \A j \in 1 .. Len(l) : l[j].name # n
        <5> SUFFICES ASSUME NEW j \in 1 .. Len(l) PROVE l[j].name # n
          OBVIOUS
        <5>1. k + j \in 1 .. Len(queue') /\ i < k + j
          BY <1>6, <3>2
        <5> QED
          BY <1>6, <2>2, <3>2, <4>1, <5>1
      <4>3. pods[n] = Absent /\ store[n] = Absent
        BY <1>3, <4>2
      <4>4. \A j \in 1 .. k : i < j => queue[j].name # queue[i].name
        BY <1>6, <2>2, <3>2
      <4>5. store[n] = queue[i].pod
        BY <1>5, <3>2, <4>1, <4>4 DEF ChainInv, StoreOK
      <4> QED
        BY <3>2, <4>1, <4>3, <4>5
    <3> QED
      BY <1>8, <3>1, <3>2
  <2> QED
    BY <1>4, <2>1, <2>2 DEF StoreOK
<1> QED
  BY <1>10, <1>11, <1>12 DEF ChainInv

\* A new process lists and knows nothing.
LEMMA RestartChain ==
    ASSUME PodTypeOK, ChainInv, Restart
    PROVE  ChainInv' /\ queue' \in Seq(Event)
<1>1. NoPods \in [Name -> Pod \union {Absent}] /\ \A n \in Name : NoPods[n] = Absent
  BY DEF NoPods
<1>2. pods \in [Name -> Pod \union {Absent}]
  BY DEF PodTypeOK
<1>3. pods' = pods /\ known' = NoPods /\ store' = pods /\ used' = used /\ queue' \in ListEvents(NoPods)
  BY DEF Restart, cluster
<1>4. PICK l \in ListEvents(NoPods) : l = queue'
  BY <1>3
<1>5. /\ l \in Seq(Event)
      /\ \A i \in 1 .. Len(l) : l[i].name \in Name /\ l[i].pod = pods[l[i].name]
      /\ \A n \in Name : pods[n] # Absent => \E i \in 1 .. Len(l) : l[i].name = n
  BY <1>1, <1>2, ListedNames
<1>6. OneName'
  <2>1. ASSUME NEW m \in Name, NEW r \in Pod, SeenAt(m, r)' PROVE SeenAt(m, r)
    BY <1>1, <1>3, <1>4, <1>5, <2>1 DEF SeenAt
  <2> QED
    BY <1>3, <2>1 DEF ChainInv, OneName
<1>7. InTime'
  BY <1>1, <1>3, <1>4, <1>5 DEF InTime, Later
<1>8. StoreOK'
  BY <1>1, <1>3, <1>4, <1>5 DEF StoreOK
<1> QED
  BY <1>4, <1>5, <1>6, <1>7, <1>8 DEF ChainInv

\* The handlers take the first event.
LEMMA TakeChain ==
    ASSUME PodTypeOK, ChainInv, TakeEvent
    PROVE  ChainInv' /\ WorkerOK'
<1>1. /\ pods \in [Name -> Pod \union {Absent}] /\ known \in [Name -> Pod \union {Absent}]
      /\ store \in [Name -> Pod \union {Absent}] /\ queue \in Seq(Event) /\ queue # << >>
  BY DEF PodTypeOK, Event, TakeEvent
<1>2. /\ Head(queue) \in Event /\ Head(queue) = queue[1] /\ 1 \in 1 .. Len(queue)
      /\ Len(Tail(queue)) = Len(queue) - 1 /\ Len(queue) \in Nat
      /\ \A i \in 1 .. Len(Tail(queue)) : i + 1 \in 1 .. Len(queue) /\ Tail(queue)[i] = queue[i + 1]
  BY <1>1, TailFacts, SeqFacts
<1>3. PICK n \in Name, x \in Pod \union {Absent} : queue[1].name = n /\ queue[1].pod = x
  BY <1>2 DEF Event
<1>4. /\ pods' = pods /\ used' = used /\ store' = store /\ connected' = connected
      /\ running' = running /\ queue' = Tail(queue) /\ known' = [known EXCEPT ![n] = x]
      /\ worker' = <<[old |-> known[n], new |-> x]>>
  BY <1>2, <1>3 DEF TakeEvent, cluster, watch
<1>5. PICK k \in Nat : Len(queue') = k /\ Len(queue) = k + 1
  <2>1. Len(queue) - 1 \in Nat /\ Len(queue) = (Len(queue) - 1) + 1
    BY <1>2
  <2>2. Len(queue') = Len(queue) - 1
    BY <1>2, <1>4
  <2> QED
    BY <2>1, <2>2
<1>6. \A i \in 1 .. k : i + 1 \in 1 .. Len(queue) /\ queue'[i] = queue[i + 1]
  BY <1>2, <1>4, <1>5
<1>7. SeenAt(n, x) \/ x = Absent
  BY <1>2, <1>3 DEF SeenAt
<1>8. ASSUME NEW m \in Name, NEW r \in Pod, SeenAt(m, r)' PROVE SeenAt(m, r)
  <2>1. CASE r = pods'[m]
    BY <1>4, <1>8, <2>1 DEF SeenAt
  <2>2. CASE r = known'[m]
    BY <1>1, <1>4, <1>7, <1>8, <2>2 DEF SeenAt
  <2>3. CASE \E i \in 1 .. Len(queue') : queue'[i].name = m /\ queue'[i].pod = r
    <3>1. PICK i \in 1 .. k : queue'[i].name = m /\ queue'[i].pod = r
      BY <1>5, <2>3
    <3> QED
      BY <1>6, <1>8, <3>1 DEF SeenAt
  <2> QED
    BY <1>8, <2>1, <2>2, <2>3 DEF SeenAt
<1>9. OneName'
  BY <1>4, <1>8 DEF ChainInv, OneName
<1>10. \A i \in 1 .. k : queue[i + 1].name \in Name
  <2>1. \A i \in 1 .. Len(queue) : queue[i] \in Event
    BY <1>1, SeqFacts
  <2> QED
    BY <1>6, <2>1 DEF Event
<1>11. InTime'
  <2>1. ASSUME NEW m \in Name PROVE Later(known'[m], pods'[m])
    <3>1. Later(x, pods[n])
      BY <1>2, <1>3 DEF ChainInv, InTime
    <3>2. Later(known[m], pods[m])
      BY DEF ChainInv, InTime
    <3> QED
      BY <1>1, <1>4, <3>1, <3>2
  <2>2. ASSUME NEW i \in 1 .. k
        PROVE  /\ Later(known'[queue'[i].name], queue'[i].pod)
               /\ Later(queue'[i].pod, pods'[queue'[i].name])
    <3>1. PICK j \in 1 .. Len(queue) : j = i + 1 /\ queue'[i] = queue[j] /\ queue[j].name \in Name
      BY <1>6, <1>10
    <3>2. /\ Later(known[queue[j].name], queue[j].pod)
          /\ Later(queue[j].pod, pods[queue[j].name])
          /\ queue[1].name = queue[j].name => Later(queue[1].pod, queue[j].pod)
      <4>1. 1 < j
        BY <3>1
      <4> QED
        BY <1>2, <4>1 DEF ChainInv, InTime
    <3> QED
      BY <1>1, <1>3, <1>4, <3>1, <3>2
  <2>3. ASSUME NEW i \in 1 .. k, NEW j \in 1 .. k, i < j, queue'[i].name = queue'[j].name
        PROVE  Later(queue'[i].pod, queue'[j].pod)
    <3>1. i + 1 \in 1 .. Len(queue) /\ j + 1 \in 1 .. Len(queue) /\ i + 1 < j + 1
      BY <1>6, <2>3
    <3>2. queue'[i] = queue[i + 1] /\ queue'[j] = queue[j + 1]
      BY <1>6
    <3> QED
      BY <2>3, <3>1, <3>2 DEF ChainInv, InTime
  <2> QED
    BY <1>5, <2>1, <2>2, <2>3 DEF InTime, Later
<1>12. StoreOK'
  <2>1. ASSUME NEW m \in Name, \A i \in 1 .. k : queue'[i].name # m
        PROVE  store[m] = known'[m]
    <3>1. \A j \in 1 .. Len(queue) : 1 < j => queue[j].name # m
      <4> SUFFICES ASSUME NEW j \in 1 .. Len(queue), 1 < j PROVE queue[j].name # m
        OBVIOUS
      <4>1. PICK i \in 1 .. k : j = i + 1
        <5>1. j - 1 \in 1 .. k /\ j = (j - 1) + 1
          BY <1>5
        <5> QED
          BY <5>1
      <4> QED
        BY <1>6, <2>1, <4>1
    <3>2. CASE m = n
      BY <1>1, <1>2, <1>3, <1>4, <3>1, <3>2 DEF ChainInv, StoreOK
    <3>3. CASE m # n
      <4>1. \A j \in 1 .. Len(queue) : queue[j].name # m
        BY <1>3, <1>5, <3>1, <3>3
      <4> QED
        BY <1>1, <1>4, <3>3, <4>1 DEF ChainInv, StoreOK
    <3> QED
      BY <3>2, <3>3
  <2>2. ASSUME NEW i \in 1 .. k,
               \A j \in 1 .. k : i < j => queue'[j].name # queue'[i].name
        PROVE  store[queue'[i].name] = queue'[i].pod
    <3>1. \A j \in 1 .. Len(queue) : i + 1 < j => queue[j].name # queue[i + 1].name
      <4> SUFFICES ASSUME NEW j \in 1 .. Len(queue), i + 1 < j
                   PROVE  queue[j].name # queue[i + 1].name
        OBVIOUS
      <4>1. PICK h \in 1 .. k : j = h + 1 /\ i < h
        <5>1. j - 1 \in 1 .. k /\ j = (j - 1) + 1 /\ i < j - 1
          BY <1>5
        <5> QED
          BY <5>1
      <4> QED
        BY <1>6, <2>2, <4>1
    <3>2. i + 1 \in 1 .. Len(queue) /\ queue'[i] = queue[i + 1]
      BY <1>6
    <3> QED
      BY <3>1, <3>2 DEF ChainInv, StoreOK
  <2> QED
    BY <1>4, <1>5, <2>1, <2>2 DEF ChainInv, StoreOK
<1>13. WorkerOK'
  <2>1. worker'[1].old = known[n] /\ worker'[1].new = x
    BY <1>4
  <2>2. Later(known[n], x)
    BY <1>2, <1>3 DEF ChainInv, InTime
  <2>3. known'[n] = x
    BY <1>1, <1>4
  <2>4. ASSUME NEW m \in Name \ {n}, known[n] # Absent, known'[m] # Absent
        PROVE  known'[m].uid # known[n].uid
    <3>1. known'[m] = known[m] /\ known[m] \in Pod /\ known[n] \in Pod
      BY <1>1, <1>4, <2>4
    <3>2. SeenAt(m, known[m]) /\ SeenAt(n, known[n])
      BY <2>4, <3>1 DEF SeenAt
    <3> QED
      BY <3>1, <3>2 DEF ChainInv, OneName
  <2> QED
    BY <2>1, <2>2, <2>3, <2>4 DEF WorkerOK, Later
<1> QED
  BY <1>9, <1>11, <1>12, <1>13 DEF ChainInv

LEMMA NodeNames == NoNode # "here" /\ NoNode # "other"
  BY Zenon DEF NoNode

\* The event at the handler's keeps what the table must have in view.
LEMMA TakeTable ==
    ASSUME PodTypeOK, TableOK, TakeEvent
    PROVE  TableOK'
<1>1. /\ known \in [Name -> Pod \union {Absent}] /\ queue \in Seq(Event) /\ queue # << >>
      /\ worker = << >>
  BY DEF PodTypeOK, Event, TakeEvent
<1>2. Head(queue) \in Event
  BY <1>1, TailFacts
<1>3. PICK n \in Name, x \in Pod \union {Absent} : Head(queue).name = n /\ Head(queue).pod = x
  BY <1>2 DEF Event
<1>4. /\ known' = [known EXCEPT ![n] = x] /\ worker' = <<[old |-> known[n], new |-> x]>>
      /\ Pods' = Pods /\ replaced' = replaced
  BY <1>3 DEF TakeEvent
<1>5. worker' # << >> /\ worker'[1].old = known[n] /\ worker'[1].new = x
  BY <1>4
<1>6. ASSUME NEW m \in Name
      PROVE  known'[m] = IF m = n THEN x ELSE known[m]
  BY <1>1, <1>4
<1>7. ASSUME NEW m \in Name, known'[m] # Absent, known'[m].node = "here"
      PROVE  Pods[known'[m].uid] = known'[m] \/ worker'[1].new = known'[m]
  BY <1>1, <1>5, <1>6, <1>7 DEF TableOK
<1>8. ASSUME NEW u \in Uid, Pods[u] # Absent
      PROVE  \/ u \in replaced
             \/ \E m \in Name : known'[m] = Pods[u]
             \/ worker'[1].old = Pods[u]
  BY <1>1, <1>5, <1>6, <1>8 DEF TableOK
<1> QED
  BY <1>4, <1>5, <1>7, <1>8 DEF TableOK

\* The handler's write leaves the table as the events handled make it.
LEMMA WriteTable ==
    ASSUME PodTypeOK, WorkerOK, TableOK, OneName, WritePods
    PROVE  TableOK'
<1>1. /\ known \in [Name -> Pod \union {Absent}]
      /\ worker \in Seq([old : Pod \union {Absent}, new : Pod \union {Absent}]) /\ worker # << >>
      /\ Pods \in [Uid -> Pod \union {Absent}]
      /\ \A u \in Uid : Pods[u] \in {[uid |-> u, node |-> "here"], Absent}
  BY DEF PodTypeOK, WritePods
<1>2. PICK old \in Pod \union {Absent}, new \in Pod \union {Absent} :
        worker[1].old = old /\ worker[1].new = new
  <2>1. PICK W : W = [old : Pod \union {Absent}, new : Pod \union {Absent}]
    OBVIOUS
  <2>2. worker[1] \in W
    <3>1. worker \in Seq(W) /\ worker # << >>
      BY <1>1, <2>1
    <3> QED
      BY <3>1
  <2> QED
    BY <2>1, <2>2
<1>3. /\ Pods' = (IF new # Absent THEN Put(old, new)
                 ELSE IF old # Absent THEN Remove(old) ELSE Pods)
      /\ replaced' = (IF old # Absent /\ new # Absent /\ old.uid # new.uid
                     THEN replaced \union {old.uid} ELSE replaced)
      /\ worker' = << >> /\ known' = known
  BY <1>2 DEF WritePods
<1>4. PICK n \in Name :
        /\ known[n] = new
        /\ \A m \in Name \ {n} : old # Absent /\ known[m] # Absent => known[m].uid # old.uid
  BY <1>1, <1>2 DEF WorkerOK
<1>5. Later(old, new)
  BY <1>1, <1>2 DEF WorkerOK
<1>6. \A r \in Pod : r.uid \in Uid /\ r # Absent
  BY ConstantsAssumption DEF Pod
<1>7. \A u \in Uid : Pods[u] # Absent => Pods[u] \in Pod /\ Pods[u].uid = u /\ Pods[u].node = "here"
  BY <1>1
<1>8. ASSUME NEW u \in Uid
      PROVE  Pods'[u] = IF new # Absent /\ new.node = "here" /\ new.uid = u THEN new
                        ELSE IF new = Absent /\ old # Absent /\ old.node = "here" /\ old.uid = u
                        THEN Absent ELSE Pods[u]
  BY <1>1, <1>3, <1>6 DEF Put, Remove
<1>9. ASSUME NEW m \in Name, m # n, known[m] # Absent, known[m].node = "here"
      PROVE  Pods'[known[m].uid] = known[m]
  <2>1. known[m] \in Pod /\ known[m].uid \in Uid
    BY <1>1, <1>6, <1>9
  <2>2. SeenAt(m, known[m])
    BY <1>9 DEF SeenAt
  <2>3. new # Absent => new \in Pod /\ new.uid # known[m].uid
    <3>1. new # Absent => new \in Pod /\ SeenAt(n, new)
      BY <1>4 DEF SeenAt
    <3> QED
      BY <1>9, <2>1, <2>2, <3>1 DEF OneName
  <2>4. old # Absent => old.uid # known[m].uid
    BY <1>4, <1>9
  <2>5. Pods[known[m].uid] = known[m]
    BY <1>2, <1>6, <1>9, <2>3, <2>1 DEF TableOK
  <2> QED
    BY <1>8, <2>1, <2>3, <2>4, <2>5
<1>10. ASSUME known[n] # Absent, known[n].node = "here"
       PROVE  Pods'[known[n].uid] = known[n]
  BY <1>4, <1>6, <1>8, <1>10
<1>11. ASSUME NEW u \in Uid, Pods'[u] # Absent
       PROVE  u \in replaced' \/ \E m \in Name : known[m] = Pods'[u]
  <2>1. CASE Pods'[u] = new
    BY <1>4, <2>1
  <2>2. CASE Pods'[u] = Pods[u] /\ Pods'[u] # new
    <3>1. \/ u \in replaced \/ \E m \in Name : known[m] = Pods[u]
          \/ old = Pods[u]
      BY <1>2, <1>11, <2>2 DEF TableOK
    <3>2. replaced \subseteq replaced'
      BY <1>3
    <3>3. ASSUME old = Pods[u] PROVE u \in replaced'
      <4>1. old # Absent /\ old.uid = u /\ old.node = "here" /\ old.node # NoNode
        BY <1>7, <1>11, <2>2, <3>3, NodeNames
      <4>2. new # Absent
        BY <1>8, <1>11, <4>1
      <4>3. old.uid # new.uid
        BY <1>5, <2>2, <3>3, <4>1, <4>2 DEF Later
      <4> QED
        BY <1>3, <4>1, <4>2, <4>3
    <3> QED
      BY <2>2, <3>1, <3>2, <3>3
  <2> QED
    BY <1>8, <1>11, <2>1, <2>2
<1> QED
  BY <1>3, <1>9, <1>10, <1>11 DEF TableOK

\* Types.
LEMMA PodTypeStep ==
    ASSUME PodTypeOK, PodNext \/ Crash
    PROVE  PodTypeOK'
<1> DEFINE P == Pod \union {Absent}
           W == [old : P, new : P]
<1>1. /\ pods \in [Name -> P] /\ used \subseteq Uid /\ connected \in BOOLEAN /\ running \in BOOLEAN
      /\ store \in [Name -> P] /\ known \in [Name -> P] /\ queue \in Seq(Event)
      /\ worker \in Seq(W) /\ replaced \subseteq Uid
      /\ Pods \in [Uid -> P] /\ \A u \in Uid : Pods[u] \in {[uid |-> u, node |-> "here"], Absent}
  BY DEF PodTypeOK, Event
<1>2. ASSUME NEW n \in Name, NEW x \in P, Change(n, x), used' \subseteq Uid
      PROVE  PodTypeOK'
  <2>1. queue' \in Seq(Event)
    <3>1. PICK ev \in Event : ev = [name |-> n, pod |-> x, tomb |-> FALSE]
      BY DEF Event
    <3>2. queue' = queue \/ queue' = Append(queue, ev)
      BY <1>2, <3>1 DEF Change
    <3> QED
      BY <1>1, <3>2, AppendFacts
  <2>2. pods' \in [Name -> P] /\ store' \in [Name -> P]
    BY <1>1, <1>2 DEF Change
  <2>3. connected' = connected /\ running' = running /\ known' = known /\ worker' = worker
        /\ Pods' = Pods /\ replaced' = replaced
    BY <1>2 DEF Change, table
  <2> QED
    BY <1>1, <1>2, <2>1, <2>2, <2>3 DEF PodTypeOK, Event
<1>3. ASSUME NEW n \in Name,
             \/ \E u \in Uid, node \in {NoNode, "here", "other"} : CreatePod(n, u, node)
             \/ \E node \in {"here", "other"} : SchedulePod(n, node)
             \/ DeletePod(n)
      PROVE  PodTypeOK'
  <2>1. ASSUME NEW u \in Uid, NEW node \in {NoNode, "here", "other"}, CreatePod(n, u, node)
        PROVE  PodTypeOK'
    <3>1. PICK x \in P : x = [uid |-> u, node |-> node]
      BY DEF Pod
    <3> QED
      BY <1>1, <1>2, <2>1, <3>1 DEF CreatePod
  <2>2. ASSUME NEW node \in {"here", "other"}, SchedulePod(n, node)
        PROVE  PodTypeOK'
    <3>1. pods[n].uid \in Uid
      BY <1>1, <2>2 DEF SchedulePod, Pod
    <3>2. PICK x \in P : x = [uid |-> pods[n].uid, node |-> node]
      BY <3>1 DEF Pod
    <3> QED
      BY <1>1, <1>2, <2>2, <3>2 DEF SchedulePod
  <2>3. ASSUME DeletePod(n) PROVE PodTypeOK'
    BY <1>1, <1>2, <2>3 DEF DeletePod
  <2> QED
    BY <1>3, <2>1, <2>2, <2>3
<1>4. CASE Disconnect
  BY <1>1, <1>4 DEF Disconnect, cluster, table, PodTypeOK, Event
<1>5. CASE Relist
  <2>1. PICK l \in ListEvents(store) : queue' = queue \o l
    BY <1>5 DEF Relist
  <2>2. l \in Seq(Event)
    BY <1>1, ListedNames
  <2>3. queue' \in Seq(Event)
    BY <1>1, <2>1, <2>2, ConcatFacts
  <2> QED
    BY <1>1, <1>5, <2>3 DEF Relist, cluster, table, PodTypeOK, Event
<1>6. CASE Restart
  <2>1. NoPods \in [Name -> P]
    BY DEF NoPods
  <2>2. queue' \in Seq(Event)
    BY <1>1, <1>6, <2>1, ListedNames DEF Restart
  <2>3. << >> \in Seq(W)
    OBVIOUS
  <2> QED
    BY <1>1, <1>6, <2>1, <2>2, <2>3 DEF Restart, cluster, PodTypeOK, Event
<1>7. CASE TakeEvent
  <2>1. Head(queue) \in Event /\ Tail(queue) \in Seq(Event)
    BY <1>1, <1>7, TailFacts DEF TakeEvent
  <2>2. PICK n \in Name, x \in P : Head(queue).name = n /\ Head(queue).pod = x
    BY <2>1 DEF Event
  <2>3. PICK w \in W : w = [old |-> known[n], new |-> x]
    BY <1>1
  <2>4. known' = [known EXCEPT ![n] = x] /\ worker' = <<w>> /\ queue' = Tail(queue)
    BY <1>7, <2>2, <2>3 DEF TakeEvent
  <2>5. <<w>> \in Seq(W)
    OBVIOUS
  <2>6. UNCHANGED <<pods, used, connected, store, running, replaced, Pods>>
    BY <1>7 DEF TakeEvent, cluster, watch
  <2> QED
    BY <1>1, <2>1, <2>4, <2>5, <2>6 DEF PodTypeOK, Event
<1>8. CASE Crash
  BY <1>1, <1>8 DEF Crash, cluster, watch, table, PodTypeOK, Event
<1>9. CASE WritePods
  <2>1. worker[1] \in W
    <3> HIDE DEF W
    <3> QED
      BY <1>1, <1>9 DEF WritePods
  <2>2. PICK old \in P, new \in P : worker[1].old = old /\ worker[1].new = new
    BY <2>1
  <2>3. /\ Pods' = (IF new # Absent THEN Put(old, new)
                   ELSE IF old # Absent THEN Remove(old) ELSE Pods)
        /\ replaced' = (IF old # Absent /\ new # Absent /\ old.uid # new.uid
                       THEN replaced \union {old.uid} ELSE replaced)
    BY <1>9, <2>2 DEF WritePods
  <2>4. \A r \in Pod : r.uid \in Uid
    BY DEF Pod
  <2>5. replaced' \subseteq Uid
    BY <1>1, <2>3, <2>4
  <2>6. \A r \in Pod : r.node = "here" => r = [uid |-> r.uid, node |-> "here"]
    BY DEF Pod
  <2>7. Pods' \in [Uid -> P]
    BY <1>1, <2>3, <2>4 DEF Put, Remove
  <2>8. ASSUME NEW u \in Uid PROVE Pods'[u] \in {[uid |-> u, node |-> "here"], Absent}
    <3>1. \/ Pods'[u] = Pods[u] \/ Pods'[u] = Absent
          \/ new \in Pod /\ new.node = "here" /\ Pods'[u] = new /\ new.uid = u
      BY <1>1, <2>3, <2>4 DEF Put, Remove
    <3> QED
      BY <1>1, <2>6, <3>1
  <2>9. worker' \in Seq(W)
    BY <1>9 DEF WritePods
  <2>10. UNCHANGED <<pods, used, connected, store, queue, known, running>>
    BY <1>9 DEF WritePods, cluster, watch
  <2> QED
    BY <1>1, <2>5, <2>7, <2>8, <2>9, <2>10 DEF PodTypeOK, Event
<1>10. ASSUME PodNext PROVE PodTypeOK'
  BY <1>3, <1>4, <1>5, <1>6, <1>7, <1>8, <1>9, <1>10 DEF PodNext, Handle, TakeTombstone
<1> QED
  BY <1>8, <1>10

-----------------------------------------------------------------------------
(* Every step keeps the invariant. *)

\* What a step leaves alone keeps what is said of it.
LEMMA ChainUnchanged ==
    ASSUME ChainInv, UNCHANGED <<pods, used, connected, store, queue, known, running>>
    PROVE  ChainInv'
  BY DEF ChainInv, OneName, InTime, StoreOK, SeenAt, Later

LEMMA TableUnchanged ==
    ASSUME WorkerOK, TableOK, UNCHANGED table
    PROVE  WorkerOK' /\ TableOK'
  BY DEF WorkerOK, TableOK, table, Later

LEMMA PodInvInit ==
    ASSUME PodInit
    PROVE  PodInv
<1>1. NoPods \in [Name -> Pod \union {Absent}] /\ \A n \in Name : NoPods[n] = Absent
  BY DEF NoPods
<1>2. PodTypeOK
  BY <1>1 DEF PodInit, PodTypeOK
<1>3. ChainInv
  BY <1>1 DEF PodInit, ChainInv, OneName, InTime, StoreOK, SeenAt, Later
<1>4. WorkerOK /\ TableOK
  BY <1>1 DEF PodInit, WorkerOK, TableOK
<1> QED
  BY <1>2, <1>3, <1>4 DEF PodInv

LEMMA PodInvStep ==
    ASSUME PodInv, PodNext \/ Crash
    PROVE  PodInv'
<1> USE DEF PodInv
<1>1. PodTypeOK'
  BY PodTypeStep
<1>2. ASSUME NEW n \in Name,
             \/ \E u \in Uid, node \in {NoNode, "here", "other"} : CreatePod(n, u, node)
             \/ \E node \in {"here", "other"} : SchedulePod(n, node)
             \/ DeletePod(n)
      PROVE  PodInv'
  <2>1. ChainInv'
    BY <1>2, ServerChain
  <2>2. UNCHANGED table
    BY <1>2 DEF CreatePod, SchedulePod, DeletePod, Change
  <2> QED
    BY <1>1, <2>1, <2>2, TableUnchanged
<1>3. CASE Disconnect
  <2>1. ChainInv'
    BY <1>3 DEF Disconnect, cluster, table, ChainInv, OneName, InTime, StoreOK, SeenAt, Later
  <2>2. UNCHANGED table
    BY <1>3 DEF Disconnect
  <2> QED
    BY <1>1, <2>1, <2>2, TableUnchanged
<1>4. CASE Relist
  <2>1. UNCHANGED table
    BY <1>4 DEF Relist
  <2> QED
    BY <1>1, <1>4, <2>1, RelistChain, TableUnchanged
<1>5. CASE Restart
  <2>1. WorkerOK' /\ TableOK'
    BY <1>5 DEF Restart, NoPods, WorkerOK, TableOK
  <2> QED
    BY <1>1, <1>5, <2>1, RestartChain
<1>6. CASE TakeEvent
  BY <1>1, <1>6, TakeChain, TakeTable
<1>7. CASE Crash
  <2>1. ChainInv'
    BY <1>7 DEF Crash, cluster, watch, table, ChainInv, OneName, InTime, StoreOK, SeenAt, Later
  <2>2. UNCHANGED table
    BY <1>7 DEF Crash
  <2> QED
    BY <1>1, <2>1, <2>2, TableUnchanged
<1>8. CASE WritePods
  <2>1. ChainInv'
    BY <1>8, ChainUnchanged DEF WritePods, cluster, watch
  <2>2. WorkerOK'
    BY <1>8 DEF WritePods, WorkerOK
  <2> QED
    BY <1>1, <1>8, <2>1, <2>2, WriteTable DEF ChainInv
<1>9. ASSUME PodNext PROVE PodInv'
  BY <1>2, <1>3, <1>4, <1>5, <1>6, <1>7, <1>8, <1>9 DEF PodNext, Handle, TakeTombstone
<1> QED
  BY <1>7, <1>9

LEMMA PodInvUnchanged ==
    ASSUME PodInv, UNCHANGED podVars
    PROVE  PodInv'
<1>1. PodTypeOK'
  BY DEF PodInv, PodTypeOK, podVars, cluster, watch, table
<1>2. ChainInv'
  BY ChainUnchanged DEF PodInv, podVars, cluster, watch, table
<1>3. WorkerOK' /\ TableOK'
  BY TableUnchanged DEF PodInv, podVars
<1> QED
  BY <1>1, <1>2, <1>3 DEF PodInv

\* Every step of the composition is one of these for the table.
LEMMA NextPods ==
    ASSUME [Next]_vars
    PROVE  PodNext \/ Crash \/ UNCHANGED podVars
  BY DEF Next, PodStep, StartProcess, EndProcess, kprobe__oom_kill_process, BacklogFull, Output,
         Decode, Read, getCommByPid, LookupId, Deliver, ConcurrentMapAccess, vars

\* Once every event is handled, what the handlers know is what the API server
\* has.
LEMMA KnownWhenQuiescent ==
    ASSUME PodInv, Quiescent, NEW n \in Name
    PROVE  known[n] = pods[n]
<1>1. Len(queue) = 0
  BY DEF Quiescent
<1> QED
  BY <1>1 DEF PodInv, ChainInv, StoreOK, Quiescent

-----------------------------------------------------------------------------
(* The plugins. *)

Process == [pid : Pid, uid : Uid \union {NoPod}]

KernelEvent == [id : Nat, pid : Pid, comm : Nat, of : Nat]

\* The plugin's struct for an event while it is filled in.
Decoding ==
    [event : KernelEvent, comm : Nat, podId : {NoPod} \union {CgroupId(u) : u \in Uid},
     pc : {"comm", "cgroup", "pods"}]

ProcessesOK ==
    /\ born \in Seq(Process)
    /\ proc \in [Pid -> 0 .. Len(born)]
    /\ \A p \in Pid : proc[p] # 0 => born[proc[p]].pid = p

BuffersOK ==
    /\ made \in Nat
    /\ ring \in [Plugin -> Seq(KernelEvent)]
    /\ \A l \in Plugin : Len(ring[l]) <= RING_CAP
    /\ hand \in [Plugin -> Seq(Decoding)]
    /\ \A l \in Plugin : Len(hand[l]) <= 1

\* oomkill's events carry the victim's name from the probe to the report.
NamedOK ==
    /\ \A i \in 1 .. Len(ring["oomkill"]) :
         ring["oomkill"][i].comm = ring["oomkill"][i].of /\ ring["oomkill"][i].comm # 0
    /\ hand["oomkill"] # << >> =>
         /\ hand["oomkill"][1].comm = hand["oomkill"][1].event.of
         /\ hand["oomkill"][1].pc # "comm"

\* No report has a pod: the ids of the two sides are written differently.
ReportsOK == \A r \in reports : (r.plugin = "oomkill" => r.comm = r.of) /\ r.pod = NoPod

PluginInv == ProcessesOK /\ BuffersOK /\ NamedOK /\ ReportsOK

Inv == PodInv /\ PluginInv

LEMMA NoPodFound == \A id : PodInfo(id) = NoPod
<1>1. [status |-> "containerd://", cgroup |-> ""].status # [status |-> "containerd://", cgroup |-> ""].cgroup
  BY Zenon
<1> QED
  BY <1>1, Zenon DEF PodInfo

LEMMA Empty ==
    /\ NoEvents \in [Plugin -> Seq(KernelEvent)] /\ NoEvents \in [Plugin -> Seq(Decoding)]
    /\ \A l \in Plugin : NoEvents[l] = << >> /\ Len(NoEvents[l]) = 0
    /\ "oomkill" \in Plugin
  BY DEF NoEvents, Plugin

LEMMA PluginInit ==
    ASSUME Init
    PROVE  PluginInv
<1>1. ProcessesOK
  BY DEF Init, ProcessesOK
<1>2. BuffersOK
  BY Empty, EventsAssumption DEF Init, BuffersOK
<1>3. NamedOK
  <2>1. ring["oomkill"] = << >> /\ hand["oomkill"] = << >>
    BY Empty DEF Init
  <2> QED
    BY <2>1 DEF NamedOK
<1>4. ReportsOK
  BY DEF Init, ReportsOK
<1> QED
  BY <1>1, <1>2, <1>3, <1>4 DEF PluginInv

LEMMA ProcessesUnchanged ==
    ASSUME ProcessesOK, UNCHANGED processes
    PROVE  ProcessesOK'
  BY DEF ProcessesOK, processes

LEMMA BuffersUnchanged ==
    ASSUME BuffersOK, NamedOK, UNCHANGED <<buffers, made>>
    PROVE  BuffersOK' /\ NamedOK'
  BY DEF BuffersOK, NamedOK, buffers

\* A crash empties the buffers.
LEMMA BuffersLost ==
    ASSUME BuffersOK, NamedOK, LostInCrash, UNCHANGED made
    PROVE  BuffersOK' /\ NamedOK'
<1>1. CASE UNCHANGED buffers
  BY <1>1, BuffersUnchanged
<1>2. CASE ring' = NoEvents /\ hand' = NoEvents
  <2>1. BuffersOK'
    BY <1>2, Empty, EventsAssumption DEF BuffersOK
  <2>2. ring'["oomkill"] = << >> /\ hand'["oomkill"] = << >>
    BY <1>2, Empty
  <2>3. NamedOK'
    BY <2>2 DEF NamedOK
  <2> QED
    BY <2>1, <2>3
<1> QED
  BY <1>1, <1>2 DEF LostInCrash

\* Processes start and end.
LEMMA StartStep ==
    ASSUME ProcessesOK, NEW p \in Pid, NEW u \in Uid \union {NoPod}, StartProcess(p, u)
    PROVE  ProcessesOK'
<1>1. PICK x \in Process : x = [pid |-> p, uid |-> u]
  BY DEF Process
<1>2. born \in Seq(Process) /\ born' = Append(born, x) /\ proc' = [proc EXCEPT ![p] = Len(born) + 1]
  BY <1>1 DEF StartProcess, ProcessesOK
<1>3. PICK k \in Nat : k = Len(born)
  BY <1>2, SeqFacts
<1>4. /\ born' \in Seq(Process) /\ Len(born') = k + 1
      /\ \A i \in 1 .. k : born'[i] = born[i]
      /\ born'[k + 1] = x
  BY <1>2, <1>3, AppendFacts
<1>5. proc \in [Pid -> 0 .. k] /\ proc' = [proc EXCEPT ![p] = k + 1]
  BY <1>2, <1>3 DEF ProcessesOK
<1>6. proc' \in [Pid -> 0 .. k + 1]
  BY <1>5
<1>7. ASSUME NEW q \in Pid, proc'[q] # 0 PROVE born'[proc'[q]].pid = q
  <2>1. CASE q = p
    BY <1>1, <1>4, <1>5, <2>1
  <2>2. CASE q # p
    <3>1. proc'[q] = proc[q] /\ proc[q] \in 1 .. k
      BY <1>5, <1>7, <2>2
    <3> QED
      BY <1>4, <1>7, <3>1 DEF ProcessesOK
  <2> QED
    BY <2>1, <2>2
<1> QED
  BY <1>4, <1>6, <1>7 DEF ProcessesOK

LEMMA EndStep ==
    ASSUME ProcessesOK, NEW p \in Pid, EndProcess(p)
    PROVE  ProcessesOK'
  BY DEF ProcessesOK, EndProcess

\* An event gets into a buffer; one of oomkill's names the process it is about.
LEMMA OutputStep ==
    ASSUME BuffersOK, NamedOK, NEW l \in Plugin, NEW pid \in Pid, NEW comm \in Nat, NEW of \in Nat,
           l = "oomkill" => comm = of /\ comm # 0,
           Output(l, pid, comm, of)
    PROVE  BuffersOK' /\ NamedOK'
<1>1. made \in Nat /\ made' = made + 1
  BY DEF BuffersOK, Output
<1>2. PICK e \in KernelEvent : e = [id |-> made + 1, pid |-> pid, comm |-> comm, of |-> of]
  <2>1. PICK id \in Nat : id = made + 1
    BY <1>1
  <2> QED
    BY <2>1 DEF KernelEvent
<1>3. /\ ring \in [Plugin -> Seq(KernelEvent)] /\ Len(ring[l]) < RING_CAP
      /\ ring' = [ring EXCEPT ![l] = Append(ring[l], e)] /\ hand' = hand
  BY <1>2 DEF Output, BuffersOK
<1>4. PICK b \in Seq(KernelEvent) : b = ring[l]
  BY <1>3
<1>5. /\ Len(b) \in Nat /\ Append(b, e) \in Seq(KernelEvent) /\ Len(Append(b, e)) = Len(b) + 1
      /\ \A i \in 1 .. Len(b) : Append(b, e)[i] = b[i]
      /\ Append(b, e)[Len(b) + 1] = e
  BY SeqFacts, AppendFacts
<1>6. ring' \in [Plugin -> Seq(KernelEvent)] /\ \A m \in Plugin : m # l => ring'[m] = ring[m]
  BY <1>3, <1>4, <1>5
<1>7. ring'[l] = Append(b, e)
  BY <1>3, <1>4
<1>8. Len(ring'[l]) <= RING_CAP
  BY <1>3, <1>4, <1>5, <1>7, EventsAssumption
<1>9. BuffersOK'
  BY <1>1, <1>3, <1>6, <1>8 DEF BuffersOK
<1>10. NamedOK'
  <2>1. CASE l = "oomkill"
    <3>1. e.comm = e.of /\ e.comm # 0
      BY <1>2, <2>1
    <3>2. ASSUME NEW i \in 1 .. Len(Append(b, e))
          PROVE  Append(b, e)[i].comm = Append(b, e)[i].of /\ Append(b, e)[i].comm # 0
      <4>1. CASE i = Len(b) + 1
        BY <1>5, <3>1, <4>1
      <4>2. CASE i # Len(b) + 1
        <5>1. i \in 1 .. Len(b)
          BY <1>5, <4>2
        <5> QED
          BY <1>4, <1>5, <2>1, <5>1 DEF NamedOK
      <4> QED
        BY <4>1, <4>2
    <3> QED
      BY <1>3, <1>7, <2>1, <3>2 DEF NamedOK
  <2>2. CASE l # "oomkill"
    <3>1. ring'["oomkill"] = ring["oomkill"]
      BY <1>6, <2>2, Empty
    <3> QED
      BY <1>3, <3>1 DEF NamedOK
  <2> QED
    BY <2>1, <2>2
<1> QED
  BY <1>9, <1>10

\* rd.Read takes the first event.
LEMMA ReadStep ==
    ASSUME BuffersOK, NamedOK, NEW l \in Plugin, Read(l)
    PROVE  BuffersOK' /\ NamedOK'
<1>1. /\ ring \in [Plugin -> Seq(KernelEvent)] /\ hand \in [Plugin -> Seq(Decoding)]
      /\ ring[l] # << >> /\ Len(ring[l]) <= RING_CAP /\ made' = made
  BY DEF Read, BuffersOK
<1>2. PICK b \in Seq(KernelEvent) : b = ring[l]
  BY <1>1
<1>3. /\ Head(b) \in KernelEvent /\ Head(b) = b[1] /\ 1 \in 1 .. Len(b) /\ Len(b) \in Nat
      /\ Tail(b) \in Seq(KernelEvent) /\ Len(Tail(b)) = Len(b) - 1
      /\ \A i \in 1 .. Len(Tail(b)) : i + 1 \in 1 .. Len(b) /\ Tail(b)[i] = b[i + 1]
  BY <1>1, <1>2, SeqFacts, TailFacts
<1>4. PICK e \in KernelEvent : e = Head(b)
  BY <1>3
<1>5. PICK c \in Nat : c = KnownComm(l, e)
  BY DEF KnownComm, KernelEvent
<1>6. PICK d : d = [event |-> e, comm |-> c, podId |-> NoPod, pc |-> IF c = 0 THEN "comm" ELSE "cgroup"]
  OBVIOUS
<1>7. d \in Decoding
  BY <1>6 DEF Decoding
<1>8. ring' = [ring EXCEPT ![l] = Tail(b)] /\ hand' = [hand EXCEPT ![l] = <<d>>]
  BY <1>2, <1>4, <1>5, <1>6 DEF Read
<1>9. <<d>> \in Seq(Decoding) /\ Len(<<d>>) = 1 /\ <<d>>[1] = d
  BY <1>7
<1>10. /\ ring' \in [Plugin -> Seq(KernelEvent)] /\ hand' \in [Plugin -> Seq(Decoding)]
       /\ \A m \in Plugin : ring'[m] = IF m = l THEN Tail(b) ELSE ring[m]
       /\ \A m \in Plugin : hand'[m] = IF m = l THEN <<d>> ELSE hand[m]
  BY <1>1, <1>3, <1>8, <1>9
<1>11. Len(Tail(b)) <= RING_CAP
  BY <1>1, <1>2, <1>3, EventsAssumption
<1>12. BuffersOK'
  <2>1. ASSUME NEW m \in Plugin PROVE Len(hand'[m]) <= 1
    <3>1. CASE m = l
      <4>1. Len(hand'[m]) = 1
        BY <1>9, <1>10, <3>1
      <4> QED
        BY <4>1
    <3>2. CASE m # l
      BY <1>10, <3>2 DEF BuffersOK
    <3> QED
      BY <3>1, <3>2
  <2>2. \A m \in Plugin : Len(ring'[m]) <= RING_CAP
    BY <1>10, <1>11 DEF BuffersOK
  <2> QED
    BY <1>1, <1>10, <2>1, <2>2 DEF BuffersOK
<1>13. NamedOK'
  <2>1. CASE l = "oomkill"
    <3>1. c = e.comm /\ e.comm = e.of /\ e.comm # 0
      BY <1>2, <1>3, <1>4, <1>5, <2>1 DEF NamedOK, KnownComm
    <3>2. d.comm = d.event.of /\ d.pc # "comm"
      BY <1>6, <3>1
    <3>3. \A i \in 1 .. Len(Tail(b)) : Tail(b)[i].comm = Tail(b)[i].of /\ Tail(b)[i].comm # 0
      BY <1>2, <1>3, <2>1 DEF NamedOK
    <3>4. ring'["oomkill"] = Tail(b) /\ hand'["oomkill"] = <<d>>
      BY <1>10, <2>1
    <3> QED
      BY <1>9, <3>2, <3>3, <3>4 DEF NamedOK
  <2>2. CASE l # "oomkill"
    <3>1. ring'["oomkill"] = ring["oomkill"] /\ hand'["oomkill"] = hand["oomkill"]
      BY <1>10, <2>2, Empty
    <3> QED
      BY <3>1 DEF NamedOK
  <2> QED
    BY <2>1, <2>2
<1> QED
  BY <1>12, <1>13

\* DecodeMapItem fills in a field of what is at hand.
LEMMA FillStep ==
    ASSUME BuffersOK, NamedOK, NEW l \in Plugin, hand[l] # << >>, NEW d \in Decoding,
           hand' = [hand EXCEPT ![l] = [hand[l] EXCEPT ![1] = d]], UNCHANGED <<ring, made>>,
           l = "oomkill" => d.comm = d.event.of /\ d.pc # "comm"
    PROVE  BuffersOK' /\ NamedOK'
<1>1. hand \in [Plugin -> Seq(Decoding)]
  BY DEF BuffersOK
<1>2. PICK h \in Seq(Decoding) : h = hand[l]
  BY <1>1
<1>3. PICK g : g = [h EXCEPT ![1] = d]
  OBVIOUS
<1>4. g \in Seq(Decoding) /\ Len(g) = Len(h) /\ g[1] = d /\ g # << >>
  BY <1>2, <1>3
<1>5. /\ hand' \in [Plugin -> Seq(Decoding)]
      /\ \A m \in Plugin : hand'[m] = IF m = l THEN g ELSE hand[m]
  BY <1>1, <1>2, <1>3, <1>4
<1>6. BuffersOK'
  <2>1. \A m \in Plugin : Len(hand'[m]) <= 1
    BY <1>2, <1>4, <1>5 DEF BuffersOK
  <2> QED
    BY <1>5, <2>1 DEF BuffersOK
<1>7. NamedOK'
  <2>1. hand'["oomkill"] = IF l = "oomkill" THEN g ELSE hand["oomkill"]
    BY <1>5, Empty
  <2> QED
    BY <1>4, <2>1 DEF NamedOK
<1> QED
  BY <1>6, <1>7

LEMMA HandType ==
    ASSUME BuffersOK, NEW l \in Plugin, hand[l] # << >>
    PROVE  hand[l][1] \in Decoding
<1>1. hand[l] \in Seq(Decoding)
  BY DEF BuffersOK
<1> QED
  BY <1>1

LEMMA CommStep ==
    ASSUME ProcessesOK, BuffersOK, NamedOK, NEW l \in Plugin, getCommByPid(l)
    PROVE  BuffersOK' /\ NamedOK'
<1>1. hand[l] # << >> /\ hand[l][1].pc = "comm" /\ UNCHANGED <<ring, made>>
  BY DEF getCommByPid
<1>2. PICK d \in Decoding : d = hand[l][1]
  BY <1>1, HandType
<1>3. PICK c \in Nat : c = proc[d.event.pid]
  <2>1. d.event.pid \in Pid
    BY DEF Decoding, KernelEvent
  <2>2. Len(born) \in Nat
    BY SeqFacts DEF ProcessesOK
  <2>3. proc[d.event.pid] \in 0 .. Len(born)
    BY <2>1 DEF ProcessesOK
  <2> QED
    BY <2>2, <2>3
<1>4. PICK f : f = [d EXCEPT !.pc = "cgroup", !.comm = c]
  OBVIOUS
<1>5. f \in Decoding
  BY <1>4 DEF Decoding
<1>6. hand' = [hand EXCEPT ![l] = [hand[l] EXCEPT ![1] = f]]
  BY <1>2, <1>3, <1>4 DEF getCommByPid
<1>7. l # "oomkill"
  BY <1>1 DEF NamedOK
<1> QED
  BY <1>1, <1>5, <1>6, <1>7, FillStep

LEMMA LookupStep ==
    ASSUME ProcessesOK, BuffersOK, NamedOK, NEW l \in Plugin, LookupId(l)
    PROVE  BuffersOK' /\ NamedOK'
<1>1. hand[l] # << >> /\ UNCHANGED <<ring, made>>
  BY DEF LookupId
<1>2. PICK d \in Decoding : d = hand[l][1]
  BY <1>1, HandType
<1>3. lookupIdByPid(d.event.pid) \in {NoPod} \union {CgroupId(u) : u \in Uid}
  BY EventsAssumption DEF lookupIdByPid
<1>4. PICK id \in {NoPod} \union {CgroupId(u) : u \in Uid} : id = lookupIdByPid(d.event.pid)
  BY <1>3
<1>5. PICK f : f = [d EXCEPT !.pc = "pods", !.podId = id]
  OBVIOUS
<1>6. f \in Decoding
  BY <1>5 DEF Decoding
<1>7. hand' = [hand EXCEPT ![l] = [hand[l] EXCEPT ![1] = f]]
  BY <1>2, <1>4, <1>5 DEF LookupId
<1>8. l = "oomkill" => f.comm = f.event.of /\ f.pc # "comm"
  <2>1. f.comm = d.comm /\ f.event = d.event /\ f.pc = "pods"
    BY <1>5 DEF Decoding
  <2> QED
    BY <1>1, <1>2, <2>1 DEF NamedOK
<1> QED
  BY <1>1, <1>6, <1>7, <1>8, FillStep

\* The report has the name from the event, and no pod.
LEMMA DeliverStep ==
    ASSUME BuffersOK, NamedOK, ReportsOK, NEW l \in Plugin, Deliver(l)
    PROVE  BuffersOK' /\ NamedOK' /\ ReportsOK'
<1>1. hand[l] # << >> /\ UNCHANGED <<ring, made>> /\ hand' = [hand EXCEPT ![l] = << >>]
  BY DEF Deliver
<1>2. hand \in [Plugin -> Seq(Decoding)]
  BY DEF BuffersOK
<1>3. /\ hand' \in [Plugin -> Seq(Decoding)]
      /\ \A m \in Plugin : hand'[m] = IF m = l THEN << >> ELSE hand[m]
  BY <1>1, <1>2
<1>4. BuffersOK'
  <2>1. \A m \in Plugin : Len(hand'[m]) <= 1
    BY <1>3 DEF BuffersOK
  <2> QED
    BY <1>1, <1>3, <2>1 DEF BuffersOK
<1>5. NamedOK'
  <2>1. hand'["oomkill"] = IF l = "oomkill" THEN << >> ELSE hand["oomkill"]
    BY <1>3, Empty
  <2> QED
    BY <1>1, <2>1 DEF NamedOK
<1>6. ReportsOK'
  <2>1. PICK d : d = hand[l][1]
    OBVIOUS
  <2>2. PICK r : r = [plugin |-> l, id |-> d.event.id, comm |-> d.comm, pod |-> PodInfo(d.podId),
                      of |-> d.event.of]
    OBVIOUS
  <2>3. reports' = reports \union {r}
    BY <2>1, <2>2 DEF Deliver
  <2>4. r.plugin = l /\ r.comm = d.comm /\ r.of = d.event.of /\ r.pod = NoPod
    BY <2>2, NoPodFound
  <2>5. l = "oomkill" => d.comm = d.event.of
    BY <1>1, <2>1 DEF NamedOK
  <2> QED
    BY <2>3, <2>4, <2>5 DEF ReportsOK
<1> QED
  BY <1>4, <1>5, <1>6

LEMMA PluginStep ==
    ASSUME PodInv, PluginInv, [Next]_vars
    PROVE  PluginInv'
<1> USE DEF PluginInv
<1>1. CASE PodStep
  <2>1. UNCHANGED <<processes, reports, made>> /\ LostInCrash
    BY <1>1 DEF PodStep
  <2> QED
    BY <2>1, ProcessesUnchanged, BuffersLost DEF ReportsOK
<1>2. ASSUME NEW p \in Pid, NEW u \in {pod.uid : pod \in LocalPods} \union {NoPod}, StartProcess(p, u)
      PROVE  PluginInv'
  <2>1. u \in Uid \union {NoPod}
    BY DEF LocalPods, PodInv, PodTypeOK, Pod
  <2>2. UNCHANGED <<buffers, reports, made>>
    BY <1>2 DEF StartProcess
  <2> QED
    BY <1>2, <2>1, <2>2, StartStep, BuffersUnchanged DEF ReportsOK
<1>3. ASSUME NEW p \in Pid, EndProcess(p) PROVE PluginInv'
  <2>1. UNCHANGED <<buffers, reports, made>>
    BY <1>3 DEF EndProcess
  <2> QED
    BY <1>3, <2>1, EndStep, BuffersUnchanged DEF ReportsOK
<1>4. ASSUME NEW p \in Pid, kprobe__oom_kill_process(p) PROVE PluginInv'
  <2>1. proc[p] # 0 /\ Output("oomkill", p, proc[p], proc[p])
    BY <1>4 DEF kprobe__oom_kill_process
  <2>2. PICK v \in Nat : v = proc[p]
    <3>1. Len(born) \in Nat
      BY SeqFacts DEF ProcessesOK
    <3>2. proc[p] \in 0 .. Len(born)
      BY DEF ProcessesOK
    <3> QED
      BY <3>1, <3>2
  <2>3. BuffersOK' /\ NamedOK'
    BY <2>1, <2>2, Empty, OutputStep
  <2>4. UNCHANGED <<processes, reports>>
    BY <2>1 DEF Output
  <2> QED
    BY <2>3, <2>4, ProcessesUnchanged DEF ReportsOK
<1>5. ASSUME NEW g \in DOMAIN born, BacklogFull(g) PROVE PluginInv'
  <2>1. Output("tcpsynbl", born[g].pid, 0, g)
    BY <1>5 DEF BacklogFull
  <2>2. g \in Nat /\ born[g] \in Process
    BY DEF ProcessesOK
  <2>3. PICK pid \in Pid : pid = born[g].pid
    BY <2>2 DEF Process
  <2>4. "tcpsynbl" \in Plugin /\ "tcpsynbl" # "oomkill" /\ 0 \in Nat
    BY DEF Plugin
  <2>5. BuffersOK' /\ NamedOK'
    BY <2>1, <2>2, <2>3, <2>4, OutputStep
  <2>6. UNCHANGED <<processes, reports>>
    BY <2>1 DEF Output
  <2> QED
    BY <2>5, <2>6, ProcessesUnchanged DEF ReportsOK
<1>6. ASSUME NEW l \in Plugin, Decode(l) PROVE PluginInv'
  <2>1. UNCHANGED processes
    BY <1>6 DEF Decode, Read, getCommByPid, LookupId, Deliver
  <2>2. CASE Read(l) \/ getCommByPid(l) \/ LookupId(l)
    <3>1. UNCHANGED reports
      BY <2>2 DEF Read, getCommByPid, LookupId
    <3> QED
      BY <2>1, <2>2, <3>1, ProcessesUnchanged, ReadStep, CommStep, LookupStep DEF ReportsOK
  <2>3. CASE Deliver(l)
    BY <2>1, <2>3, ProcessesUnchanged, DeliverStep
  <2> QED
    BY <1>6, <2>2, <2>3 DEF Decode
<1>7. ASSUME NEW l \in Plugin, ConcurrentMapAccess(l) PROVE PluginInv'
  <2>1. UNCHANGED <<processes, reports, made>> /\ LostInCrash
    BY <1>7 DEF ConcurrentMapAccess
  <2> QED
    BY <2>1, ProcessesUnchanged, BuffersLost DEF ReportsOK
<1>8. CASE UNCHANGED vars
  BY <1>8, ProcessesUnchanged, BuffersUnchanged DEF vars, ReportsOK
<1> QED
  BY <1>1, <1>2, <1>3, <1>4, <1>5, <1>6, <1>7, <1>8 DEF Next

LEMMA InvHolds == Spec => []Inv
<1>1. Init => Inv
  BY PodInvInit, PluginInit DEF Init, Inv
<1>2. Inv /\ [Next]_vars => Inv'
  BY PodInvStep, PodInvUnchanged, NextPods, PluginStep DEF Inv
<1> QED
  BY <1>1, <1>2, PTL DEF Spec

\* The variables keep their types: the handlers put pods of this node in the
\* table, each under its UID, /proc has each process under its pid, and the
\* buffers and the structs being decoded are within their bounds.
THEOREM TypeOKHolds == Spec => []TypeOK
<1>1. Inv => TypeOK
  <2>1. Inv => ProcessesOK /\ PodTypeOK /\ \A l \in Plugin : Len(ring[l]) <= RING_CAP /\ Len(hand[l]) <= 1
    BY DEF Inv, PodInv, PluginInv, BuffersOK
  <2> QED
    BY <2>1 DEF TypeOK, ProcessesOK, Process
<1> QED
  BY <1>1, InvHolds, PTL

\* With no event on the way every pod of this node is in the table (addPod and
\* updatePod keep it, and no handler removes it for another's sake), whatever
\* was created, deleted and created again while the watch was broken.
THEOREM CoveredWhenQuiescentHolds == Spec => []CoveredWhenQuiescent
<1>1. Inv => CoveredWhenQuiescent
  <2> SUFFICES ASSUME Inv, Quiescent, NEW n \in Name, pods[n] # Absent, pods[n].node = "here"
               PROVE  Pods[pods[n].uid] = pods[n]
    BY DEF CoveredWhenQuiescent, Covered, LocalPods
  <2>1. known[n] = pods[n]
    BY KnownWhenQuiescent DEF Inv
  <2> QED
    BY <2>1 DEF Inv, PodInv, TableOK, Quiescent
<1> QED
  BY <1>1, InvHolds, PTL

\* With no event on the way the table holds a pod that is gone only if an update
\* took its name from it: updatePod is the one handler that leaves a UID behind.
THEOREM GoneOnlyIfReplacedHolds == Spec => []GoneOnlyIfReplaced
<1>1. Inv => GoneOnlyIfReplaced
  <2> SUFFICES ASSUME Inv, Quiescent, NEW u \in Uid, Pods[u] # Absent, u \notin replaced
               PROVE  Pods[u] \in LocalPods
    BY DEF GoneOnlyIfReplaced
  <2>1. PICK n \in Name : known[n] = Pods[u]
    BY DEF Inv, PodInv, TableOK, Quiescent
  <2>2. pods[n] = Pods[u]
    BY <2>1, KnownWhenQuiescent DEF Inv
  <2>3. Pods[u].node = "here"
    BY DEF Inv, PodInv, PodTypeOK
  <2> QED
    BY <2>2, <2>3 DEF LocalPods
<1> QED
  BY <1>1, InvHolds, PTL

\* An OOM report names the process that was killed, whoever has its pid when
\* the event is decoded, because the probe copied the name; no report blames
\* the pod of another process.
THEOREM OomNamesVictimHolds == Spec => []OomNamesVictim
<1>1. Inv => OomNamesVictim
  BY DEF Inv, PluginInv, ReportsOK, OomNamesVictim
<1> QED
  BY <1>1, InvHolds, PTL
=============================================================================
