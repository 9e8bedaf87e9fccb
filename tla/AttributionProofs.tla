-------------------------- MODULE AttributionProofs -------------------------
(***************************************************************************)
(* Proofs about the endpoint table and the records attributed through it,  *)
(* for any services, addresses, ports, pods and objects.                   *)
(***************************************************************************)
EXTENDS Attribution, TLAPS

Event == [obj : Object, tomb : BOOLEAN]

-----------------------------------------------------------------------------
(* Sequences and operators. *)

LEMMA SeqFacts ==
    ASSUME NEW S, NEW s \in Seq(S)
    PROVE  /\ Len(s) \in Nat /\ \A i \in 1 .. Len(s) : s[i] \in S
           /\ s = << >> <=> Len(s) = 0
OBVIOUS

LEMMA AppendFacts ==
    ASSUME NEW S, NEW s \in Seq(S), NEW x \in S
    PROVE  /\ Append(s, x) \in Seq(S) /\ Append(s, x) # << >>
           /\ Len(Append(s, x)) = Len(s) + 1
           /\ \A i \in 1 .. Len(s) : Append(s, x)[i] = s[i]
           /\ Append(s, x)[Len(s) + 1] = x
OBVIOUS

LEMMA TailFacts ==
    ASSUME NEW S, NEW s \in Seq(S), s # << >>
    PROVE  /\ Head(s) \in S /\ Head(s) = s[1] /\ 1 \in 1 .. Len(s)
           /\ Tail(s) \in Seq(S)
           /\ Len(Tail(s)) = Len(s) - 1
           /\ \A i \in 1 .. Len(Tail(s)) : i + 1 \in 1 .. Len(s) /\ Tail(s)[i] = s[i + 1]
OBVIOUS

\* The objects a service may have.
ObjOf(s) == Objects[s] \union {Absent}

LEMMA ObjType ==
    ASSUME NEW s \in Service
    PROVE  /\ ObjOf(s) \subseteq Object /\ Absent \in ObjOf(s) /\ Absent \notin Objects[s]
           /\ \A o \in ObjOf(s) : \A a, b \in Local(o) : a.ep = b.ep => a = b
  BY ConstantsAssumption DEF ObjOf, Object, Local

LEMMA LocalType ==
    /\ \A o \in Object : Local(o) \subseteq Entry
    /\ Local(Absent) = {}
    /\ \A en \in Entry : en.ep \in Endpoint /\ en.pod \in Pod \union {None} /\ en # None
  BY ConstantsAssumption DEF Local, Object, Entry

LEMMA WorkFacts ==
    ASSUME NEW s, NEW D, NEW A
    PROVE  /\ Work(s, D, A).dels = D /\ Work(s, D, A).adds = A /\ Work(s, D, A).cur = None
           /\ \/ Work(s, D, A).svc = s
              \/ Work(s, D, A) = NoWork /\ D = {} /\ A = {}
  BY DEF Work, NoWork

LEMMA WorkType ==
    ASSUME NEW s \in Service \union {None}, NEW D \in SUBSET Entry, NEW A \in SUBSET Entry
    PROVE  Work(s, D, A) \in [svc : Service \union {None}, dels : SUBSET Entry,
                              adds : SUBSET Entry, cur : Entry \union {None}]
  BY DEF Work, NoWork

LEMMA KeyZero ==
    ASSUME NEW ep \in Endpoint
    PROVE  Key(ep) = ZeroKey /\ Key(ep) \in Bytes4
<1>1. Key(ep) = <<0, 0, 0, 0>>
  BY DEF Key, FilterKey, ipv4ToUint32, ParseIP
<1>2. <<0, 0, 0, 0>> \in Bytes4
  BY DEF Bytes4, Byte
<1> QED
  BY <1>1, <1>2 DEF ZeroKey

\* What a list leaves of one object's events.
LEMMA ListedFacts ==
    ASSUME NEW s \in Service, cluster[s] \in Object, NEW q \in [Service -> Seq(Event)], NEW st
    PROVE  \/ cluster[s] # Absent /\ Listed(q, st)[s] = Append(q[s], [obj |-> cluster[s], tomb |-> FALSE])
           \/ cluster[s] = Absent /\ st[s] # Absent
              /\ Listed(q, st)[s] = Append(q[s], [obj |-> Absent, tomb |-> TRUE])
           \/ cluster[s] = Absent /\ st[s] = Absent /\ Listed(q, st)[s] = q[s]
  BY DEF Listed

LEMMA ListedType ==
    ASSUME cluster \in [Service -> Object], NEW q \in [Service -> Seq(Event)], NEW st
    PROVE  Listed(q, st) \in [Service -> Seq(Event)]
<1>1. ASSUME NEW s \in Service PROVE Listed(q, st)[s] \in Seq(Event)
  <2>1. PICK a \in Event : a = [obj |-> cluster[s], tomb |-> FALSE]
    BY DEF Event
  <2>2. PICK b \in Event : b = [obj |-> Absent, tomb |-> TRUE]
    BY DEF Event, Object
  <2>3. q[s] \in Seq(Event)
    OBVIOUS
  <2>4. Append(q[s], a) \in Seq(Event) /\ Append(q[s], b) \in Seq(Event)
    BY <2>3, AppendFacts
  <2> QED
    BY <2>1, <2>2, <2>3, <2>4, ListedFacts
<1> QED
  BY <1>1 DEF Listed

-----------------------------------------------------------------------------
(* The inductive invariant.                                                *)

\* The versions of an object in a sequence of its events.
Versions(q) == {q[i].obj : i \in 1 .. Len(q)}

LEMMA VersionsFacts ==
    ASSUME NEW q \in Seq(Event)
    PROVE  /\ \A e \in Event : Versions(Append(q, e)) = Versions(q) \union {e.obj}
           /\ q # << >> => Versions(Tail(q)) \subseteq Versions(q) /\ Head(q).obj \in Versions(q)
           /\ q = << >> => Versions(q) = {}
<1>1. ASSUME NEW e \in Event PROVE Versions(Append(q, e)) = Versions(q) \union {e.obj}
  <2>1. PICK n \in Nat : n = Len(q)
    BY SeqFacts
  <2>2. /\ Len(Append(q, e)) = n + 1 /\ Append(q, e)[n + 1] = e
        /\ \A i \in 1 .. n : Append(q, e)[i] = q[i]
    BY <2>1, AppendFacts
  <2>3. 1 .. n + 1 = (1 .. n) \union {n + 1}
    OBVIOUS
  <2> QED
    BY <2>1, <2>2, <2>3 DEF Versions
<1>2. ASSUME q # << >> PROVE Versions(Tail(q)) \subseteq Versions(q) /\ Head(q).obj \in Versions(q)
  BY <1>2, TailFacts DEF Versions
<1>3. ASSUME q = << >> PROVE Versions(q) = {}
  BY <1>3 DEF Versions
<1> QED
  BY <1>1, <1>2, <1>3

\* The versions of an object that the handlers may still be given: the cluster's,
\* the one handed on last and those of the events queued.
Flying(s) == {cluster[s], known[s]} \union Versions(queue[s])

\* Each of these is one the service may have, and the service is recorded as a
\* claimant of its endpoints; so is the one whose entries are being deleted.
ClaimOK ==
    /\ \A s \in Service : \A o \in Flying(s) :
          o \in ObjOf(s) /\ \A en \in Local(o) : s \in claimed[en.ep]
    /\ \A en \in worker.dels : worker.svc \in claimed[en.ep]

\* The indexer is ahead of the handlers by the events queued, and equal to the
\* cluster while the watch is up.
StoreOK ==
    /\ running /\ connected => store = cluster
    /\ \A s \in Service :
          store[s] = IF queue[s] = << >> THEN known[s] ELSE queue[s][Len(queue[s])].obj

\* The entries to add are those of the version handed on last, all of them as
\* long as old entries are left to delete.
WorkerOK ==
    \/ worker = NoWork
    \/ /\ worker.svc \in Service
       /\ worker.adds \subseteq Local(known[worker.svc])
       /\ worker.dels # {} => worker.adds = Local(known[worker.svc])
       /\ worker.cur # None =>
             IF worker.dels # {} THEN worker.cur \in worker.dels
             ELSE worker.cur \in worker.adds /\ worker.cur.pod # None

\* An entry of the version handed on last, of an endpoint no other service ever
\* listed, is in Providers or still to be added.
Resolved ==
    \A s \in Service : \A en \in Local(known[s]) : claimed[en.ep] = {s} =>
        \/ Providers[en.ep] = [pod |-> en.pod, svc |-> s] /\ en.pod # None
        \/ worker.svc = s /\ en \in worker.adds

Inv == TypeOK /\ ClaimOK /\ StoreOK /\ WorkerOK /\ NoStaleProvider /\ Resolved

\* A step that leaves the objects, the worker and the table alone.
Quiet ==
    /\ UNCHANGED <<cluster, store, queue, known, worker, Providers, claimed>>
    /\ running' /\ connected' => running /\ connected
    /\ running' => running

LEMMA NextCases ==
    ASSUME Next
    PROVE  \/ \E s \in Service : \E o \in ObjOf(s) : Change(s, o)
           \/ Relist \/ Restart
           \/ \E s \in Service : TakeEvent(s)
           \/ \E en \in worker.dels \union worker.adds : BeginEntry(en)
           \/ DeleteEntry \/ AddEntry
           \/ Quiet
<1>1. CASE Disconnect
  BY <1>1 DEF Disconnect, Quiet, table
<1>2. CASE \E s \in Service : TakeTombstone(s)
  BY <1>2 DEF TakeTombstone, Crash, Quiet, table, outside
<1>3. CASE NilTargetRef
  BY <1>3 DEF NilTargetRef, Crash, Quiet, table, outside
<1>4. CASE \E ep \in Endpoint : WriteFilterIP(ep)
  BY <1>4 DEF WriteFilterIP, Quiet, outside
<1>5. CASE RegistryAdd
  BY <1>5 DEF RegistryAdd, Quiet, outside, table
<1>6. CASE RegistryDelete
  BY <1>6 DEF RegistryDelete, Quiet, outside, table
<1>7. CASE ConcurrentMapAccess
  BY <1>7 DEF ConcurrentMapAccess, Crash, Quiet, table, outside
<1> QED
  BY <1>1, <1>2, <1>3, <1>4, <1>5, <1>6, <1>7 DEF Next, Handle, Start, ObjOf

-----------------------------------------------------------------------------
(* Types. *)

LEMMA ListedAllType ==
    ASSUME TypeOK
    PROVE  /\ queue \in [Service -> Seq(Event)]
           /\ Listed(queue, store) \in [Service -> Seq(Event)]
           /\ Listed(NoEvents, NoObjects) \in [Service -> Seq(Event)]
<1>1. queue \in [Service -> Seq(Event)] /\ cluster \in [Service -> Object]
  BY DEF TypeOK, Event
<1>2. NoEvents \in [Service -> Seq(Event)]
  BY DEF NoEvents
<1> QED
  BY <1>1, <1>2, ListedType

LEMMA ClaimsType ==
    ASSUME NEW objects
    PROVE  Claims(objects) \in [Endpoint -> SUBSET Service]
  BY DEF Claims

LEMMA InitType ==
    ASSUME Init
    PROVE  TypeOK
<1>1. cluster \in [Service -> Object]
  <2>1. ASSUME NEW s \in Service PROVE cluster[s] \in Object
    BY ObjType DEF Init, ObjOf
  <2> QED
    BY <2>1 DEF Init
<1>2. queue \in [Service -> Seq(Event)]
  <2>1. NoEvents \in [Service -> Seq(Event)]
    BY DEF NoEvents
  <2> QED
    BY <1>1, <2>1, ListedType DEF Init
<1>3. NoObjects \in [Service -> Object]
  BY DEF NoObjects, Object
<1>4. worker \in [svc : Service \union {None}, dels : SUBSET Entry, adds : SUBSET Entry,
                  cur : Entry \union {None}]
  BY DEF Init, NoWork
<1>5. claimed \in [Endpoint -> SUBSET Service]
  BY ClaimsType DEF Init
<1>6. changes \in 0 .. MaxChange /\ relists \in 0 .. MaxRelist /\ crashes \in 0 .. MaxCrash
  BY ConstantsAssumption DEF Init
<1> QED
  BY <1>1, <1>2, <1>3, <1>4, <1>5, <1>6 DEF Init, TypeOK, Event

\* The parts of the type invariant a step of the handlers can disturb.
LEMMA WorkerType ==
    ASSUME TypeOK
    PROVE  /\ worker.svc \in Service \union {None} /\ worker.cur \in Entry \union {None}
           /\ worker.dels \in SUBSET Entry /\ worker.adds \in SUBSET Entry
  BY DEF TypeOK

LEMMA TypeStep ==
    ASSUME TypeOK, WorkerOK, [Next]_vars
    PROVE  TypeOK'
<1>1. ASSUME NEW s \in Service, NEW o \in ObjOf(s), Change(s, o) PROVE TypeOK'
  <2>1. o \in Object
    BY ObjType
  <2>2. cluster' \in [Service -> Object] /\ store' \in [Service -> Object]
    <3>1. [cluster EXCEPT ![s] = o] \in [Service -> Object]
      BY <2>1 DEF TypeOK
    <3>2. [store EXCEPT ![s] = o] \in [Service -> Object] /\ store \in [Service -> Object]
      BY <2>1 DEF TypeOK
    <3> QED
      BY <1>1, <3>1, <3>2 DEF Change
  <2>3. queue' \in [Service -> Seq(Event)]
    <3>1. PICK e \in Event : e = [obj |-> o, tomb |-> FALSE]
      BY <2>1 DEF Event
    <3>2. queue \in [Service -> Seq(Event)]
      BY DEF TypeOK, Event
    <3>3. Append(queue[s], e) \in Seq(Event)
      BY <3>2, AppendFacts
    <3> QED
      BY <1>1, <3>1, <3>2, <3>3 DEF Change
  <2>4. claimed' \in [Endpoint -> SUBSET Service]
    <3>1. PICK C \in [Endpoint -> SUBSET Service] : C = Claims(cluster')
      BY ClaimsType
    <3>2. claimed' = [ep \in Endpoint |-> claimed[ep] \union C[ep]]
      BY <1>1, <3>1 DEF Change
    <3> QED
      BY <3>1, <3>2 DEF TypeOK
  <2>5. changes' \in 0 .. MaxChange
    BY <1>1, ConstantsAssumption DEF Change, TypeOK
  <2> QED
    BY <1>1, <2>2, <2>3, <2>4, <2>5 DEF Change, TypeOK, Event, table
<1>2. CASE Disconnect
  <2>1. relists' \in 0 .. MaxRelist
    BY <1>2, ConstantsAssumption DEF Disconnect, TypeOK
  <2> QED
    BY <1>2, <2>1 DEF Disconnect, TypeOK, table
<1>3. CASE Relist
  BY <1>3, ListedAllType DEF Relist, TypeOK, Event, table, bounds
<1>4. CASE Restart
  <2>1. NoObjects \in [Service -> Object]
    BY DEF NoObjects, Object
  <2>2. worker' \in [svc : Service \union {None}, dels : SUBSET Entry, adds : SUBSET Entry,
                     cur : Entry \union {None}]
    BY <1>4 DEF Restart, NoWork
  <2> QED
    BY <1>4, <2>1, <2>2, ListedAllType, ClaimsType DEF Restart, TypeOK, Event, bounds
<1>5. ASSUME NEW s \in Service, TakeEvent(s) PROVE TypeOK'
  <2>1. queue[s] \in Seq(Event) /\ queue[s] # << >>
    BY <1>5 DEF TypeOK, Event, TakeEvent
  <2>2. Head(queue[s]) \in Event /\ Tail(queue[s]) \in Seq(Event)
    BY <2>1, TailFacts
  <2>3. Head(queue[s]).obj \in Object
    BY <2>2 DEF Event
  <2>4. Local(known[s]) \in SUBSET Entry /\ Local(Head(queue[s]).obj) \in SUBSET Entry
    BY <2>3, LocalType DEF TypeOK
  <2>5. queue' \in [Service -> Seq(Event)] /\ known' \in [Service -> Object]
    BY <1>5, <2>2, <2>3 DEF TakeEvent, TypeOK, Event
  <2>6. worker' \in [svc : Service \union {None}, dels : SUBSET Entry, adds : SUBSET Entry,
                     cur : Entry \union {None}]
    BY <1>5, <2>4, WorkType DEF TakeEvent
  <2> QED
    BY <1>5, <2>5, <2>6 DEF TakeEvent, TypeOK, Event, outside, table, bounds
<1>6. ASSUME NEW s \in Service, TakeTombstone(s) PROVE TypeOK'
  BY <1>6 DEF TakeTombstone, Crash, TypeOK, outside, table
<1>7. CASE NilTargetRef
  BY <1>7 DEF NilTargetRef, Crash, TypeOK, outside, table
<1>8. ASSUME NEW en \in worker.dels \union worker.adds, BeginEntry(en) PROVE TypeOK'
  <2>1. worker' \in [svc : Service \union {None}, dels : SUBSET Entry, adds : SUBSET Entry,
                     cur : Entry \union {None}]
    BY <1>8 DEF BeginEntry, TypeOK
  <2> QED
    BY <1>8, <2>1 DEF BeginEntry, TypeOK, outside, table, bounds
<1>9. CASE DeleteEntry
  <2>1. worker.cur \in Entry /\ worker.cur.ep \in Endpoint
    BY <1>9, WorkerType, LocalType DEF DeleteEntry
  <2>2. worker' \in [svc : Service \union {None}, dels : SUBSET Entry, adds : SUBSET Entry,
                     cur : Entry \union {None}]
    BY <1>9, WorkerType, WorkType DEF DeleteEntry
  <2>3. Providers' \in [Endpoint -> Provider \union {None}] /\ filter_ip' \subseteq Bytes4
    BY <1>9, <2>1 DEF DeleteEntry, TypeOK
  <2> QED
    BY <1>9, <2>2, <2>3 DEF DeleteEntry, TypeOK, outside, bounds
<1>10. CASE AddEntry
  <2>1. worker.cur \in Entry /\ worker.cur.ep \in Endpoint /\ worker.cur.pod \in Pod \union {None}
    BY <1>10, WorkerType, LocalType DEF AddEntry
  <2>2. worker.svc \in Service /\ worker.cur.pod # None
    BY <1>10, <2>1 DEF AddEntry, WorkerOK, NoWork
  <2>3. worker' \in [svc : Service \union {None}, dels : SUBSET Entry, adds : SUBSET Entry,
                     cur : Entry \union {None}]
    BY <1>10, WorkerType, WorkType DEF AddEntry
  <2>4. [pod |-> worker.cur.pod, svc |-> worker.svc] \in Provider
    BY <2>1, <2>2 DEF Provider
  <2>5. Providers' \in [Endpoint -> Provider \union {None}]
    BY <1>10, <2>1, <2>4 DEF AddEntry, TypeOK
  <2>6. filter_ip' \subseteq Bytes4
    BY <1>10, <2>1, KeyZero DEF AddEntry, TypeOK
  <2> QED
    BY <1>10, <2>3, <2>5, <2>6 DEF AddEntry, TypeOK, outside, bounds
<1>11. ASSUME NEW ep \in Endpoint, WriteFilterIP(ep) PROVE TypeOK'
  <2>1. filter_ip' \subseteq Bytes4
    BY <1>11, KeyZero DEF WriteFilterIP, TypeOK
  <2>2. starter' \in [pc : {"write", "registry", "read"}, todo : SUBSET Endpoint]
    BY <1>11 DEF WriteFilterIP, TypeOK
  <2> QED
    BY <1>11, <2>1, <2>2 DEF WriteFilterIP, TypeOK, outside, bounds
<1>12. CASE RegistryAdd
  BY <1>12 DEF RegistryAdd, TypeOK, outside, table, bounds
<1>13. CASE RegistryDelete
  BY <1>13 DEF RegistryDelete, TypeOK, outside, table, bounds
<1>14. CASE ConcurrentMapAccess
  <2>1. crashes' \in 0 .. MaxCrash
    BY <1>14, ConstantsAssumption DEF ConcurrentMapAccess, TypeOK
  <2> QED
    BY <1>14, <2>1 DEF ConcurrentMapAccess, Crash, TypeOK, outside, table
<1>15. CASE UNCHANGED vars
  BY <1>15 DEF vars, TypeOK, outside, table, bounds
<1> QED
  BY <1>1, <1>2, <1>3, <1>4, <1>5, <1>6, <1>7, <1>8, <1>9, <1>10, <1>11, <1>12, <1>13, <1>14,
     <1>15 DEF Next, Handle, Start, ObjOf

-----------------------------------------------------------------------------
(* The versions in flight. *)

\* A list adds the cluster's version, or none.
LEMMA ListedVersions ==
    ASSUME NEW s \in Service, cluster[s] \in Object, NEW q \in [Service -> Seq(Event)], NEW st
    PROVE  Versions(Listed(q, st)[s]) \subseteq Versions(q[s]) \union {cluster[s], Absent}
<1>1. PICK a \in Event : a = [obj |-> cluster[s], tomb |-> FALSE]
  BY DEF Event
<1>2. PICK b \in Event : b = [obj |-> Absent, tomb |-> TRUE]
  BY DEF Event, Object
<1>3. q[s] \in Seq(Event) /\ a.obj = cluster[s] /\ b.obj = Absent
  BY <1>1, <1>2
<1>4. /\ Versions(Append(q[s], a)) = Versions(q[s]) \union {a.obj}
      /\ Versions(Append(q[s], b)) = Versions(q[s]) \union {b.obj}
  BY <1>3, VersionsFacts
<1> QED
  BY <1>1, <1>2, <1>3, <1>4, ListedFacts

LEMMA RestartFlying ==
    ASSUME TypeOK, Restart, NEW s \in Service
    PROVE  Flying(s)' \subseteq {cluster[s], Absent}
<1>1. NoEvents \in [Service -> Seq(Event)] /\ NoEvents[s] = << >> /\ NoEvents[s] \in Seq(Event)
  BY DEF NoEvents
<1>2. Versions(NoEvents[s]) = {}
  BY <1>1, VersionsFacts
<1>3. cluster[s] \in Object
  BY DEF TypeOK
<1>4. Versions(Listed(NoEvents, NoObjects)[s]) \subseteq {cluster[s], Absent}
  BY <1>1, <1>2, <1>3, ListedVersions
<1>5. known'[s] = Absent /\ cluster' = cluster /\ queue' = Listed(NoEvents, NoObjects)
  BY DEF Restart, NoObjects
<1> QED
  BY <1>4, <1>5 DEF Flying

LEMMA FlyingStep ==
    ASSUME TypeOK, Next, NEW s \in Service
    PROVE  Flying(s)' \subseteq Flying(s) \union {cluster'[s], Absent}
<1>0. /\ queue \in [Service -> Seq(Event)] /\ queue[s] \in Seq(Event)
      /\ cluster[s] \in Object /\ cluster \in [Service -> Object] /\ known \in [Service -> Object]
  BY DEF TypeOK, Event
<1>1. ASSUME NEW t \in Service, NEW o \in ObjOf(t), Change(t, o)
      PROVE  Flying(s)' \subseteq Flying(s) \union {cluster'[s], Absent}
  <2>0. o \in Object
    BY ObjType
  <2>1. PICK e \in Event : e = [obj |-> o, tomb |-> FALSE]
    BY <2>0 DEF Event
  <2>2. known' = known
    BY <1>1 DEF Change
  <2>3. queue'[s] = queue[s] \/ (s = t /\ queue'[s] = Append(queue[s], e) /\ cluster'[s] = o)
    BY <1>0, <1>1, <2>1 DEF Change
  <2>4. Versions(Append(queue[s], e)) = Versions(queue[s]) \union {e.obj}
    BY <1>0, VersionsFacts
  <2> QED
    BY <2>1, <2>2, <2>3, <2>4 DEF Flying
<1>2. CASE Relist
  <2>1. Versions(Listed(queue, store)[s]) \subseteq Versions(queue[s]) \union {cluster[s], Absent}
    BY <1>0, ListedVersions
  <2> QED
    BY <1>2, <2>1 DEF Relist, Flying
<1>3. CASE Restart
  BY <1>3, RestartFlying DEF Restart
<1>4. ASSUME NEW t \in Service, TakeEvent(t)
      PROVE  Flying(s)' \subseteq Flying(s) \union {cluster'[s], Absent}
  <2>1. CASE t = s
    <3>1. /\ queue[s] # << >> /\ queue'[s] = Tail(queue[s]) /\ known'[s] = Head(queue[s]).obj
          /\ cluster' = cluster
      BY <1>0, <1>4, <2>1 DEF TakeEvent, outside
    <3>2. Versions(Tail(queue[s])) \subseteq Versions(queue[s]) /\ Head(queue[s]).obj \in Versions(queue[s])
      BY <1>0, <3>1, VersionsFacts
    <3> QED
      BY <3>1, <3>2 DEF Flying
  <2>2. CASE t # s
    <3>1. queue'[s] = queue[s] /\ known'[s] = known[s] /\ cluster' = cluster
      BY <1>0, <1>4, <2>2 DEF TakeEvent, outside
    <3> QED
      BY <3>1 DEF Flying
  <2> QED
    BY <2>1, <2>2
<1>5. ASSUME UNCHANGED <<cluster, queue, known>>
      PROVE  Flying(s)' \subseteq Flying(s) \union {cluster'[s], Absent}
  BY <1>5 DEF Flying
<1> QED
  BY <1>1, <1>2, <1>3, <1>4, <1>5, NextCases DEF BeginEntry, DeleteEntry, AddEntry, Quiet, outside

\* Claims says which services list an endpoint.
LEMMA ClaimsFacts ==
    ASSUME NEW objects, NEW s \in Service, NEW en \in Local(objects[s]), en.ep \in Endpoint
    PROVE  s \in Claims(objects)[en.ep]
  BY DEF Claims

LEMMA ClaimStep ==
    ASSUME Inv, Next
    PROVE  ClaimOK'
<1> USE DEF Inv
<1>1. TypeOK' /\ TypeOK
  BY TypeStep
<1>2. ASSUME NEW s \in Service PROVE cluster'[s] \in ObjOf(s)
  <2>1. cluster[s] \in ObjOf(s)
    BY DEF ClaimOK, Flying
  <2>2. ASSUME NEW t \in Service, NEW o \in ObjOf(t), Change(t, o) PROVE cluster'[s] \in ObjOf(s)
    BY <2>1, <2>2 DEF Change, TypeOK
  <2> QED
    BY <2>1, <2>2, NextCases
    DEF Relist, Restart, TakeEvent, BeginEntry, DeleteEntry, AddEntry, Quiet, outside
<1>3. ASSUME NEW s \in Service, NEW o \in Flying(s)' PROVE o \in ObjOf(s)
  BY <1>1, <1>2, <1>3, FlyingStep, ObjType DEF ClaimOK
<1>4. ASSUME NEW s \in Service, NEW o \in Flying(s)', NEW en \in Local(o)
      PROVE  s \in claimed'[en.ep]
  <2>1. en \in Entry /\ en.ep \in Endpoint
    BY <1>3, <1>4, ObjType, LocalType
  <2>2. CASE Restart
    <3>1. o = cluster[s]
      BY <1>1, <2>2, RestartFlying, LocalType
    <3> QED
      BY <2>1, <2>2, <3>1, ClaimsFacts DEF Restart
  <2>3. ASSUME NEW t \in Service, NEW oo \in ObjOf(t), Change(t, oo)
        PROVE  s \in claimed'[en.ep]
    <3>1. claimed'[en.ep] = claimed[en.ep] \union Claims(cluster')[en.ep]
      BY <2>1, <2>3 DEF Change
    <3>2. o \in Flying(s) \/ o = cluster'[s]
      BY <1>1, FlyingStep, LocalType
    <3> QED
      BY <2>1, <3>1, <3>2, ClaimsFacts DEF ClaimOK
  <2>4. ASSUME claimed' = claimed, cluster' = cluster PROVE s \in claimed'[en.ep]
    <3>1. o \in Flying(s) \/ o = cluster[s]
      BY <1>1, <2>4, FlyingStep, LocalType
    <3>2. cluster[s] \in Flying(s)
      BY DEF Flying
    <3> QED
      BY <2>4, <3>1, <3>2 DEF ClaimOK
  <2> QED
    BY <2>2, <2>3, <2>4, NextCases
    DEF Relist, TakeEvent, BeginEntry, DeleteEntry, AddEntry, Quiet, outside
<1>5. ASSUME NEW en \in worker'.dels PROVE worker'.svc \in claimed'[en.ep]
  <2>1. CASE Restart
    BY <1>5, <2>1 DEF Restart, NoWork
  <2>2. ASSUME NEW s \in Service, TakeEvent(s) PROVE worker'.svc \in claimed'[en.ep]
    <3>1. worker' = Work(s, Local(known[s]), Local(Head(queue[s]).obj)) /\ claimed' = claimed
      BY <2>2 DEF TakeEvent, outside
    <3>2. worker'.dels = Local(known[s]) /\ worker'.svc = s
      BY <1>5, <3>1, WorkFacts
    <3>3. known[s] \in Flying(s)
      BY DEF Flying
    <3> QED
      BY <1>5, <3>1, <3>2, <3>3 DEF ClaimOK
  <2>3. CASE DeleteEntry
    <3>1. /\ worker' = Work(worker.svc, worker.dels \ {worker.cur}, worker.adds)
          /\ claimed' = claimed
      BY <2>3 DEF DeleteEntry, outside
    <3>2. worker'.dels \subseteq worker.dels /\ worker'.svc = worker.svc
      BY <1>5, <3>1, WorkFacts
    <3> QED
      BY <1>5, <3>1, <3>2 DEF ClaimOK
  <2>4. CASE AddEntry
    <3>1. worker' = Work(worker.svc, {}, worker.adds \ {worker.cur})
      BY <2>4 DEF AddEntry
    <3> QED
      BY <1>5, <3>1, WorkFacts
  <2>5. ASSUME NEW e, BeginEntry(e) PROVE worker'.svc \in claimed'[en.ep]
    <3>1. worker'.dels = worker.dels /\ worker'.svc = worker.svc /\ claimed' = claimed
      BY <2>5 DEF BeginEntry, TypeOK, outside
    <3> QED
      BY <1>5, <3>1 DEF ClaimOK
  <2>6. ASSUME NEW s \in Service, NEW o \in ObjOf(s), Change(s, o)
        PROVE  worker'.svc \in claimed'[en.ep]
    <3>1. worker' = worker /\ en.ep \in Endpoint
      BY <1>5, <2>6, WorkerType, LocalType DEF Change
    <3>2. claimed'[en.ep] = claimed[en.ep] \union Claims(cluster')[en.ep]
      BY <2>6, <3>1 DEF Change
    <3> QED
      BY <1>5, <3>1, <3>2 DEF ClaimOK
  <2>7. CASE worker' = worker /\ claimed' = claimed
    BY <1>5, <2>7 DEF ClaimOK
  <2> QED
    BY <2>1, <2>2, <2>3, <2>4, <2>5, <2>6, <2>7, NextCases DEF Relist, Quiet
<1> QED
  BY <1>3, <1>4, <1>5 DEF ClaimOK

-----------------------------------------------------------------------------
(* The indexer, the worker and the table. *)

\* The version a sequence of events leaves of an object.
Latest(q, o) == IF q = << >> THEN o ELSE q[Len(q)].obj

LEMMA LatestFacts ==
    ASSUME NEW q \in Seq(Event), NEW o
    PROVE  /\ \A e \in Event : Latest(Append(q, e), o) = e.obj
           /\ q # << >> => Latest(Tail(q), Head(q).obj) = Latest(q, o)
<1>1. ASSUME NEW e \in Event PROVE Latest(Append(q, e), o) = e.obj
  BY AppendFacts DEF Latest
<1>2. ASSUME q # << >> PROVE Latest(Tail(q), Head(q).obj) = Latest(q, o)
  <2>1. PICK n \in Nat : n = Len(q) /\ n # 0
    BY <1>2, SeqFacts
  <2>2. /\ Head(q) = q[1] /\ Tail(q) \in Seq(Event) /\ Len(Tail(q)) = n - 1
        /\ \A i \in 1 .. n - 1 : Tail(q)[i] = q[i + 1]
    BY <1>2, <2>1, TailFacts
  <2>3. Tail(q) = << >> <=> n = 1
    <3>1. Tail(q) = << >> <=> Len(Tail(q)) = 0
      BY <2>2, SeqFacts
    <3> QED
      BY <2>1, <2>2, <3>1
  <2>4. CASE n = 1
    BY <1>2, <2>1, <2>2, <2>3, <2>4 DEF Latest
  <2>5. CASE n # 1
    <3>1. n - 1 \in 1 .. n - 1 /\ (n - 1) + 1 = n
      BY <2>1, <2>5
    <3>2. Tail(q)[n - 1] = q[n]
      BY <2>2, <3>1
    <3> QED
      BY <1>2, <2>1, <2>2, <2>3, <2>5, <3>2 DEF Latest
  <2> QED
    BY <2>4, <2>5
<1> QED
  BY <1>1, <1>2

LEMMA ListedLatest ==
    ASSUME NEW s \in Service, cluster[s] \in Object, NEW q \in [Service -> Seq(Event)], NEW st,
           NEW o, st[s] = Latest(q[s], o)
    PROVE  Latest(Listed(q, st)[s], o) = cluster[s]
<1>1. PICK a \in Event : a = [obj |-> cluster[s], tomb |-> FALSE]
  BY DEF Event
<1>2. PICK b \in Event : b = [obj |-> Absent, tomb |-> TRUE]
  BY DEF Event, Object
<1>3. q[s] \in Seq(Event) /\ a.obj = cluster[s] /\ b.obj = Absent
  BY <1>1, <1>2
<1>4. Latest(Append(q[s], a), o) = a.obj /\ Latest(Append(q[s], b), o) = b.obj
  BY <1>3, LatestFacts
<1> QED
  BY <1>1, <1>2, <1>3, <1>4, ListedFacts

LEMMA ListedFromNothing ==
    ASSUME NEW s \in Service, cluster[s] \in Object
    PROVE  Latest(Listed(NoEvents, NoObjects)[s], Absent) = cluster[s]
<1>1. NoEvents \in [Service -> Seq(Event)] /\ NoEvents[s] = << >> /\ NoObjects[s] = Absent
  BY DEF NoEvents, NoObjects
<1>2. NoObjects[s] = Latest(NoEvents[s], Absent)
  BY <1>1 DEF Latest
<1> QED
  BY <1>1, <1>2, ListedLatest

LEMMA StoreStep ==
    ASSUME Inv, Next
    PROVE  StoreOK'
<1> USE DEF Inv
<1>0. /\ queue \in [Service -> Seq(Event)] /\ cluster \in [Service -> Object]
      /\ known \in [Service -> Object] /\ store \in [Service -> Object]
  BY DEF TypeOK, Event
<1>1. \A s \in Service : store[s] = Latest(queue[s], known[s])
  BY DEF StoreOK, Latest
<1>2. SUFFICES /\ (running' /\ connected' => store' = cluster')
               /\ \A s \in Service : store'[s] = Latest(queue'[s], known'[s])
  BY DEF StoreOK, Latest
<1>3. ASSUME NEW t \in Service, NEW o \in ObjOf(t), Change(t, o)
      PROVE  /\ running' /\ connected' => store' = cluster'
             /\ \A s \in Service : store'[s] = Latest(queue'[s], known'[s])
  <2>0. o \in Object
    BY ObjType
  <2>1. PICK e \in Event : e = [obj |-> o, tomb |-> FALSE]
    BY <2>0 DEF Event
  <2>2. CASE connected /\ running
    <3>1. /\ store' = [store EXCEPT ![t] = o] /\ cluster' = [cluster EXCEPT ![t] = o]
          /\ queue' = [queue EXCEPT ![t] = Append(@, e)] /\ known' = known /\ store = cluster
      BY <1>3, <2>1, <2>2 DEF Change, StoreOK
    <3>2. ASSUME NEW s \in Service PROVE store'[s] = Latest(queue'[s], known'[s])
      <4>1. CASE s = t
        <5>1. store'[s] = o /\ queue'[s] = Append(queue[s], e) /\ queue[s] \in Seq(Event)
          BY <1>0, <3>1, <4>1
        <5> QED
          BY <2>1, <5>1, LatestFacts
      <4>2. CASE s # t
        BY <1>0, <1>1, <3>1, <4>2
      <4> QED
        BY <4>1, <4>2
    <3> QED
      BY <3>1, <3>2
  <2>3. CASE ~ (connected /\ running)
    BY <1>1, <1>3, <2>3 DEF Change
  <2> QED
    BY <2>2, <2>3
<1>4. CASE Relist
  <2>1. store' = cluster' /\ cluster' = cluster /\ known' = known /\ queue' = Listed(queue, store)
    BY <1>4 DEF Relist
  <2>2. ASSUME NEW s \in Service PROVE Latest(Listed(queue, store)[s], known[s]) = cluster[s]
    <3>1. cluster[s] \in Object /\ store[s] = Latest(queue[s], known[s])
      BY <1>0, <1>1
    <3> QED
      BY <1>0, <3>1, ListedLatest
  <2> QED
    BY <2>1, <2>2
<1>5. CASE Restart
  <2>1. /\ store' = cluster' /\ cluster' = cluster /\ queue' = Listed(NoEvents, NoObjects)
        /\ \A s \in Service : known'[s] = Absent
    BY <1>5 DEF Restart, NoObjects
  <2> QED
    BY <1>0, <2>1, ListedFromNothing
<1>6. ASSUME NEW t \in Service, TakeEvent(t)
      PROVE  /\ running' /\ connected' => store' = cluster'
             /\ \A s \in Service : store'[s] = Latest(queue'[s], known'[s])
  <2>1. /\ queue' = [queue EXCEPT ![t] = Tail(@)]
        /\ known' = [known EXCEPT ![t] = Head(queue[t]).obj]
        /\ queue[t] # << >> /\ store' = store /\ cluster' = cluster /\ connected' = connected
        /\ running' = running
    BY <1>6 DEF TakeEvent, outside
  <2>2. ASSUME NEW s \in Service PROVE store'[s] = Latest(queue'[s], known'[s])
    <3>1. CASE s = t
      <4>1. queue'[s] = Tail(queue[s]) /\ known'[s] = Head(queue[s]).obj /\ queue[s] \in Seq(Event)
        BY <1>0, <2>1, <3>1
      <4> QED
        BY <1>1, <2>1, <3>1, <4>1, LatestFacts
    <3>2. CASE s # t
      BY <1>0, <1>1, <2>1, <3>2
    <3> QED
      BY <3>1, <3>2
  <2> QED
    BY <2>1, <2>2 DEF StoreOK
<1>7. CASE UNCHANGED <<cluster, store, queue, known>> /\ (running' /\ connected' => running /\ connected)
  BY <1>1, <1>7 DEF StoreOK
<1> QED
  BY <1>3, <1>4, <1>5, <1>6, <1>7, NextCases
  DEF BeginEntry, DeleteEntry, AddEntry, Quiet, outside

LEMMA WorkerStep ==
    ASSUME Inv, Next
    PROVE  WorkerOK'
<1> USE DEF Inv
<1>1. ASSUME NEW s \in Service, TakeEvent(s) PROVE WorkerOK'
  <2>1. /\ worker' = Work(s, Local(known[s]), Local(Head(queue[s]).obj))
        /\ known'[s] = Head(queue[s]).obj
    BY <1>1 DEF TakeEvent, TypeOK
  <2>2. worker'.adds = Local(known'[s]) /\ worker'.cur = None
    BY <2>1, WorkFacts
  <2>3. worker' = NoWork \/ worker'.svc = s
    BY <2>1, WorkFacts
  <2> QED
    BY <2>2, <2>3 DEF WorkerOK
<1>2. ASSUME NEW en \in worker.dels \union worker.adds, BeginEntry(en) PROVE WorkerOK'
  <2>1. /\ worker'.svc = worker.svc /\ worker'.dels = worker.dels /\ worker'.adds = worker.adds
        /\ worker'.cur = en /\ known' = known
    BY <1>2 DEF BeginEntry, TypeOK
  <2>2. worker # NoWork
    BY <1>2 DEF NoWork
  <2>3. IF worker.dels # {} THEN en \in worker.dels ELSE en \in worker.adds /\ en.pod # None
    BY <1>2 DEF BeginEntry
  <2> QED
    BY <2>1, <2>2, <2>3 DEF WorkerOK
<1>3. CASE DeleteEntry
  <2>1. /\ worker' = Work(worker.svc, worker.dels \ {worker.cur}, worker.adds) /\ known' = known
        /\ worker.dels # {}
    BY <1>3 DEF DeleteEntry
  <2>2. /\ worker.svc \in Service /\ worker.adds = Local(known[worker.svc])
    BY <2>1 DEF WorkerOK, NoWork
  <2>3. worker'.adds = worker.adds /\ worker'.cur = None
    BY <2>1, WorkFacts
  <2>4. worker' = NoWork \/ worker'.svc = worker.svc
    BY <2>1, WorkFacts
  <2> QED
    BY <2>1, <2>2, <2>3, <2>4 DEF WorkerOK
<1>4. CASE AddEntry
  <2>1. /\ worker' = Work(worker.svc, {}, worker.adds \ {worker.cur}) /\ known' = known
        /\ worker.cur # None
    BY <1>4 DEF AddEntry
  <2>2. worker.svc \in Service /\ worker.adds \subseteq Local(known[worker.svc])
    BY <2>1 DEF WorkerOK, NoWork
  <2>3. worker'.adds \subseteq worker.adds /\ worker'.dels = {} /\ worker'.cur = None
    BY <2>1, WorkFacts
  <2>4. worker' = NoWork \/ worker'.svc = worker.svc
    BY <2>1, WorkFacts
  <2> QED
    BY <2>1, <2>2, <2>3, <2>4 DEF WorkerOK
<1>5. CASE worker' = NoWork
  BY <1>5 DEF WorkerOK
<1>6. CASE UNCHANGED <<worker, known>>
  BY <1>6 DEF WorkerOK
<1> QED
  BY <1>1, <1>2, <1>3, <1>4, <1>5, <1>6, NextCases DEF Change, Relist, Restart, Quiet

LEMMA StaleStep ==
    ASSUME Inv, Next
    PROVE  NoStaleProvider'
<1> USE DEF Inv
<1>0. Providers \in [Endpoint -> Provider \union {None}]
  BY DEF TypeOK
<1>1. SUFFICES ASSUME NEW ep \in Endpoint, Providers'[ep] # None
               PROVE  \/ Lists(known'[Providers'[ep].svc], ep, Providers'[ep].pod)
                      \/ /\ worker'.svc = Providers'[ep].svc
                         /\ \E en \in worker'.dels : en.ep = ep /\ en.pod = Providers'[ep].pod
  BY DEF NoStaleProvider, Lists
<1> DEFINE Goal == \/ Lists(known'[Providers'[ep].svc], ep, Providers'[ep].pod)
                   \/ /\ worker'.svc = Providers'[ep].svc
                      /\ \E en \in worker'.dels : en.ep = ep /\ en.pod = Providers'[ep].pod
<1>2. ASSUME NEW s \in Service, TakeEvent(s) PROVE Goal
  <2>1. /\ worker = NoWork /\ Providers' = Providers
        /\ worker' = Work(s, Local(known[s]), Local(Head(queue[s]).obj))
        /\ \A t \in Service \ {s} : known'[t] = known[t]
    BY <1>2 DEF TakeEvent, TypeOK, table
  <2>2. Providers[ep].svc \in Service /\ Lists(known[Providers[ep].svc], ep, Providers[ep].pod)
    BY <1>0, <1>1, <2>1 DEF NoStaleProvider, NoWork, Provider
  <2>3. CASE Providers[ep].svc = s
    <3>1. PICK en \in Local(known[s]) : en.ep = ep /\ en.pod = Providers[ep].pod
      BY <2>2, <2>3 DEF Lists
    <3>2. worker'.dels = Local(known[s]) /\ worker'.svc = s
      BY <2>1, <3>1, WorkFacts
    <3> QED
      BY <2>1, <2>3, <3>1, <3>2
  <2>4. CASE Providers[ep].svc # s
    BY <2>1, <2>2, <2>4
  <2> QED
    BY <2>3, <2>4
<1>3. CASE DeleteEntry
  <2>1. /\ worker' = Work(worker.svc, worker.dels \ {worker.cur}, worker.adds) /\ known' = known
        /\ Providers' = [Providers EXCEPT ![worker.cur.ep] = None]
    BY <1>3 DEF DeleteEntry
  <2>2. Providers'[ep] = Providers[ep] /\ worker.cur.ep # ep
    BY <1>0, <1>1, <2>1
  <2>3. CASE Lists(known[Providers[ep].svc], ep, Providers[ep].pod)
    BY <2>1, <2>2, <2>3
  <2>4. CASE worker.svc = Providers[ep].svc
             /\ \E en \in worker.dels : en.ep = ep /\ en.pod = Providers[ep].pod
    <3>1. PICK en \in worker.dels : en.ep = ep /\ en.pod = Providers[ep].pod
      BY <2>4
    <3>2. en \in worker.dels \ {worker.cur}
      BY <2>2, <3>1
    <3>3. worker'.dels = worker.dels \ {worker.cur} /\ worker'.svc = worker.svc
      BY <2>1, <3>2, WorkFacts
    <3> QED
      BY <2>2, <2>4, <3>1, <3>2, <3>3
  <2> QED
    BY <1>1, <2>2, <2>3, <2>4 DEF NoStaleProvider
<1>4. CASE AddEntry
  <2>1. /\ known' = known /\ worker.cur # None /\ worker.dels = {}
        /\ Providers' = [Providers EXCEPT ![worker.cur.ep] = [pod |-> worker.cur.pod, svc |-> worker.svc]]
    BY <1>4 DEF AddEntry
  <2>2. worker.cur \in Local(known[worker.svc])
    BY <2>1 DEF WorkerOK, NoWork
  <2>3. CASE worker.cur.ep = ep
    <3>1. Providers'[ep].pod = worker.cur.pod /\ Providers'[ep].svc = worker.svc
      BY <1>0, <2>1, <2>3
    <3> QED
      BY <2>1, <2>2, <2>3, <3>1 DEF Lists
  <2>4. CASE worker.cur.ep # ep
    <3>1. Providers'[ep] = Providers[ep]
      BY <1>0, <2>1, <2>4
    <3> QED
      BY <1>1, <2>1, <3>1 DEF NoStaleProvider
  <2> QED
    BY <2>3, <2>4
<1>5. CASE Restart
  BY <1>1, <1>5 DEF Restart
<1>6. ASSUME NEW en \in worker.dels \union worker.adds, BeginEntry(en) PROVE Goal
  <2>1. /\ worker'.svc = worker.svc /\ worker'.dels = worker.dels /\ known' = known
        /\ Providers' = Providers
    BY <1>6 DEF BeginEntry, TypeOK, table
  <2> QED
    BY <1>1, <2>1 DEF NoStaleProvider
<1>7. CASE UNCHANGED <<worker, known, Providers>>
  BY <1>1, <1>7 DEF NoStaleProvider
<1> QED
  BY <1>2, <1>3, <1>4, <1>5, <1>6, <1>7, NextCases DEF Change, Relist, Quiet, table

LEMMA ResolvedStep ==
    ASSUME Inv, Next
    PROVE  Resolved'
<1> USE DEF Inv
<1>0. /\ Providers \in [Endpoint -> Provider \union {None}] /\ known \in [Service -> Object]
      /\ known' \in [Service -> Object] /\ ClaimOK'
  BY TypeStep, ClaimStep DEF TypeOK
<1>1. SUFFICES ASSUME NEW s \in Service, NEW en \in Local(known'[s]), claimed'[en.ep] = {s}
               PROVE  \/ Providers'[en.ep] = [pod |-> en.pod, svc |-> s] /\ en.pod # None
                      \/ worker'.svc = s /\ en \in worker'.adds
  BY DEF Resolved
<1> DEFINE Goal == \/ Providers'[en.ep] = [pod |-> en.pod, svc |-> s] /\ en.pod # None
                   \/ worker'.svc = s /\ en \in worker'.adds
<1>2. en.ep \in Endpoint
  BY <1>0, LocalType
\* An entry handed on before was claimed by its service before.
<1>3. ASSUME known'[s] = known[s], claimed[en.ep] \subseteq claimed'[en.ep]
      PROVE  \/ Providers[en.ep] = [pod |-> en.pod, svc |-> s] /\ en.pod # None
             \/ worker.svc = s /\ en \in worker.adds
  <2>1. s \in claimed[en.ep]
    BY <1>1, <1>3 DEF ClaimOK, Flying
  <2>2. claimed[en.ep] = {s}
    BY <1>1, <1>3, <2>1
  <2> QED
    BY <1>1, <1>3, <2>2 DEF Resolved
<1>4. ASSUME NEW t \in Service, TakeEvent(t) PROVE Goal
  <2>1. /\ worker = NoWork /\ Providers' = Providers /\ claimed' = claimed
        /\ worker' = Work(t, Local(known[t]), Local(Head(queue[t]).obj))
        /\ known' = [known EXCEPT ![t] = Head(queue[t]).obj]
    BY <1>4 DEF TakeEvent, table, outside
  <2>2. CASE t = s
    <3>1. worker'.adds = Local(known'[s])
      BY <1>0, <2>1, <2>2, WorkFacts
    <3>2. worker'.svc = s
      BY <1>1, <2>1, <2>2, <3>1, WorkFacts
    <3> QED
      BY <1>1, <3>1, <3>2
  <2>3. CASE t # s
    <3>1. known'[s] = known[s]
      BY <1>0, <2>1, <2>3
    <3> QED
      BY <1>3, <2>1, <3>1 DEF NoWork
  <2> QED
    BY <2>2, <2>3
<1>5. CASE DeleteEntry
  <2>1. /\ worker' = Work(worker.svc, worker.dels \ {worker.cur}, worker.adds) /\ known' = known
        /\ Providers' = [Providers EXCEPT ![worker.cur.ep] = None] /\ claimed' = claimed
        /\ worker.cur \in worker.dels
    BY <1>5 DEF DeleteEntry, outside
  <2>2. ASSUME worker.svc = s, en \in worker.adds PROVE Goal
    <3>1. worker'.adds = worker.adds
      BY <2>1, WorkFacts
    <3>2. worker'.svc = s
      BY <2>1, <2>2, <3>1, WorkFacts
    <3> QED
      BY <2>2, <3>1, <3>2
  <2>3. CASE worker.cur.ep = en.ep
    <3>1. worker.svc \in claimed[worker.cur.ep]
      BY <2>1 DEF ClaimOK
    <3>2. worker.svc = s
      BY <1>1, <2>1, <2>3, <3>1
    <3>3. worker.adds = Local(known[s])
      BY <2>1, <3>2 DEF WorkerOK, NoWork
    <3> QED
      BY <1>1, <2>1, <2>2, <3>2, <3>3
  <2>4. CASE worker.cur.ep # en.ep
    <3>1. Providers'[en.ep] = Providers[en.ep]
      BY <1>0, <1>2, <2>1, <2>4
    <3> QED
      BY <1>3, <2>1, <2>2, <3>1
  <2> QED
    BY <2>3, <2>4
<1>6. CASE AddEntry
  <2>1. /\ worker' = Work(worker.svc, {}, worker.adds \ {worker.cur}) /\ known' = known
        /\ Providers' = [Providers EXCEPT ![worker.cur.ep] = [pod |-> worker.cur.pod, svc |-> worker.svc]]
        /\ claimed' = claimed /\ worker.cur # None /\ worker.dels = {}
    BY <1>6 DEF AddEntry, outside
  <2>2. /\ worker.svc \in Service /\ worker.cur \in Local(known[worker.svc])
        /\ worker.cur \in worker.adds /\ worker.cur.pod # None
    BY <2>1 DEF WorkerOK, NoWork
  <2>3. known[worker.svc] \in Flying(worker.svc)
    BY DEF Flying
  <2>4. worker.svc \in claimed[worker.cur.ep]
    BY <2>2, <2>3 DEF ClaimOK
  <2>5. CASE worker.cur.ep = en.ep
    <3>1. worker.svc = s
      BY <1>1, <2>1, <2>4, <2>5
    <3>2. known[s] \in ObjOf(s)
      BY <2>3, <3>1 DEF ClaimOK
    <3>3. worker.cur = en
      BY <1>1, <2>1, <2>2, <2>5, <3>1, <3>2, ObjType
    <3> QED
      BY <1>0, <1>2, <2>1, <2>2, <3>1, <3>3
  <2>6. CASE worker.cur.ep # en.ep
    <3>1. Providers'[en.ep] = Providers[en.ep]
      BY <1>0, <1>2, <2>1, <2>6
    <3>2. ASSUME worker.svc = s, en \in worker.adds PROVE Goal
      <4>1. worker'.adds = worker.adds \ {worker.cur} /\ en \in worker'.adds
        BY <2>1, <2>6, <3>2, WorkFacts
      <4>2. worker'.svc = s
        BY <2>1, <3>2, <4>1, WorkFacts
      <4> QED
        BY <4>1, <4>2
    <3> QED
      BY <1>3, <2>1, <3>1, <3>2
  <2> QED
    BY <2>5, <2>6
<1>7. CASE Restart
  <2>1. known'[s] = Absent
    BY <1>7 DEF Restart, NoObjects
  <2> QED
    BY <1>1, <2>1, LocalType
<1>8. ASSUME NEW e \in worker.dels \union worker.adds, BeginEntry(e) PROVE Goal
  <2>1. /\ worker'.svc = worker.svc /\ worker'.adds = worker.adds /\ known' = known
        /\ Providers' = Providers /\ claimed' = claimed
    BY <1>8 DEF BeginEntry, TypeOK, table, outside
  <2> QED
    BY <1>3, <2>1
<1>9. ASSUME NEW t \in Service, NEW o \in ObjOf(t), Change(t, o) PROVE Goal
  <2>1. /\ worker' = worker /\ known' = known /\ Providers' = Providers
        /\ claimed'[en.ep] = claimed[en.ep] \union Claims(cluster')[en.ep]
    BY <1>2, <1>9 DEF Change, table
  <2> QED
    BY <1>3, <2>1
<1>10. CASE UNCHANGED <<worker, known, Providers, claimed>>
  BY <1>3, <1>10
<1> QED
  BY <1>4, <1>5, <1>6, <1>7, <1>8, <1>9, <1>10, NextCases DEF Relist, Quiet, table

-----------------------------------------------------------------------------
(* The invariant holds, and what follows from it. *)

LEMMA InitInv ==
    ASSUME Init
    PROVE  Inv
<1>1. TypeOK
  BY InitType
<1>2. /\ NoEvents \in [Service -> Seq(Event)]
      /\ \A s \in Service : NoEvents[s] = << >> /\ NoEvents[s] \in Seq(Event)
  BY DEF NoEvents
<1>3. ClaimOK
  <2>1. ASSUME NEW s \in Service, NEW o \in Flying(s) PROVE o \in {cluster[s], Absent}
    <3>1. Versions(NoEvents[s]) = {}
      BY <1>2, VersionsFacts
    <3>2. cluster[s] \in Object
      BY <1>1 DEF TypeOK
    <3>3. Versions(Listed(NoEvents, NoObjects)[s]) \subseteq {cluster[s], Absent}
      BY <1>2, <3>1, <3>2, ListedVersions
    <3> QED
      BY <2>1, <3>3 DEF Init, Flying, NoObjects
  <2>2. ASSUME NEW s \in Service PROVE cluster[s] \in ObjOf(s)
    BY DEF Init, ObjOf
  <2>3. ASSUME NEW s \in Service, NEW o \in Flying(s), NEW en \in Local(o)
        PROVE  s \in claimed[en.ep]
    <3>1. o = cluster[s]
      BY <2>1, <2>3, LocalType
    <3>2. en.ep \in Endpoint
      BY <2>2, <3>1, ObjType, LocalType
    <3> QED
      BY <3>1, <3>2, ClaimsFacts DEF Init
  <2>4. worker.dels = {}
    BY DEF Init, NoWork
  <2> QED
    BY <2>1, <2>2, <2>3, <2>4, ObjType DEF ClaimOK
<1>4. StoreOK
  <2>1. ASSUME NEW s \in Service PROVE store[s] = Latest(queue[s], known[s])
    <3>1. cluster[s] \in Object
      BY <1>1 DEF TypeOK
    <3>2. store[s] = cluster[s] /\ queue = Listed(NoEvents, NoObjects) /\ known[s] = Absent
      BY DEF Init, NoObjects
    <3> QED
      BY <3>1, <3>2, ListedFromNothing
  <2> QED
    BY <2>1 DEF StoreOK, Latest, Init
<1>5. WorkerOK
  BY DEF Init, WorkerOK
<1>6. NoStaleProvider
  BY DEF Init, NoStaleProvider
<1>7. Resolved
  BY LocalType DEF Init, Resolved, NoObjects
<1> QED
  BY <1>1, <1>3, <1>4, <1>5, <1>6, <1>7 DEF Inv

LEMMA InvStep ==
    ASSUME Inv, [Next]_vars
    PROVE  Inv'
<1>1. CASE Next
  BY <1>1, TypeStep, ClaimStep, StoreStep, WorkerStep, StaleStep, ResolvedStep DEF Inv
<1>2. CASE UNCHANGED vars
  <2>1. UNCHANGED <<cluster, connected, store, queue, known, worker, Providers, filter_ip, claimed,
                    running>>
    BY <1>2 DEF vars, outside, table
  <2>2. TypeOK'
    BY TypeStep DEF Inv
  <2>3. ClaimOK'
    BY <2>1 DEF Inv, ClaimOK, Flying
  <2>4. StoreOK' /\ WorkerOK'
    BY <2>1 DEF Inv, StoreOK, WorkerOK
  <2>5. NoStaleProvider' /\ Resolved'
    BY <2>1 DEF Inv, NoStaleProvider, Lists, Resolved
  <2> QED
    BY <2>2, <2>3, <2>4, <2>5 DEF Inv
<1> QED
  BY <1>1, <1>2

LEMMA InvHolds == Spec => []Inv
  BY InitInv, InvStep, PTL DEF Spec

\* With every event handled, the handlers know the cluster as it is.
LEMMA KnownWhenQuiescent ==
    ASSUME Inv, Quiescent
    PROVE  known = cluster /\ worker = NoWork /\ \A s \in Service : queue[s] = << >>
  BY DEF Inv, TypeOK, StoreOK, Quiescent, NoEvents

LEMMA QuiescentAgreed ==
    ASSUME Inv, Quiescent
    PROVE  Agreed
<1>1. known = cluster /\ worker.adds = {} /\ worker.dels = {}
  BY KnownWhenQuiescent DEF NoWork
<1>2. ASSUME NEW s \in Service, NEW en \in Local(cluster[s]), claimed[en.ep] = {s}
      PROVE  Providers[en.ep] = [pod |-> en.pod, svc |-> s]
  BY <1>1, <1>2 DEF Inv, Resolved
<1>3. ASSUME NEW ep \in Endpoint, Providers[ep] # None
      PROVE  Lists(cluster[Providers[ep].svc], ep, Providers[ep].pod)
  BY <1>1, <1>3 DEF Inv, NoStaleProvider
<1> QED
  BY <1>2, <1>3 DEF Agreed

\* Every variable of the endpoint table keeps a value of its type.
THEOREM TypeOKHolds == Spec => []TypeOK
  BY InvHolds, PTL DEF Inv

\* No stale attribution: GetPodByEndpoint resolves an endpoint only to a pod that
\* its service's object lists as the agent knows it, or that addEndpoints and
\* deleteEndpoints are about to replace, for any number of services, changes,
\* broken watches, crashes and restarts.
THEOREM NoStaleProviderHolds == Spec => []NoStaleProvider
  BY InvHolds, PTL DEF Inv

\* With every event handled, Providers resolves an endpoint of one service to its
\* pod and no endpoint to a pod the cluster does not list for it.
THEOREM AgreedWhenQuiescentHolds == Spec => []AgreedWhenQuiescent
<1>1. Inv => AgreedWhenQuiescent
  BY QuiescentAgreed DEF AgreedWhenQuiescent
<1> QED
  BY <1>1, InvHolds, PTL

-----------------------------------------------------------------------------
(* The records in the ring buffer. *)

\* Of an endpoint accessed when every event was handled, all versions that may
\* still be handed on, and the table, know no other pods than the owners since.
FreshOK(r) ==
    /\ \A s \in Service : \A o \in Flying(s) : \A en \in Local(o) :
          en.ep = r.ep => en.pod \in r.owners
    /\ Providers[r.ep] # None => Providers[r.ep].pod \in r.owners

SettledOK(r) ==
    /\ Quiescent
    /\ r.owners = Owners(cluster, r.ep)
    /\ \A s, t \in claimed[r.ep] : s = t

RecordOK(r) ==
    /\ r.ep \in Endpoint
    /\ r.dst_ip = LoadedUint32(IpOf[r.ep[1]]) /\ r.dst_port = LoadedUint16(Wire(r.ep[2]))
    /\ r.fresh => FreshOK(r)
    /\ r.settled => SettledOK(r)

\* A record of the ring buffer, with its history.
Record == [dst_ip : {LoadedUint32(IpOf[i]) : i \in Ip}, dst_port : {LoadedUint16(Wire(p)) : p \in Port},
           ep : Endpoint, fresh : BOOLEAN, settled : BOOLEAN, owners : SUBSET (Pod \union {None})]

RecordsOK ==
    /\ packets \in Seq(Record)
    /\ ~ running => packets = << >>
    /\ \A r \in Record : (\E i \in 1 .. Len(packets) : packets[i] = r) => RecordOK(r)

AttrInv == Inv /\ RecordsOK /\ NeverEarlierOwner /\ SettledAttributed

-----------------------------------------------------------------------------
(* The byte orders. *)

LEMMA WireNumber ==
    ASSUME NEW p \in Port
    PROVE  Number(Ntohs(LoadedUint16(Wire(p)))) = p
<1>1. p \in Nat
  BY BytesAssumption
<1>2. Number(Ntohs(LoadedUint16(Wire(p)))) = (p \div 256) * 256 + (p % 256)
  BY DEF Number, Ntohs, LoadedUint16, Wire
<1>3. \A n \in Nat : (n \div 256) * 256 + (n % 256) = n
  OBVIOUS
<1> QED
  BY <1>1, <1>2, <1>3

LEMMA AddressBack ==
    ASSUME NEW i \in Ip
    PROVE  intToIP(LoadedUint32(IpOf[i])) = IpOf[i]
<1>1. IpOf[i] \in Bytes4
  BY ConstantsAssumption
<1>2. IpOf[i] = <<IpOf[i][1], IpOf[i][2], IpOf[i][3], IpOf[i][4]>>
  BY <1>1 DEF Bytes4
<1> QED
  BY <1>2 DEF intToIP, LoadedUint32

\* DecodeMapItem looks up the very endpoint the access went to.
LEMMA LookupFinds ==
    ASSUME NEW ep \in Endpoint
    PROVE  Lookup(LoadedUint32(IpOf[ep[1]]), LoadedUint16(Wire(ep[2]))) =
             IF Providers[ep] # None THEN {Providers[ep].pod} ELSE {}
<1>1. ep[1] \in Ip /\ ep[2] \in Port /\ ep = <<ep[1], ep[2]>>
  BY DEF Endpoint
<1>2. intToIP(LoadedUint32(IpOf[ep[1]])) = IpOf[ep[1]]
  BY <1>1, AddressBack
<1>3. Number(Ntohs(LoadedUint16(Wire(ep[2])))) = ep[2]
  BY <1>1, WireNumber
<1>4. ASSUME NEW e \in Endpoint, IpOf[e[1]] = IpOf[ep[1]], e[2] = ep[2] PROVE e = ep
  <2>1. e[1] \in Ip /\ e = <<e[1], e[2]>>
    BY DEF Endpoint
  <2>2. e[1] = ep[1]
    BY <1>1, <1>4, <2>1, BytesAssumption
  <2> QED
    BY <1>1, <1>4, <2>1, <2>2
<1>5. {e \in Endpoint : IpOf[e[1]] = IpOf[ep[1]] /\ e[2] = ep[2] /\ Providers[e] # None}
        = IF Providers[ep] # None THEN {ep} ELSE {}
  BY <1>4
<1> QED
  BY <1>2, <1>3, <1>5 DEF Lookup

-----------------------------------------------------------------------------
(* The records wait. *)

LEMMA OwnersFacts ==
    ASSUME NEW objects, NEW ep
    PROVE  \A pod : pod \in Owners(objects, ep) <=>
              \E s \in Service : \E en \in Local(objects[s]) : en.ep = ep /\ en.pod = pod
  BY DEF Owners

LEMMA OwnersType ==
    ASSUME NEW objects \in [Service -> Object], NEW ep
    PROVE  Owners(objects, ep) \in SUBSET (Pod \union {None})
<1>1. ASSUME NEW pod \in Owners(objects, ep) PROVE pod \in Pod \union {None}
  BY <1>1, OwnersFacts, LocalType
<1> QED
  BY <1>1

\* A provider is new only if the version handed on last lists it.
LEMMA ProvidersStep ==
    ASSUME Inv, Next, NEW ep \in Endpoint, Providers'[ep] # None
    PROVE  \/ Providers'[ep] = Providers[ep]
           \/ \E s \in Service : \E en \in Local(known[s]) :
                 en.ep = ep /\ en.pod = Providers'[ep].pod
<1>0. Providers \in [Endpoint -> Provider \union {None}]
  BY DEF Inv, TypeOK
<1>1. CASE AddEntry
  <2>1. /\ Providers' = [Providers EXCEPT ![worker.cur.ep] = [pod |-> worker.cur.pod, svc |-> worker.svc]]
        /\ worker.cur # None /\ worker.dels = {}
    BY <1>1 DEF AddEntry
  <2>2. worker.svc \in Service /\ worker.cur \in Local(known[worker.svc])
    BY <2>1 DEF Inv, WorkerOK, NoWork
  <2>3. CASE worker.cur.ep = ep
    <3>1. Providers'[ep].pod = worker.cur.pod
      BY <1>0, <2>1, <2>3
    <3> QED
      BY <2>2, <2>3, <3>1
  <2>4. CASE worker.cur.ep # ep
    BY <1>0, <2>1, <2>4
  <2> QED
    BY <2>3, <2>4
<1>2. CASE DeleteEntry
  BY <1>0, <1>2 DEF DeleteEntry
<1>3. CASE Restart
  BY <1>3 DEF Restart
<1>4. CASE Providers' = Providers
  BY <1>4
<1> QED
  BY <1>1, <1>2, <1>3, <1>4, NextCases DEF Change, Relist, TakeEvent, BeginEntry, Quiet, table

LEMMA ClaimedStep ==
    ASSUME Inv, Next, running, cluster' = cluster
    PROVE  claimed' = claimed
<1>1. ASSUME NEW s \in Service, NEW o \in ObjOf(s), Change(s, o) PROVE FALSE
  BY <1>1 DEF Change, Inv, TypeOK
<1> QED
  BY <1>1, NextCases DEF Relist, Restart, TakeEvent, BeginEntry, DeleteEntry, AddEntry, Quiet, outside

LEMMA RecordStep ==
    ASSUME Inv, Next, running, NEW r \in Record, NEW q \in Record, RecordOK(r),
           q = [r EXCEPT !.settled = @ /\ Quiescent' /\ cluster' = cluster,
                         !.owners = @ \union Owners(cluster', r.ep)]
    PROVE  RecordOK(q)'
<1>1. /\ q.ep = r.ep /\ q.dst_ip = r.dst_ip /\ q.dst_port = r.dst_port /\ q.fresh = r.fresh
      /\ q.settled = (r.settled /\ Quiescent' /\ cluster' = cluster)
      /\ q.owners = r.owners \union Owners(cluster', r.ep) /\ r.ep \in Endpoint
  BY DEF Record
<1>2. ASSUME r.fresh PROVE FreshOK(q)'
  <2>1. FreshOK(r)
    BY <1>2 DEF RecordOK
  <2>2. ASSUME NEW s \in Service, NEW o \in Flying(s)', NEW en \in Local(o), en.ep = q.ep
        PROVE  en.pod \in q.owners
    <3>1. o \in Flying(s) \/ o = cluster'[s]
      BY <2>2, FlyingStep, LocalType DEF Inv
    <3>2. CASE o \in Flying(s)
      BY <1>1, <2>1, <2>2, <3>2 DEF FreshOK
    <3>3. CASE o = cluster'[s]
      BY <1>1, <2>2, <3>3, OwnersFacts
    <3> QED
      BY <3>1, <3>2, <3>3
  <2>3. ASSUME Providers'[q.ep] # None PROVE Providers'[q.ep].pod \in q.owners
    <3>1. CASE Providers'[r.ep] = Providers[r.ep]
      BY <1>1, <2>1, <2>3, <3>1 DEF FreshOK
    <3>2. ASSUME NEW s \in Service, NEW en \in Local(known[s]),
                 en.ep = r.ep, en.pod = Providers'[r.ep].pod
          PROVE  Providers'[q.ep].pod \in q.owners
      BY <1>1, <2>1, <3>2 DEF FreshOK, Flying
    <3> QED
      BY <1>1, <2>3, <3>1, <3>2, ProvidersStep
  <2> QED
    BY <2>2, <2>3 DEF FreshOK
<1>3. ASSUME q.settled PROVE SettledOK(q)'
  <2>1. SettledOK(r) /\ Quiescent' /\ cluster' = cluster
    BY <1>1, <1>3 DEF RecordOK
  <2>2. claimed' = claimed
    BY <2>1, ClaimedStep
  <2>3. q.owners = Owners(cluster', q.ep)
    BY <1>1, <2>1 DEF SettledOK
  <2> QED
    BY <1>1, <2>1, <2>2, <2>3 DEF SettledOK, Owners
<1> QED
  BY <1>1, <1>2, <1>3 DEF RecordOK

\* The record of an access.
LEMMA AccessRecord ==
    ASSUME Inv, NEW ep \in Endpoint, NEW r,
           r = [dst_ip |-> LoadedUint32(IpOf[ep[1]]), dst_port |-> LoadedUint16(Wire(ep[2])), ep |-> ep,
                fresh |-> Quiescent, settled |-> Quiescent /\ \A s, t \in claimed[ep] : s = t,
                owners |-> Owners(cluster, ep)]
    PROVE  r \in Record /\ RecordOK(r)
<1>0. cluster \in [Service -> Object] /\ ep[1] \in Ip /\ ep[2] \in Port
  BY DEF Inv, TypeOK, Endpoint
<1>1. Owners(cluster, ep) \in SUBSET (Pod \union {None})
  BY <1>0, OwnersType
<1>2. /\ r.ep = ep /\ r.dst_ip = LoadedUint32(IpOf[ep[1]]) /\ r.dst_port = LoadedUint16(Wire(ep[2]))
      /\ r.fresh = Quiescent /\ r.settled = (Quiescent /\ \A s, t \in claimed[ep] : s = t)
      /\ r.owners = Owners(cluster, ep)
  OBVIOUS
<1>3. Quiescent \in BOOLEAN /\ (Quiescent /\ \A s, t \in claimed[ep] : s = t) \in BOOLEAN
  BY DEF Quiescent, Inv, TypeOK
<1>4. r \in Record
  BY <1>0, <1>1, <1>3 DEF Record
<1>5. ASSUME Quiescent PROVE FreshOK(r)
  <2>1. known = cluster /\ \A s \in Service : queue[s] = << >>
    BY <1>5, KnownWhenQuiescent
  <2>2. ASSUME NEW s \in Service PROVE Flying(s) = {cluster[s]}
    <3>1. queue[s] \in Seq(Event)
      BY DEF Inv, TypeOK, Event
    <3> QED
      BY <2>1, <3>1, VersionsFacts DEF Flying
  <2>3. ASSUME Providers[ep] # None PROVE Providers[ep].pod \in Owners(cluster, ep)
    <3>1. Lists(cluster[Providers[ep].svc], ep, Providers[ep].pod)
      BY <1>5, <2>3, QuiescentAgreed DEF Agreed
    <3>2. Providers[ep].svc \in Service
      BY <2>3 DEF Inv, TypeOK, Provider
    <3> QED
      BY <3>1, <3>2, OwnersFacts DEF Lists
  <2> QED
    BY <1>2, <2>2, <2>3, OwnersFacts DEF FreshOK
<1>6. ASSUME r.settled PROVE SettledOK(r)
  BY <1>2, <1>6 DEF SettledOK
<1> QED
  BY <1>2, <1>4, <1>5, <1>6 DEF RecordOK

LEMMA FunctionSeq ==
    ASSUME NEW S, NEW n \in Nat, NEW f \in [1 .. n -> S]
    PROVE  f \in Seq(S) /\ Len(f) = n
OBVIOUS

\* What a record says is about the endpoint table alone.
LEMMA RecordUnchanged ==
    ASSUME UNCHANGED vars, NEW r
    PROVE  RecordOK(r)' <=> RecordOK(r)
<1>1. UNCHANGED <<cluster, connected, queue, known, worker, Providers, claimed, running>>
  BY DEF vars, outside, table
<1> QED
  BY <1>1 DEF RecordOK, FreshOK, SettledOK, Flying, Quiescent, Owners

\* A quiescent table names the owner of an endpoint one service listed.
LEMMA SettledPod ==
    ASSUME Inv, NEW r \in Record, SettledOK(r)
    PROVE  /\ Providers[r.ep] # None => r.owners = {Providers[r.ep].pod} \ {None}
           /\ Providers[r.ep] = None => r.owners = {}
<1>0. /\ r.ep \in Endpoint /\ cluster \in [Service -> Object]
      /\ Providers[r.ep] \in Provider \union {None}
  BY DEF Record, Inv, TypeOK
<1>1. known = cluster /\ worker.adds = {}
  BY KnownWhenQuiescent DEF SettledOK, NoWork
<1>2. ASSUME NEW s \in Service, NEW en \in Local(cluster[s]), en.ep = r.ep
      PROVE  Providers[r.ep] = [pod |-> en.pod, svc |-> s] /\ en.pod # None
  <2>1. cluster[s] \in Flying(s)
    BY DEF Flying
  <2>2. s \in claimed[r.ep]
    BY <1>2, <2>1 DEF Inv, ClaimOK
  <2>3. claimed[en.ep] = {s}
    BY <1>2, <2>2 DEF SettledOK
  <2> QED
    BY <1>1, <1>2, <2>3 DEF Inv, Resolved
<1>3. CASE Providers[r.ep] # None
  <2>1. Providers[r.ep].svc \in Service /\ Providers[r.ep].pod \in Pod
    BY <1>0, <1>3 DEF Provider
  <2>2. Lists(cluster[Providers[r.ep].svc], r.ep, Providers[r.ep].pod)
    BY <1>0, <1>3, QuiescentAgreed DEF Agreed, SettledOK
  <2>3. Providers[r.ep].pod \in Owners(cluster, r.ep)
    BY <2>1, <2>2, OwnersFacts DEF Lists
  <2>4. ASSUME NEW pod \in Owners(cluster, r.ep) PROVE pod = Providers[r.ep].pod
    <3>0. PICK s \in Service : \E en \in Local(cluster[s]) : en.ep = r.ep /\ en.pod = pod
      BY <2>4, OwnersFacts
    <3>1. PICK en \in Local(cluster[s]) : en.ep = r.ep /\ en.pod = pod
      BY <3>0
    <3>2. Providers[r.ep] = [pod |-> en.pod, svc |-> s]
      BY <1>2, <3>1
    <3> QED
      BY <3>1, <3>2
  <2>5. Providers[r.ep].pod # None
    BY <2>1, ConstantsAssumption
  <2> QED
    BY <1>3, <2>3, <2>4, <2>5 DEF SettledOK
<1>4. CASE Providers[r.ep] = None
  <2>1. ASSUME NEW pod \in Owners(cluster, r.ep) PROVE FALSE
    <3>0. PICK s \in Service : \E en \in Local(cluster[s]) : en.ep = r.ep /\ en.pod = pod
      BY <2>1, OwnersFacts
    <3>1. PICK en \in Local(cluster[s]) : en.ep = r.ep /\ en.pod = pod
      BY <3>0
    <3>2. None = [pod |-> en.pod, svc |-> s] /\ en.pod # None
      BY <1>2, <1>4, <3>1
    <3>3. en.pod \in Pod
      BY <1>0, <3>1, <3>2, LocalType
    <3>4. [pod |-> en.pod, svc |-> s] \in Provider
      BY <3>3 DEF Provider
    <3> QED
      BY <3>2, <3>4, ConstantsAssumption
  <2> QED
    BY <1>4, <2>1 DEF SettledOK
<1> QED
  BY <1>3, <1>4

LEMMA AttrInitInv ==
    ASSUME AttrInit
    PROVE  AttrInv
<1>1. Inv
  BY InitInv DEF AttrInit
<1>2. RecordsOK
  BY DEF AttrInit, RecordsOK
<1> QED
  BY <1>1, <1>2 DEF AttrInit, AttrInv, NeverEarlierOwner, SettledAttributed

LEMMA AccessStep ==
    ASSUME AttrInv, NEW ep \in Endpoint, Access(ep)
    PROVE  RecordsOK'
<1>0. Inv /\ packets \in Seq(Record) /\ running' /\ UNCHANGED vars
  BY DEF AttrInv, RecordsOK, Access, vars
<1>1. PICK q : q = [dst_ip |-> LoadedUint32(IpOf[ep[1]]), dst_port |-> LoadedUint16(Wire(ep[2])),
                    ep |-> ep, fresh |-> Quiescent,
                    settled |-> Quiescent /\ \A s, t \in claimed[ep] : s = t,
                    owners |-> Owners(cluster, ep)]
  OBVIOUS
<1>2. q \in Record /\ RecordOK(q)
  BY <1>0, <1>1, AccessRecord
<1>3. packets' = Append(packets, q)
  BY <1>1 DEF Access
<1>4. PICK n \in Nat : n = Len(packets)
  BY <1>0, SeqFacts
<1>5. /\ packets' \in Seq(Record) /\ Len(packets') = n + 1 /\ packets'[n + 1] = q
      /\ \A i \in 1 .. n : packets'[i] = packets[i]
  BY <1>0, <1>2, <1>3, <1>4, AppendFacts
<1>6. ASSUME NEW r \in Record, NEW i \in 1 .. Len(packets'), packets'[i] = r PROVE RecordOK(r)'
  <2>1. CASE i = n + 1
    BY <1>0, <1>2, <1>5, <1>6, <2>1, RecordUnchanged
  <2>2. CASE i # n + 1
    <3>1. i \in 1 .. n
      BY <1>5, <1>6, <2>2
    <3>2. RecordOK(r)
      BY <1>4, <1>5, <1>6, <3>1 DEF AttrInv, RecordsOK
    <3> QED
      BY <1>0, <3>2, RecordUnchanged
  <2> QED
    BY <2>1, <2>2
<1> QED
  BY <1>0, <1>5, <1>6 DEF RecordsOK

LEMMA DecodeStep ==
    ASSUME AttrInv, DecodeMapItem
    PROVE  RecordsOK' /\ NeverEarlierOwner' /\ SettledAttributed'
<1>0. /\ Inv /\ packets \in Seq(Record) /\ running' /\ UNCHANGED vars /\ packets # << >>
      /\ packets' = Tail(packets)
  BY DEF AttrInv, RecordsOK, DecodeMapItem, vars
<1>1. /\ Head(packets) \in Record /\ Head(packets) = packets[1] /\ 1 \in 1 .. Len(packets)
      /\ packets' \in Seq(Record)
      /\ \A i \in 1 .. Len(packets') : i + 1 \in 1 .. Len(packets) /\ packets'[i] = packets[i + 1]
  BY <1>0, TailFacts
<1>2. ASSUME NEW r \in Record, NEW i \in 1 .. Len(packets'), packets'[i] = r PROVE RecordOK(r)'
  <2>1. i + 1 \in 1 .. Len(packets) /\ packets[i + 1] = r
    BY <1>1, <1>2
  <2>2. RecordOK(r)
    BY <2>1 DEF AttrInv, RecordsOK
  <2> QED
    BY <1>0, <2>2, RecordUnchanged
<1>3. RecordsOK'
  BY <1>0, <1>1, <1>2 DEF RecordsOK
<1>4. PICK rec \in Record : rec = Head(packets)
  BY <1>1
<1>5. RecordOK(rec)
  BY <1>1, <1>4 DEF AttrInv, RecordsOK
<1>6. rec.ep \in Endpoint
  BY <1>4 DEF Record
<1>7. Lookup(rec.dst_ip, rec.dst_port) = IF Providers[rec.ep] # None THEN {Providers[rec.ep].pod} ELSE {}
  BY <1>5, <1>6, LookupFinds DEF RecordOK
<1>8. CASE Providers[rec.ep] # None
  <2>1. traffic' = [rec |-> rec, pod |-> Providers[rec.ep].pod]
    BY <1>4, <1>7, <1>8 DEF DecodeMapItem
  <2>2. traffic'.rec = rec /\ traffic'.pod = Providers[rec.ep].pod
    BY <2>1
  <2>3. NeverEarlierOwner'
    BY <1>5, <1>8, <2>2 DEF NeverEarlierOwner, RecordOK, FreshOK
  <2>4. SettledAttributed'
    BY <1>0, <1>5, <1>8, <2>2, SettledPod DEF SettledAttributed, RecordOK
  <2> QED
    BY <1>3, <2>3, <2>4
<1>9. CASE Providers[rec.ep] = None
  <2>1. traffic' = [rec |-> rec, pod |-> None]
    BY <1>4, <1>7, <1>9 DEF DecodeMapItem
  <2>2. traffic'.rec = rec /\ traffic'.pod = None
    BY <2>1
  <2>3. NeverEarlierOwner'
    BY <2>2 DEF NeverEarlierOwner
  <2>4. SettledAttributed'
    BY <1>0, <1>5, <1>9, <2>2, SettledPod DEF SettledAttributed, RecordOK
  <2> QED
    BY <1>3, <2>3, <2>4
<1> QED
  BY <1>8, <1>9

LEMMA ElsewhereStep ==
    ASSUME AttrInv, Elsewhere
    PROVE  RecordsOK'
<1>0. Inv /\ Next /\ packets \in Seq(Record) /\ Inv' /\ cluster' \in [Service -> Object]
  BY InvStep DEF AttrInv, RecordsOK, Elsewhere, Inv, TypeOK
<1>1. CASE ~ running'
  <2>1. packets' = << >>
    BY <1>1 DEF Elsewhere
  <2> QED
    BY <2>1 DEF RecordsOK
<1>2. CASE running'
  <2>1. PICK n \in Nat : n = Len(packets)
    BY <1>0, SeqFacts
  <2>2. /\ DOMAIN packets = 1 .. n
        /\ \A i \in 1 .. n : packets[i] \in Record
    BY <1>0, <2>1
  <2>3. packets' = [i \in 1 .. n |->
                 [packets[i] EXCEPT !.settled = @ /\ Quiescent' /\ cluster' = cluster,
                                    !.owners = @ \union Owners(cluster', packets[i].ep)]]
    BY <1>2, <2>2 DEF Elsewhere
  <2>4. ASSUME NEW i \in 1 .. n
        PROVE  packets'[i] \in Record /\ RecordOK(packets[i])'
    <3>1. PICK r \in Record : r = packets[i]
      BY <2>2, <2>4
    <3>2. PICK q : q = [r EXCEPT !.settled = @ /\ Quiescent' /\ cluster' = cluster,
                                 !.owners = @ \union Owners(cluster', r.ep)]
      OBVIOUS
    <3>3. packets'[i] = q
      BY <2>3, <2>4, <3>1, <3>2
    <3>4. Owners(cluster', r.ep) \in SUBSET (Pod \union {None})
      BY <1>0, OwnersType
    <3>5. q \in Record
      BY <3>1, <3>2, <3>4 DEF Record
    <3>6. RecordOK(r) /\ running
      BY <2>1, <2>4, <3>1, SeqFacts DEF AttrInv, RecordsOK
    <3>7. RecordOK(q)'
      BY <1>0, <3>1, <3>2, <3>5, <3>6, RecordStep
    <3> QED
      BY <3>3, <3>5, <3>7
  <2>5. packets' \in [1 .. n -> Record]
    BY <2>3, <2>4
  <2>6. packets' \in Seq(Record) /\ Len(packets') = n
    BY <2>5, FunctionSeq
  <2> QED
    BY <1>2, <2>4, <2>6 DEF RecordsOK
<1> QED
  BY <1>1, <1>2

LEMMA AttrInvStep ==
    ASSUME AttrInv, [AttrNext]_attrVars
    PROVE  AttrInv'
<1>1. ASSUME NEW ep \in Endpoint, Access(ep) PROVE AttrInv'
  <2>1. Inv'
    BY <1>1, InvStep DEF AttrInv, Access
  <2>2. NeverEarlierOwner' /\ SettledAttributed'
    BY <1>1 DEF AttrInv, Access, NeverEarlierOwner, SettledAttributed
  <2> QED
    BY <1>1, <2>1, <2>2, AccessStep DEF AttrInv
<1>2. CASE DecodeMapItem
  <2>1. Inv'
    BY <1>2, InvStep DEF AttrInv, DecodeMapItem
  <2> QED
    BY <1>2, <2>1, DecodeStep DEF AttrInv
<1>3. CASE Elsewhere
  <2>1. Inv'
    BY <1>3, InvStep DEF AttrInv, Elsewhere
  <2>2. NeverEarlierOwner' /\ SettledAttributed'
    BY <1>3 DEF AttrInv, Elsewhere, NeverEarlierOwner, SettledAttributed
  <2> QED
    BY <1>3, <2>1, <2>2, ElsewhereStep DEF AttrInv
<1>4. CASE UNCHANGED attrVars
  <2>1. UNCHANGED vars /\ packets' = packets /\ traffic' = traffic /\ running' = running
    BY <1>4 DEF attrVars, vars
  <2>2. Inv'
    BY <2>1, InvStep DEF AttrInv
  <2>3. RecordsOK'
    BY <2>1, RecordUnchanged DEF AttrInv, RecordsOK
  <2> QED
    BY <2>1, <2>2, <2>3 DEF AttrInv, NeverEarlierOwner, SettledAttributed
<1> QED
  BY <1>1, <1>2, <1>3, <1>4 DEF AttrNext

LEMMA AttrInvHolds == AttrSpec => []AttrInv
  BY AttrInitInv, AttrInvStep, PTL DEF AttrSpec

\* A record is never put down to an earlier owner of its destination: if every
\* event was handled when the access was answered, the pod DecodeMapItem gives it
\* owned the endpoint then or later, for any ring buffer, objects and changes.
THEOREM NeverEarlierOwnerHolds == AttrSpec => []NeverEarlierOwner
  BY AttrInvHolds, PTL DEF AttrInv

\* While nothing changes, the record of an access to an endpoint of one service is
\* given the pod that owns it, and none is given up if there is an owner.
THEOREM SettledAttributedHolds == AttrSpec => []SettledAttributed
  BY AttrInvHolds, PTL DEF AttrInv
=============================================================================
