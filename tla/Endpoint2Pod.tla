---------------------------- MODULE Endpoint2Pod ----------------------------
(***************************************************************************)
(* The agent's table of the node's endpoints (internal/endpoint2pod), kept *)
(* by the handlers of the Endpoints informer (internal/k8s), and the keys  *)
(* of filter_ip the http plugin maintains through its callbacks            *)
(* (plugins/http/ebpf.go: WriteFilterIP, Registry, AddFilterIP,            *)
(* DeleteFilterIP).                                                        *)
(*                                                                         *)
(* Three goroutines share Providers and the callback slices, without any   *)
(* lock: the informer's handler goroutine, the http plugin that starts     *)
(* (walks Providers, registers its callbacks) and then looks endpoints up, *)
(* and, outside the agent, the API server whose objects change.            *)
(*                                                                         *)
(* An Endpoints object is the set of the (address, port) pairs of its      *)
(* subsets; the order in which a handler walks them is left open.  So is   *)
(* the order between the events of two objects: a list brings the objects  *)
(* in any order, and client-go's DeltaFIFO hands the events of one object  *)
(* on together, past earlier events of others.                             *)
(***************************************************************************)
EXTENDS IpBytes, Sequences

CONSTANTS
    Service,     \* names of the Endpoints objects
    Ip,          \* addresses
    IpOf,        \* the bytes of an address
    Port,        \* ports
    Pod,         \* pods a TargetRef names
    None,        \* no value: nil, no provider
    Absent,      \* the object does not exist
    Objects,     \* the contents an object may have, per service
    MaxChange,   \* bound: changes of objects
    MaxRelist,   \* bound: times the watch breaks
    MaxCrash     \* bound: times goroutines meet in an unlocked map

Endpoint == Ip \X Port
\* An (address, port) pair of an object; local: *address.NodeName == nodeName.
Entry == [ep : Endpoint, pod : Pod \union {None}, local : BOOLEAN]
Provider == [pod : Pod, svc : Service]
Object == {Absent} \union SUBSET Entry

ASSUME ConstantsAssumption ==
    /\ IpOf \in [Ip -> Bytes4]
    /\ Objects \in [Service -> SUBSET SUBSET Entry]
    /\ \A s \in Service : \A o \in Objects[s] : \A a, b \in o : a.ep = b.ep => a = b
    /\ None \notin Pod \union Provider \union Entry \union Service
    /\ \A s \in Service : Absent \notin Objects[s]
    /\ MaxChange \in Nat /\ MaxRelist \in Nat /\ MaxCrash \in Nat

VARIABLES
    cluster,     \* the objects of the API server
    connected,   \* the watch is up
    store,       \* the informer's indexer: objects as of the last event queued
    queue,       \* per object: events not yet handed to the handlers
    known,       \* objects as of the last event handed to the handlers
    worker,      \* the event the handlers are working on
    Providers,   \* Endpoint2Pod.Providers
    filter_ip,   \* keys of the eBPF map
    handlers,    \* callbacks registered with Endpoint2Pod
    starter,     \* the http plugin: HttpEbpf.Start
    running,     \* the process is alive
    claimed,     \* history: services that listed an endpoint since the agent started
    changes, relists, crashes

outside == <<cluster, connected, store, claimed>>
table == <<Providers, filter_ip>>
bounds == <<changes, relists, crashes>>
vars == <<outside, queue, known, worker, table, handlers, starter, running, bounds>>

NoWork == [svc |-> None, dels |-> {}, adds |-> {}, cur |-> None]

\* What is left to do of an event of object s; it is done when nothing is.
Work(s, dels, adds) ==
    IF dels = {} /\ adds = {} THEN NoWork
    ELSE [svc |-> s, dels |-> dels, adds |-> adds, cur |-> None]

Local(o) == IF o = Absent THEN {} ELSE {en \in o : en.local}
Key(ep) == FilterKey(IpOf[ep[1]])

\* What a list (at start, or after the watch broke) queues behind q: an event
\* for each object of the cluster, a tombstone for each object that is gone.
Listed(q, st) ==
    [s \in Service |->
        IF cluster[s] # Absent THEN Append(q[s], [obj |-> cluster[s], tomb |-> FALSE])
        ELSE IF st[s] # Absent THEN Append(q[s], [obj |-> Absent, tomb |-> TRUE])
        ELSE q[s]]

NoEvents == [s \in Service |-> << >>]
NoObjects == [s \in Service |-> Absent]

\* The services that list an endpoint for this node.
Claims(objects) ==
    [ep \in Endpoint |-> {s \in Service : \E en \in Local(objects[s]) : en.ep = ep}]

Init ==
    /\ cluster \in [Service -> {Absent} \union UNION {Objects[s] : s \in Service}]
    /\ \A s \in Service : cluster[s] \in Objects[s] \union {Absent}
    /\ connected = TRUE
    /\ store = cluster
    /\ queue = Listed(NoEvents, NoObjects)
    /\ known = NoObjects
    /\ worker = NoWork
    /\ Providers = [ep \in Endpoint |-> None]
    /\ filter_ip = {}
    /\ handlers = {}
    /\ starter = [pc |-> "write", todo |-> Endpoint]
    /\ running = TRUE
    /\ claimed = Claims(cluster)
    /\ changes = 0 /\ relists = 0 /\ crashes = 0

-----------------------------------------------------------------------------
(* The API server and the informer (external). *)

\* An object is created, changed or deleted; while the watch is up an event
\* is queued.
Change(s, o) ==
    /\ changes < MaxChange
    /\ changes' = changes + 1
    /\ o # cluster[s]
    /\ cluster' = [cluster EXCEPT ![s] = o]
    /\ claimed' = [ep \in Endpoint |-> claimed[ep] \union Claims(cluster')[ep]]
    /\ IF connected /\ running
       THEN /\ queue' = [queue EXCEPT ![s] = Append(@, [obj |-> o, tomb |-> FALSE])]
            /\ store' = [store EXCEPT ![s] = o]
       ELSE UNCHANGED <<queue, store>>
    /\ UNCHANGED <<connected, known, worker, table, handlers, starter, running,
                   relists, crashes>>

Disconnect ==
    /\ running /\ connected
    /\ relists < MaxRelist
    /\ relists' = relists + 1
    /\ connected' = FALSE
    /\ UNCHANGED <<cluster, store, claimed, queue, known, worker, table, handlers,
                   starter, running, changes, crashes>>

\* The reflector lists again.
Relist ==
    /\ running /\ ~ connected
    /\ connected' = TRUE
    /\ queue' = Listed(queue, store)
    /\ store' = cluster
    /\ UNCHANGED <<cluster, claimed, known, worker, table, handlers, starter, running, bounds>>

\* The kubelet starts the container again: the agent begins with empty tables
\* and lists every object.
Restart ==
    /\ ~ running
    /\ running' = TRUE
    /\ connected' = TRUE
    /\ store' = cluster
    /\ claimed' = Claims(cluster)
    /\ queue' = Listed(NoEvents, NoObjects)
    /\ known' = NoObjects
    /\ worker' = NoWork
    /\ Providers' = [ep \in Endpoint |-> None]
    /\ filter_ip' = {}
    /\ handlers' = {}
    /\ starter' = [pc |-> "write", todo |-> Endpoint]
    /\ UNCHANGED <<cluster, bounds>>

Crash ==
    /\ running' = FALSE
    /\ UNCHANGED <<outside, queue, known, worker, table, handlers, starter,
                   changes, relists>>

-----------------------------------------------------------------------------
(* The handler goroutine: AddFunc, UpdateFunc and DeleteFunc of Run, which  *)
(* call addEndpoints, updateEndpoints and deleteEndpoints.                  *)

\* Mutant: an update only adds the new entries.
TakeEvent_update_adds(s) ==
    /\ running /\ worker = NoWork /\ queue[s] # << >>
    /\ ~ Head(queue[s]).tomb
    /\ LET ev == Head(queue[s]) IN
       /\ worker' = Work(s, IF ev.obj = Absent THEN Local(known[s]) ELSE {}, Local(ev.obj))
       /\ known' = [known EXCEPT ![s] = ev.obj]
    /\ queue' = [queue EXCEPT ![s] = Tail(@)]
    /\ UNCHANGED <<outside, table, handlers, starter, running, bounds>>

\* Mutant: no DeleteFunc is registered.
TakeEvent_no_DeleteFunc(s) ==
    /\ running /\ worker = NoWork /\ queue[s] # << >>
    /\ ~ Head(queue[s]).tomb
    /\ LET ev == Head(queue[s]) IN
       /\ worker' = Work(s, IF ev.obj = Absent THEN {} ELSE Local(known[s]), Local(ev.obj))
       /\ known' = [known EXCEPT ![s] = ev.obj]
    /\ queue' = [queue EXCEPT ![s] = Tail(@)]
    /\ UNCHANGED <<outside, table, handlers, starter, running, bounds>>

\* AddFunc has nothing to delete and DeleteFunc nothing to add.
TakeEvent(s) ==
    /\ running /\ worker = NoWork /\ queue[s] # << >>
    /\ ~ Head(queue[s]).tomb
    /\ LET ev == Head(queue[s]) IN
       /\ worker' = Work(s, Local(known[s]), Local(ev.obj))
       /\ known' = [known EXCEPT ![s] = ev.obj]
    /\ queue' = [queue EXCEPT ![s] = Tail(@)]
    /\ UNCHANGED <<outside, table, handlers, starter, running, bounds>>

\* A tombstone is not *core.Endpoints: the type assertion of DeleteFunc panics.
TakeTombstone(s) ==
    /\ running /\ worker = NoWork /\ queue[s] # << >>
    /\ Head(queue[s]).tomb
    /\ Crash
    /\ UNCHANGED crashes

\* Mutant: a nil TargetRef is taken for a pod without a name.
BeginEntry_nil(en) ==
    /\ running /\ worker.cur = None
    /\ IF worker.dels # {} THEN en \in worker.dels ELSE en \in worker.adds
    /\ worker' = [worker EXCEPT !.cur = en]
    /\ UNCHANGED <<outside, queue, known, table, handlers, starter, running, bounds>>

\* The loops reach an entry: every old one is deleted before a new one is
\* added.  The write to Providers has begun.
BeginEntry(en) ==
    /\ running /\ worker.cur = None
    /\ IF worker.dels # {} THEN en \in worker.dels
       ELSE en \in worker.adds /\ en.pod # None
    /\ worker' = [worker EXCEPT !.cur = en]
    /\ UNCHANGED <<outside, queue, known, table, handlers, starter, running, bounds>>

\* address.TargetRef is nil: the read of its Name panics before the write.
NilTargetRef ==
    /\ running /\ worker.cur = None /\ worker.dels = {}
    /\ \E en \in worker.adds : en.pod = None
    /\ Crash
    /\ UNCHANGED crashes

\* Mutant: only the callbacks of a deletion are called.
DeleteEntry_callbacks_only ==
    LET en == worker.cur IN
    /\ running /\ en # None /\ en \in worker.dels
    /\ filter_ip' = IF "delete" \in handlers THEN filter_ip \ {Key(en.ep)} ELSE filter_ip
    /\ worker' = Work(worker.svc, worker.dels \ {en}, worker.adds)
    /\ UNCHANGED <<outside, queue, known, Providers, handlers, starter, running, bounds>>

\* delete(Providers, ep), then DeleteFilterIP if it is registered.
\* The callback's arguments read TargetRef, which AddEntry has read before.
DeleteEntry ==
    LET en == worker.cur IN
    /\ running /\ en # None /\ en \in worker.dels
    /\ Providers' = [Providers EXCEPT ![en.ep] = None]
    /\ filter_ip' = IF "delete" \in handlers THEN filter_ip \ {Key(en.ep)} ELSE filter_ip
    /\ worker' = Work(worker.svc, worker.dels \ {en}, worker.adds)
    /\ UNCHANGED <<outside, queue, known, handlers, starter, running, bounds>>

\* Providers[ep] = provider, then AddFilterIP if it is registered.
AddEntry ==
    LET en == worker.cur IN
    /\ running /\ en # None /\ worker.dels = {}
    /\ Providers' = [Providers EXCEPT ![en.ep] = [pod |-> en.pod, svc |-> worker.svc]]
    /\ filter_ip' = IF "add" \in handlers THEN filter_ip \union {Key(en.ep)} ELSE filter_ip
    /\ worker' = Work(worker.svc, {}, worker.adds \ {en})
    /\ UNCHANGED <<outside, queue, known, handlers, starter, running, bounds>>

-----------------------------------------------------------------------------
(* The http plugin: HttpEbpf.Start. *)

\* WriteFilterIP walks Providers in any order.
WriteFilterIP(ep) ==
    /\ running /\ starter.pc = "write" /\ ep \in starter.todo
    /\ starter' = [pc |-> "write", todo |-> starter.todo \ {ep}]
    /\ filter_ip' = IF Providers[ep] # None THEN filter_ip \union {Key(ep)} ELSE filter_ip
    /\ UNCHANGED <<outside, queue, known, worker, Providers, handlers, running, bounds>>

\* Registry appends AddFilterIP ...
RegistryAdd ==
    /\ running /\ starter.pc = "write" /\ starter.todo = {}
    /\ starter' = [pc |-> "registry", todo |-> {}]
    /\ handlers' = {"add"}
    /\ UNCHANGED <<outside, queue, known, worker, table, running, bounds>>

\* ... and then DeleteFilterIP; Start goes on to read the ring buffer.
RegistryDelete ==
    /\ running /\ starter.pc = "registry"
    /\ starter' = [pc |-> "read", todo |-> {}]
    /\ handlers' = {"add", "delete"}
    /\ UNCHANGED <<outside, queue, known, worker, table, running, bounds>>

\* The map is walked (WriteFilterIP) or read (GetPodByEndpoint) while the
\* handler goroutine writes it: the Go runtime ends the process.  A torn read
\* of a callback slice during Registry panics as well.
ConcurrentMapAccess ==
    /\ running /\ worker.cur # None
    /\ crashes < MaxCrash
    /\ crashes' = crashes + 1
    /\ Crash

Handle ==
    \/ \E s \in Service : TakeEvent(s) \/ TakeTombstone(s)
    \/ NilTargetRef \/ DeleteEntry \/ AddEntry
    \/ \E en \in worker.dels \union worker.adds : BeginEntry(en)

Start ==
    \/ \E ep \in Endpoint : WriteFilterIP(ep)
    \/ RegistryAdd \/ RegistryDelete

Next ==
    \/ \E s \in Service : \E o \in Objects[s] \union {Absent} : Change(s, o)
    \/ Disconnect \/ Relist \/ Restart
    \/ Handle \/ Start \/ ConcurrentMapAccess

\* The handler goroutine and the plugin's keep running, the reflector lists
\* again after a broken watch, and the kubelet starts the agent again.
Fairness ==
    /\ WF_vars(Handle)
    /\ WF_vars(Start)
    /\ WF_vars(Relist)
    /\ WF_vars(Restart)

Spec == Init /\ [][Next]_vars /\ Fairness
-----------------------------------------------------------------------------
(* Properties. *)

\* Every variable holds a value of its type.
TypeOK ==
    /\ cluster \in [Service -> Object]
    /\ connected \in BOOLEAN
    /\ store \in [Service -> Object]
    /\ queue \in [Service -> Seq([obj : Object, tomb : BOOLEAN])]
    /\ known \in [Service -> Object]
    /\ worker \in [svc : Service \union {None}, dels : SUBSET Entry, adds : SUBSET Entry,
                   cur : Entry \union {None}]
    /\ Providers \in [Endpoint -> Provider \union {None}]
    /\ filter_ip \subseteq Bytes4
    /\ handlers \subseteq {"add", "delete"}
    /\ starter \in [pc : {"write", "registry", "read"}, todo : SUBSET Endpoint]
    /\ running \in BOOLEAN
    /\ claimed \in [Endpoint -> SUBSET Service]
    /\ changes \in 0 .. MaxChange
    /\ relists \in 0 .. MaxRelist
    /\ crashes \in 0 .. MaxCrash

\* Object s lists endpoint ep for a pod of this node.
Lists(o, ep, pod) == \E en \in Local(o) : en.ep = ep /\ en.pod = pod

\* No stale attribution: an endpoint is resolved only to a pod its service's
\* object lists as the agent knows it, or still listed in the version that is
\* being replaced.
NoStaleProvider ==
    \A ep \in Endpoint : Providers[ep] # None =>
        \/ Lists(known[Providers[ep].svc], ep, Providers[ep].pod)
        \/ /\ worker.svc = Providers[ep].svc
           /\ \E en \in worker.dels : en.ep = ep /\ en.pod = Providers[ep].pod

Quiescent == running /\ connected /\ queue = NoEvents /\ worker = NoWork

\* Providers says what the objects of the cluster say: each entry is listed, and
\* an endpoint is resolved to the service that lists it.  An endpoint that two
\* services have listed since the agent started may be missing: the events of
\* two objects reach the handlers in any order, and deleting one service's
\* entry removes the other's.
Agreed ==
    /\ \A s \in Service : \A en \in Local(cluster[s]) :
          claimed[en.ep] = {s} => Providers[en.ep] = [pod |-> en.pod, svc |-> s]
    /\ \A ep \in Endpoint : Providers[ep] # None =>
          Lists(cluster[Providers[ep].svc], ep, Providers[ep].pod)

\* Every event handled, an access is matched by its address and port to the
\* service and the pod of the cluster and to no other, also after a broken
\* watch, a crash, and events handled in another order than they happened.
AgreedWhenQuiescent == Quiescent => Agreed

\* Resolvable: each endpoint some object lists for this node has a provider.
EveryEndpointMatched ==
    \A s \in Service : \A en \in Local(cluster[s]) : Providers[en.ep] # None

\* The same, once every event is handled: some service is found for every
\* endpoint, though with shared endpoints not always the same one.
MatchedWhenQuiescent == Quiescent => EveryEndpointMatched

\* No object keeps an address of this node without a pod: the agent would
\* panic on it again after each restart.
AllHavePods == \A s \in Service : \A en \in Local(cluster[s]) : en.pod # None

\* The agent ends up with the truth: after the last change and the last race
\* Providers agrees with the cluster for good, however often it panicked.
Converges == <>[]AllHavePods => <>[]Agreed
=============================================================================
