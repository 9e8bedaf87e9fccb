------------------------------- MODULE Pid2Pod ------------------------------
(***************************************************************************)
(* The agent's table of the node's pods (internal/pid2pod), kept by the    *)
(* handlers of the pod informer (internal/k8s/pod_controller.go).          *)
(*                                                                         *)
(* An object is known by its name, the table by the UID: a pod that is     *)
(* deleted and created again under its name (a StatefulSet's) is another   *)
(* entry of the table, but the same object for the informer.  If both      *)
(* happened while the watch was broken, the handlers see one update from   *)
(* the old pod to the new one.                                             *)
(*                                                                         *)
(* The handlers of different objects touch different entries, so unlike in *)
(* Endpoint2Pod the order between objects does not matter and the events   *)
(* are one queue.  PodEvents adds the plugins that read the table.         *)
(***************************************************************************)
EXTENDS Naturals, Sequences, FiniteSets

CONSTANTS
    Name,        \* names of pods, with their name space
    Uid,         \* UIDs
    Absent,      \* no pod of that name
    MaxChange,   \* bound: changes of pods
    MaxRelist    \* bound: times the watch breaks

\* A pod, with the node it is scheduled to: NodeName is empty at first.
NoNode == ""
Pod == [uid : Uid, node : {NoNode, "here", "other"}]

ASSUME ConstantsAssumption ==
    /\ Absent \notin Pod
    /\ IsFiniteSet(Name)
    /\ MaxChange \in Nat /\ MaxRelist \in Nat

VARIABLES
    pods,        \* the pods of the API server
    used,        \* UIDs that have been given to a pod
    connected,   \* the watch is up
    store,       \* the informer's indexer: pods as of the last event queued
    queue,       \* events not yet handed to the handlers
    known,       \* pods as of the last event handed to the handlers
    worker,      \* the event whose handler is writing Pods; << >>: none
    Pods,        \* Pid2Pod.Pods: the pod kept under each UID
    running,     \* the process is alive
    replaced,    \* history: UIDs that went away in an update
    changes, relists

cluster == <<pods, used, changes>>
watch == <<connected, store, relists>>
table == <<known, worker, Pods, replaced>>
podVars == <<cluster, watch, queue, table, running>>

\* The orders in which a list may bring the events of a set.
Orders(S) ==
    {q \in [1 .. Cardinality(S) -> S] : \A x \in S : \E i \in DOMAIN q : q[i] = x}

\* What a list queues: every pod, then a tombstone for each one that is gone.
Listed == {[name |-> n, pod |-> pods[n], tomb |-> FALSE] : n \in {n \in Name : pods[n] # Absent}}

Tombstones(st) ==
    {[name |-> n, pod |-> Absent, tomb |-> TRUE] :
        n \in {n \in Name : pods[n] = Absent /\ st[n] # Absent}}

ListEvents(st) == {p \o d : p \in Orders(Listed), d \in Orders(Tombstones(st))}

\* The pods of this node, as the API server has them.
LocalPods == {pods[n] : n \in {n \in Name : pods[n] # Absent /\ pods[n].node = "here"}}

NoPods == [n \in Name |-> Absent]

PodInit ==
    /\ pods = NoPods
    /\ used = {}
    /\ connected = TRUE
    /\ store = NoPods
    /\ queue = << >>
    /\ known = NoPods
    /\ worker = << >>
    /\ Pods = [u \in Uid |-> Absent]
    /\ running = TRUE
    /\ replaced = {}
    /\ changes = 0 /\ relists = 0

-----------------------------------------------------------------------------
(* The API server and the informer (external). *)

Change(n, pod) ==
    /\ changes < MaxChange
    /\ changes' = changes + 1
    /\ pods' = [pods EXCEPT ![n] = pod]
    /\ IF connected /\ running
       THEN /\ queue' = Append(queue, [name |-> n, pod |-> pod, tomb |-> FALSE])
            /\ store' = [store EXCEPT ![n] = pod]
       ELSE UNCHANGED <<queue, store>>
    /\ UNCHANGED <<connected, relists, table, running>>

\* A pod is created for the scheduler, or for a node its author names.
CreatePod(n, u, node) ==
    /\ pods[n] = Absent /\ u \notin used
    /\ used' = used \union {u}
    /\ Change(n, [uid |-> u, node |-> node])

SchedulePod(n, node) ==
    /\ pods[n] # Absent /\ pods[n].node = NoNode
    /\ UNCHANGED used
    /\ Change(n, [uid |-> pods[n].uid, node |-> node])

DeletePod(n) ==
    /\ pods[n] # Absent
    /\ UNCHANGED used
    /\ Change(n, Absent)

Disconnect ==
    /\ running /\ connected
    /\ relists < MaxRelist
    /\ relists' = relists + 1
    /\ connected' = FALSE
    /\ UNCHANGED <<cluster, store, queue, table, running>>

Relist ==
    /\ running /\ ~ connected
    /\ connected' = TRUE
    /\ \E l \in ListEvents(store) : queue' = queue \o l
    /\ store' = pods
    /\ UNCHANGED <<cluster, relists, table, running>>

\* The kubelet starts the container again.
Restart ==
    /\ ~ running
    /\ running' = TRUE
    /\ connected' = TRUE
    /\ store' = pods
    /\ queue' \in ListEvents(NoPods)
    /\ known' = NoPods
    /\ worker' = << >>
    /\ Pods' = [u \in Uid |-> Absent]
    /\ replaced' = {}
    /\ UNCHANGED <<cluster, relists>>

Crash ==
    /\ running' = FALSE
    /\ UNCHANGED <<cluster, watch, queue, table>>

-----------------------------------------------------------------------------
(* The handler goroutine: AddFunc, UpdateFunc and DeleteFunc of Run. *)

\* An event is handed to its handler, which is about to write Pods.
TakeEvent ==
    /\ running /\ worker = << >> /\ queue # << >>
    /\ ~ Head(queue).tomb
    /\ worker' = <<[old |-> known[Head(queue).name], new |-> Head(queue).pod]>>
    /\ known' = [known EXCEPT ![Head(queue).name] = Head(queue).pod]
    /\ queue' = Tail(queue)
    /\ UNCHANGED <<cluster, watch, Pods, running, replaced>>

\* A tombstone is not *core.Pod: the type assertion of DeleteFunc panics.
TakeTombstone ==
    /\ running /\ worker = << >> /\ queue # << >>
    /\ Head(queue).tomb
    /\ Crash

\* Mutant: only new pods are looked at.
Put_added_only(old, new) ==
    IF old = Absent /\ new.node = "here" THEN [Pods EXCEPT ![new.uid] = new] ELSE Pods

\* Mutant: the node is not looked at.
Put_any_node(old, new) == [Pods EXCEPT ![new.uid] = new]

\* addPod and updatePod: a pod of this node is kept under its UID; the old one
\* is not looked at.
Put(old, new) ==
    IF new.node = "here" THEN [Pods EXCEPT ![new.uid] = new] ELSE Pods

\* Mutant: the pod stays in the table.
Remove_kept(old) == Pods

\* deletePod.
Remove(old) ==
    IF old.node = "here" THEN [Pods EXCEPT ![old.uid] = Absent] ELSE Pods

\* The handler's write; an event for an object that was never seen and is gone
\* is no event for the handlers.
WritePods ==
    /\ running /\ worker # << >>
    /\ LET old == worker[1].old
           new == worker[1].new
       IN  /\ Pods' = IF new # Absent THEN Put(old, new)
                      ELSE IF old # Absent THEN Remove(old) ELSE Pods
           /\ replaced' = IF old # Absent /\ new # Absent /\ old.uid # new.uid
                          THEN replaced \union {old.uid} ELSE replaced
    /\ worker' = << >>
    /\ UNCHANGED <<cluster, watch, queue, known, running>>

Handle == TakeEvent \/ TakeTombstone \/ WritePods

PodNext ==
    \/ \E n \in Name :
         \/ \E u \in Uid, node \in {NoNode, "here", "other"} : CreatePod(n, u, node)
         \/ \E node \in {"here", "other"} : SchedulePod(n, node)
         \/ DeletePod(n)
    \/ Disconnect \/ Relist \/ Restart
    \/ Handle
-----------------------------------------------------------------------------
(* Properties. *)

PodTypeOK ==
    /\ pods \in [Name -> Pod \union {Absent}]
    /\ used \subseteq Uid
    /\ connected \in BOOLEAN /\ running \in BOOLEAN
    /\ store \in [Name -> Pod \union {Absent}]
    /\ known \in [Name -> Pod \union {Absent}]
    /\ queue \in Seq([name : Name, pod : Pod \union {Absent}, tomb : BOOLEAN])
    /\ worker \in Seq([old : Pod \union {Absent}, new : Pod \union {Absent}])
    /\ Pods \in [Uid -> Pod \union {Absent}]
    /\ \A u \in Uid : Pods[u] \in {[uid |-> u, node |-> "here"], Absent}
    /\ replaced \subseteq Uid

Quiescent == running /\ connected /\ queue = << >> /\ worker = << >>

Covered == \A pod \in LocalPods : Pods[pod.uid] = pod

\* Every event handled, each pod of this node is in the table, also one that was
\* created under the name of another while the watch was broken.
CoveredWhenQuiescent == Quiescent => Covered

\* Every event handled, the table holds a pod that is gone only if it was
\* replaced under its name while the watch was broken: updatePod leaves the old
\* UID behind, and nothing but a crash removes it.
GoneOnlyIfReplaced ==
    Quiescent => \A u \in Uid : Pods[u] # Absent => Pods[u] \in LocalPods \/ u \in replaced

\* After the last change and the last crash the table covers the node for good.
PodsConverge == <>[]Covered
=============================================================================
