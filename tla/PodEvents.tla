------------------------------ MODULE PodEvents -----------------------------
(***************************************************************************)
(* The oomkill and tcpsynbl plugins from the event in the kernel to the    *)
(* metric: an event carries a pid, and what the plugins know of the        *)
(* process they read from /proc when they decode the event, when the       *)
(* process may have ended and its pid may be another's.                    *)
(*                                                                         *)
(* A process is the number of its start; its name (comm) is taken to be    *)
(* that number, so that a name tells whose it is.  What the probes of      *)
(* tcpsynbl test before they output an event is in TcpSynBacklog.          *)
(***************************************************************************)
EXTENDS Pid2Pod

CONSTANTS
    Pid,         \* numbers of processes
    NoPod,       \* the pod of a process outside of pods, or not found
    Burstable,   \* the UIDs of pods of that class of service
    RING_CAP,    \* events that fit in a ring buffer
    MaxProc,     \* bound: processes started
    MaxEvent,    \* bound: events output
    MaxCrash     \* bound: times goroutines meet in the unlocked map

ASSUME EventsAssumption ==
    /\ NoPod \notin Uid
    /\ Burstable \subseteq Uid
    /\ RING_CAP \in Nat
    /\ MaxProc \in Nat /\ MaxEvent \in Nat /\ MaxCrash \in Nat

Plugin == {"oomkill", "tcpsynbl"}

VARIABLES
    born,        \* the processes started so far, with their pids and pods
    proc,        \* /proc: the process with a pid; 0: none
    ring,        \* per plugin: events in the ring buffer
    hand,        \* per plugin: the event that is being decoded; << >>: none
    reports,     \* metrics sent
    made,        \* history: events output
    crashes

processes == <<born, proc>>
buffers == <<ring, hand>>
vars == <<podVars, processes, buffers, reports, made, crashes>>

NoEvents == [l \in Plugin |-> << >>]

Init ==
    /\ PodInit
    /\ born = << >>
    /\ proc = [p \in Pid |-> 0]
    /\ ring = NoEvents /\ hand = NoEvents
    /\ reports = {}
    /\ made = 0
    /\ crashes = 0

\* The maps, the probes and what was read go with the process.
LostInCrash ==
    IF running' THEN UNCHANGED buffers ELSE ring' = NoEvents /\ hand' = NoEvents

-----------------------------------------------------------------------------
(* Processes and the kernel (external but for what the probe does). *)

\* A process of a pod of this node, or of none, gets a pid that is free.
StartProcess(p, u) ==
    /\ Len(born) < MaxProc /\ proc[p] = 0
    /\ born' = Append(born, [pid |-> p, uid |-> u])
    /\ proc' = [proc EXCEPT ![p] = Len(born) + 1]
    /\ UNCHANGED <<podVars, buffers, reports, made, crashes>>

EndProcess(p) ==
    /\ proc[p] # 0
    /\ proc' = [proc EXCEPT ![p] = 0]
    /\ UNCHANGED <<podVars, born, buffers, reports, made, crashes>>

\* bpf_ringbuf_output, whose result is not looked at: a full buffer drops the
\* event.  comm is what the event says of its process, of the process itself.
Output(l, pid, comm, of) ==
    /\ made < MaxEvent
    /\ Len(ring[l]) < RING_CAP
    /\ made' = made + 1
    /\ ring' = [ring EXCEPT ![l] =
                  Append(@, [id |-> made + 1, pid |-> pid, comm |-> comm, of |-> of])]
    /\ UNCHANGED <<podVars, processes, hand, reports, crashes>>

\* The kernel is about to kill a process; its pid and its name are copied
\* before it dies.
kprobe__oom_kill_process(p) ==
    /\ running /\ proc[p] # 0
    /\ Output("oomkill", p, proc[p], proc[p])

\* The queue of a socket is full whose owner was set to a process, which may
\* have ended since; only the pid is in the event.
BacklogFull(g) ==
    /\ running
    /\ Output("tcpsynbl", born[g].pid, 0, g)

-----------------------------------------------------------------------------
(* The plugins: Start and DecodeMapItem. *)

\* Mutant: both plugins ask /proc for the name.
KnownComm_proc(l, e) == 0

\* The name oomkill finds in the event; the other plugin asks /proc.
KnownComm(l, e) == IF l = "oomkill" THEN e.comm ELSE 0

\* rd.Read and binary.Read.
Read(l) ==
    /\ running /\ hand[l] = << >> /\ ring[l] # << >>
    /\ LET e == Head(ring[l])
           comm == KnownComm(l, e)
       IN  hand' = [hand EXCEPT ![l] =
             <<[event |-> e, comm |-> comm, podId |-> NoPod,
                pc |-> IF comm = 0 THEN "comm" ELSE "cgroup"]>>]
    /\ ring' = [ring EXCEPT ![l] = Tail(@)]
    /\ UNCHANGED <<podVars, processes, reports, made, crashes>>

\* getCommByPid: the name of the process that has the pid now, or none.
getCommByPid(l) ==
    /\ running /\ hand[l] # << >> /\ hand[l][1].pc = "comm"
    /\ hand' = [hand EXCEPT ![l][1] =
                  [@ EXCEPT !.pc = "cgroup", !.comm = proc[hand[l][1].event.pid]]]
    /\ UNCHANGED <<podVars, processes, ring, reports, made, crashes>>

\* An id of a pod as a string, with the character between its groups of digits:
\* the API server writes "-", the names of control groups have "_".
ApiId(u) == [uid |-> u, sep |-> "-"]
CgroupId(u) == [uid |-> u, sep |-> "_"]

\* What the regular expression finds in /proc/<pid>/cgroup: the id of a pod of
\* the burstable class, if the process is there.
lookupIdByPid(pid) ==
    IF proc[pid] # 0 /\ born[proc[pid]].uid \in Burstable
    THEN CgroupId(born[proc[pid]].uid)
    ELSE NoPod

\* GetPodInfoByPid up to the access to Pods.
LookupId(l) ==
    /\ running /\ hand[l] # << >> /\ hand[l][1].pc = "cgroup"
    /\ hand' = [hand EXCEPT ![l][1] =
                  [@ EXCEPT !.pc = "pods", !.podId = lookupIdByPid(hand[l][1].event.pid)]]
    /\ UNCHANGED <<podVars, processes, ring, reports, made, crashes>>

\* The rest of it: Pods has the id as the API server writes it, and the id of a
\* container, containerd://..., is compared with the one in the control group's
\* name, which has no scheme.
PodInfo(podId) ==
    LET scheme == [status |-> "containerd://", cgroup |-> ""]
        found == {u \in Uid : ApiId(u) = podId /\ Pods[u] # Absent
                              /\ scheme.status = scheme.cgroup}
    IN  IF found = {} THEN NoPod ELSE CHOOSE u \in found : TRUE

\* Mutant: an error of the lookup is an error of DecodeMapItem.
Deliver_or_drop(l) ==
    /\ running /\ hand[l] # << >> /\ hand[l][1].pc = "pods"
    /\ LET d == hand[l][1] IN
       reports' = IF d.podId = NoPod THEN reports
                  ELSE reports \union {[plugin |-> l, id |-> d.event.id, comm |-> d.comm,
                                        pod |-> PodInfo(d.podId), of |-> d.event.of]}
    /\ hand' = [hand EXCEPT ![l] = << >>]
    /\ UNCHANGED <<podVars, processes, ring, made, crashes>>

\* The end of DecodeMapItem, which goes on without a pod, and the send.
Deliver(l) ==
    /\ running /\ hand[l] # << >> /\ hand[l][1].pc = "pods"
    /\ LET d == hand[l][1] IN
       reports' = reports \union {[plugin |-> l, id |-> d.event.id, comm |-> d.comm,
                                   pod |-> PodInfo(d.podId), of |-> d.event.of]}
    /\ hand' = [hand EXCEPT ![l] = << >>]
    /\ UNCHANGED <<podVars, processes, ring, made, crashes>>

\* A plugin looks an id up in Pods while the handler writes it: the Go runtime
\* may end the process.
ConcurrentMapAccess(l) ==
    /\ running /\ worker # << >>
    /\ hand[l] # << >> /\ hand[l][1].pc = "pods" /\ hand[l][1].podId # NoPod
    /\ crashes < MaxCrash
    /\ crashes' = crashes + 1
    /\ Crash
    /\ LostInCrash
    /\ UNCHANGED <<processes, reports, made>>

Decode(l) == Read(l) \/ getCommByPid(l) \/ LookupId(l) \/ Deliver(l)

PodStep == PodNext /\ LostInCrash /\ UNCHANGED <<processes, reports, made, crashes>>

Next ==
    \/ PodStep
    \/ \E p \in Pid :
         \/ \E u \in {pod.uid : pod \in LocalPods} \union {NoPod} : StartProcess(p, u)
         \/ EndProcess(p)
         \/ kprobe__oom_kill_process(p)
    \/ \E g \in DOMAIN born : BacklogFull(g)
    \/ \E l \in Plugin : Decode(l) \/ ConcurrentMapAccess(l)

Fairness ==
    /\ WF_vars(Handle /\ PodStep)
    /\ WF_vars(Relist /\ PodStep)
    /\ WF_vars(Restart /\ PodStep)
    /\ \A l \in Plugin : WF_vars(Decode(l))

Spec == Init /\ [][Next]_vars /\ Fairness
-----------------------------------------------------------------------------
(* Properties. *)

\* Every variable holds a value of its type; the table holds pods of this node,
\* each under its UID, and a pid in /proc is that of the process there.
TypeOK ==
    /\ PodTypeOK
    /\ born \in Seq([pid : Pid, uid : Uid \union {NoPod}])
    /\ proc \in [Pid -> 0 .. Len(born)]
    /\ \A p \in Pid : proc[p] # 0 => born[proc[p]].pid = p
    /\ \A l \in Plugin : Len(ring[l]) <= RING_CAP /\ Len(hand[l]) <= 1

\* An OOM report names the victim, although it is dead when the event is
\* decoded and its pid may be another process's; a report never names the pod
\* of another process.
OomNamesVictim ==
    \A r \in reports :
        /\ r.plugin = "oomkill" => r.comm = r.of
        /\ r.pod # NoPod => r.pod = born[r.of].uid

InBuffer(l, i) == \E k \in DOMAIN ring[l] : ring[l][k].id = i

\* An event that reached the buffer is reported, also when its process, its pod
\* or its entry in the table is gone, unless the agent ends first.
EventReported ==
    \A l \in Plugin : \A i \in 1 .. MaxEvent :
        InBuffer(l, i) ~> ((\E r \in reports : r.plugin = l /\ r.id = i) \/ ~ running)
=============================================================================
