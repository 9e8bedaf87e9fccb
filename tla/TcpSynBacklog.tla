---------------------------- MODULE TcpSynBacklog ---------------------------
(***************************************************************************)
(* The kernel half of the tcpsynbl plugin: the kprobes do_entry and        *)
(* do_entry_v6 (ebpf/tcpsynbl/tcpsynbl.c) that run when the last ACK of a  *)
(* handshake reaches a listening socket, read the length of its accept     *)
(* queue and the limit, and output an event when the queue is full.        *)
(*                                                                         *)
(* The probes read the fields without a lock while handshakes on other     *)
(* CPUs add to the queue and the application takes from it, and the kernel *)
(* makes a test of its own only after them, so each read is a step.  The   *)
(* fields of a listening socket can be read; a chain of pointers that ends *)
(* early (no file) and an owner that is not set have the same effect and   *)
(* are one case, no owner.  The application calls listen, and fcntl with   *)
(* F_SETOWN if at all, before connections come.                            *)
(***************************************************************************)
EXTENDS Naturals, Sequences, FiniteSets

CONSTANTS
    CPU,          \* CPUs that handle packets
    Backlogs,     \* values sk_max_ack_backlog may have
    Pid,          \* processes that may own the socket
    None,         \* no process
    RING_CAP,     \* events that fit in the ring buffer
    MaxQueue      \* bound: length of the accept queue

ASSUME ConstantsAssumption ==
    /\ IsFiniteSet(CPU)
    /\ Backlogs \subseteq Nat
    /\ None \notin Pid
    /\ RING_CAP \in Nat
    /\ MaxQueue \in Nat

VARIABLES
    sk_max_ack_backlog,  \* the limit
    owner,               \* file->f_owner: the process, or None
    sk_ack_backlog,      \* the length of the accept queue
    run,                 \* per CPU: the handshake it works on
    events,              \* ring buffer
    warned,              \* history: an event was output since the queue was last
                         \* shorter than the limit
    full                 \* history: the ring buffer dropped an event

socket == <<sk_max_ack_backlog, owner>>
history == <<warned, full>>
vars == <<socket, sk_ack_backlog, run, events, history>>

\* What a CPU does: the next step, the probe it is in, whether a client of IPv4
\* is at a socket of IPv6, and the event that is being filled.
Run(pc, probe, mapped, max, ack) ==
    [pc |-> pc, probe |-> probe, mapped |-> mapped, max |-> max, ack |-> ack]

\* A run whose next step is another one.
At(pc, r) == Run(pc, r.probe, r.mapped, r.max, r.ack)

Idle == Run("idle", "v4", FALSE, 0, 0)

Init ==
    /\ sk_max_ack_backlog \in Backlogs
    /\ owner \in Pid \union {None}
    /\ sk_ack_backlog = 0
    /\ run = [p \in CPU |-> Idle]
    /\ events = << >>
    /\ warned = FALSE /\ full = FALSE

-----------------------------------------------------------------------------
(* do_entry and do_entry_v6, which have the same text. *)

\* Where a CPU goes on when a probe returns.  tcp_v6_syn_recv_sock calls
\* tcp_v4_syn_recv_sock for a client of IPv4, whose probe then runs as well.
Returned(r) ==
    IF r.mapped /\ r.probe = "v6"
    THEN Run("max", "v4", TRUE, 0, 0)
    ELSE At("check", r)

\* Read of sk->sk_max_ack_backlog.
ReadMax(p) ==
    /\ run[p].pc = "max"
    /\ run' = [run EXCEPT ![p] = Run("ack", @.probe, @.mapped, sk_max_ack_backlog, 0)]
    /\ UNCHANGED <<socket, sk_ack_backlog, events, history>>

\* Mutant: the kernel's own comparison.
ReadAck_greater(p) ==
    /\ run[p].pc = "ack"
    /\ LET r == Run("owner", run[p].probe, run[p].mapped, run[p].max, sk_ack_backlog) IN
       run' = [run EXCEPT ![p] = IF r.max # 0 /\ r.ack > r.max THEN r ELSE Returned(r)]
    /\ UNCHANGED <<socket, sk_ack_backlog, events, history>>

\* Read of sk->sk_ack_backlog, and the test.
ReadAck(p) ==
    /\ run[p].pc = "ack"
    /\ LET r == Run("owner", run[p].probe, run[p].mapped, run[p].max, sk_ack_backlog) IN
       run' = [run EXCEPT ![p] = IF r.max # 0 /\ r.ack >= r.max THEN r ELSE Returned(r)]
    /\ UNCHANGED <<socket, sk_ack_backlog, events, history>>

\* Mutant: the owner is not tested.
ReadOwner_unchecked(p) ==
    /\ run[p].pc = "owner"
    /\ run' = [run EXCEPT ![p] = At("output", @)]
    /\ UNCHANGED <<socket, sk_ack_backlog, events, history>>

\* The pointers to the socket's file and its owner.
ReadOwner(p) ==
    /\ run[p].pc = "owner"
    /\ run' = [run EXCEPT ![p] =
                 IF owner # None THEN At("output", @) ELSE Returned(@)]
    /\ UNCHANGED <<socket, sk_ack_backlog, events, history>>

\* bpf_ringbuf_output; its result is not looked at.
RingbufOutput(p) ==
    /\ run[p].pc = "output"
    /\ IF Len(events) < RING_CAP
       THEN /\ events' = Append(events, [pid |-> owner, max |-> run[p].max,
                                         ack |-> run[p].ack])
            /\ warned' = (warned \/ sk_ack_backlog >= sk_max_ack_backlog)
            /\ UNCHANGED full
       ELSE full' = TRUE /\ UNCHANGED <<events, warned>>
    /\ run' = [run EXCEPT ![p] = Returned(@)]
    /\ UNCHANGED <<socket, sk_ack_backlog>>

Probe(p) == ReadMax(p) \/ ReadAck(p) \/ ReadOwner(p) \/ RingbufOutput(p)

do_entry(p) == run[p].probe = "v4" /\ Probe(p)

do_entry_v6(p) == run[p].probe = "v6" /\ Probe(p)

\* rd.Read in the agent.
RingbufRead ==
    /\ events # << >>
    /\ events' = Tail(events)
    /\ UNCHANGED <<socket, sk_ack_backlog, run, history>>

-----------------------------------------------------------------------------
(* The kernel and the application (external). *)

\* The last ACK of a handshake arrives, of a client of the socket's family or
\* of IPv4 at a socket of IPv6.  When the handshake began the queue may have been
\* of any length: a SYN that meets a full queue is dropped by tcp_conn_request,
\* which runs no probe and changes none of the variables.
SynRecv(p, probe, mapped) ==
    /\ run[p] = Idle
    /\ mapped => probe = "v6"
    /\ run' = [run EXCEPT ![p] = Run("max", probe, mapped, 0, 0)]
    /\ UNCHANGED <<socket, sk_ack_backlog, events, history>>

\* sk_acceptq_is_full again, after the probe: the connection is dropped ...
Drop(p) ==
    /\ run[p].pc = "check"
    /\ sk_ack_backlog > sk_max_ack_backlog
    /\ run' = [run EXCEPT ![p] = Idle]
    /\ UNCHANGED <<socket, sk_ack_backlog, events, history>>

\* ... or gets its socket ...
Admit(p) ==
    /\ run[p].pc = "check"
    /\ sk_ack_backlog <= sk_max_ack_backlog
    /\ run' = [run EXCEPT ![p] = At("add", @)]
    /\ UNCHANGED <<socket, sk_ack_backlog, events, history>>

\* ... and is added to the queue.
Add(p) ==
    /\ run[p].pc = "add"
    /\ sk_ack_backlog < MaxQueue
    /\ sk_ack_backlog' = sk_ack_backlog + 1
    /\ run' = [run EXCEPT ![p] = Idle]
    /\ UNCHANGED <<socket, events, history>>

\* The application accepts a connection.
Accept ==
    /\ sk_ack_backlog > 0
    /\ sk_ack_backlog' = sk_ack_backlog - 1
    /\ warned' = (warned /\ sk_ack_backlog' >= sk_max_ack_backlog)
    /\ UNCHANGED <<socket, run, events, full>>

Next ==
    \/ \E p \in CPU :
         \/ do_entry(p) \/ do_entry_v6(p) \/ Drop(p) \/ Admit(p) \/ Add(p)
         \/ \E probe \in {"v4", "v6"}, mapped \in BOOLEAN : SynRecv(p, probe, mapped)
    \/ RingbufRead \/ Accept

Spec == Init /\ [][Next]_vars
-----------------------------------------------------------------------------
(* Properties. *)

\* Every variable holds a value of its type; an event is only output with an
\* owner.
TypeOK ==
    /\ sk_max_ack_backlog \in Nat
    /\ owner \in Pid \union {None}
    /\ sk_ack_backlog \in Nat
    /\ run \in [CPU -> [pc : {"idle", "max", "ack", "owner", "output", "check", "add"},
                        probe : {"v4", "v6"}, mapped : BOOLEAN, max : Nat, ack : Nat]]
    /\ events \in Seq([pid : Pid, max : Nat, ack : Nat])
    /\ Len(events) <= RING_CAP
    /\ warned \in BOOLEAN /\ full \in BOOLEAN

\* The plugin can report the socket: F_SETOWN was called, listen was called
\* with a backlog, and the ring buffer has dropped nothing.
Watched == owner # None /\ sk_max_ack_backlog # 0 /\ ~ full

\* The warning is not late: as long as no event was output for a queue that is
\* filling up, at most one connection for each further CPU is beyond the limit,
\* although the length was read before the connections were added.  So a queue
\* two CPUs fill at once may be one beyond the limit, and its next connections
\* dropped, before there is an event.
WarnedInTime ==
    Watched /\ ~ warned =>
        sk_ack_backlog < sk_max_ack_backlog + Cardinality(CPU)
=============================================================================
