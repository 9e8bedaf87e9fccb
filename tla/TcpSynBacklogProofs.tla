------------------------- MODULE TcpSynBacklogProofs ------------------------
(***************************************************************************)
(* Theorems about TcpSynBacklog: for every number of CPUs, every limit and *)
(* every capacity of the ring buffer, the warning comes in time.           *)
(***************************************************************************)
EXTENDS TcpSynBacklog, FiniteSetTheorems, TLAPS

-----------------------------------------------------------------------------
(* The inductive invariant. *)

RunType == [pc : {"idle", "max", "ack", "owner", "output", "check", "add"},
            probe : {"v4", "v6"}, mapped : BOOLEAN, max : Nat, ack : Nat]
EventType == [pid : Pid, max : Nat, ack : Nat]

\* The CPUs whose probe has returned and whose connection is not yet in the
\* queue: each may still make it longer by one.
Passed == {p \in CPU : run[p].pc \in {"check", "add"}}

\* A run outputs only for an owner, and what it read of the limit is the limit.
ReadInv ==
    \A p \in CPU :
        /\ run[p].pc = "output" => owner # None
        /\ run[p].pc \in {"ack", "owner", "output"} => run[p].max = sk_max_ack_backlog

\* Without a warning the queue, with all it may still get, stays below the limit
\* and one connection per CPU: the last run that passed its probe saw a queue
\* below the limit.
RoomInv ==
    Watched /\ ~ warned =>
        sk_ack_backlog + Cardinality(Passed) < sk_max_ack_backlog + Cardinality(CPU)

Inv == TypeOK /\ ReadInv /\ RoomInv

-----------------------------------------------------------------------------
(* Counting CPUs. *)

\* The sets counted are finite.
LEMMA PassedFinite ==
    /\ IsFiniteSet(CPU) /\ Cardinality(CPU) \in Nat
    /\ IsFiniteSet(Passed) /\ Cardinality(Passed) \in Nat
    /\ Cardinality(Passed) <= Cardinality(CPU)
  <1>1. Passed \subseteq CPU
    BY DEF Passed
  <1>2. IsFiniteSet(CPU)
    BY ConstantsAssumption
  <1> QED
    BY <1>1, <1>2, FS_Subset, FS_CardinalityType

\* The same in the next state.
LEMMA PassedFiniteNext ==
    /\ IsFiniteSet(Passed') /\ Cardinality(Passed') \in Nat
    /\ Cardinality(Passed') <= Cardinality(CPU)
  <1>1. Passed' \subseteq CPU
    BY DEF Passed
  <1>2. IsFiniteSet(CPU)
    BY ConstantsAssumption
  <1> QED
    BY <1>1, <1>2, FS_Subset, FS_CardinalityType

\* A step of one CPU that leaves the kernel's half takes it out of Passed.
LEMMA PassedLess ==
    ASSUME NEW p \in CPU, run \in [CPU -> RunType],
           run[p].pc \in {"check", "add"}, run' = [run EXCEPT ![p] = Idle]
    PROVE  Cardinality(Passed') = Cardinality(Passed) - 1
  <1>1. p \in Passed
    BY DEF Passed
  <1>2. Passed' = Passed \ {p}
    BY DEF Passed, Idle, Run
  <1> QED
    BY <1>1, <1>2, PassedFinite, FS_RemoveElement

\* A step of one CPU that stays on its side of the test leaves Passed alone.
LEMMA PassedSame ==
    ASSUME NEW p \in CPU, run \in [CPU -> RunType], NEW r \in RunType,
           run' = [run EXCEPT ![p] = r],
           run[p].pc \in {"check", "add"} <=> r.pc \in {"check", "add"}
    PROVE  Passed' = Passed
  BY DEF Passed

-----------------------------------------------------------------------------
(* Initial states. *)

\* The type invariant, in the terms used here.
LEMMA TypeParts ==
    TypeOK <=> /\ sk_max_ack_backlog \in Nat
               /\ owner \in Pid \union {None}
               /\ sk_ack_backlog \in Nat
               /\ run \in [CPU -> RunType]
               /\ events \in Seq(EventType)
               /\ Len(events) <= RING_CAP
               /\ warned \in BOOLEAN /\ full \in BOOLEAN
  BY DEF TypeOK, RunType, EventType

\* The invariant holds at first: no run, no connection.
LEMMA InitInv == Init => Inv
  <1> SUFFICES ASSUME Init PROVE Inv
    OBVIOUS
  <1>1. TypeOK
    <2>1. Idle \in RunType
      BY DEF Idle, Run, RunType
    <2>2. run \in [CPU -> RunType]
      BY <2>1 DEF Init
    <2>3. sk_max_ack_backlog \in Nat /\ sk_ack_backlog \in Nat
      BY ConstantsAssumption DEF Init
    <2>4. events \in Seq(EventType) /\ Len(events) <= RING_CAP
      BY ConstantsAssumption DEF Init
    <2> QED
      BY <2>2, <2>3, <2>4, TypeParts DEF Init
  <1>2. ReadInv
    BY DEF Init, ReadInv, Idle, Run
  <1>3. RoomInv
    <2> SUFFICES ASSUME Watched PROVE 0 + Cardinality(Passed) < sk_max_ack_backlog + Cardinality(CPU)
      BY DEF RoomInv, Init
    <2>1. Passed = {}
      BY DEF Passed, Init, Idle, Run
    <2>2. sk_max_ack_backlog \in Nat /\ sk_max_ack_backlog # 0
      BY <1>1 DEF Watched, TypeOK
    <2> QED
      BY <2>1, <2>2, FS_EmptySet, PassedFinite
  <1> QED
    BY <1>1, <1>2, <1>3 DEF Inv

-----------------------------------------------------------------------------
(* The steps of the probes. *)

\* What a probe's return makes of a run.
LEMMA ReturnedType ==
    ASSUME NEW r \in RunType
    PROVE  /\ Returned(r) \in RunType
           /\ Returned(r).pc \in {"max", "check"}
  BY DEF Returned, RunType, Run, At

\* What a run may become in a step that changes nothing else.
RunOK(r) ==
    /\ r \in RunType
    /\ r.pc = "output" => owner # None
    /\ r.pc \in {"ack", "owner", "output"} => r.max = sk_max_ack_backlog

\* Types and reads are kept by every step that gives one CPU such a run.
LEMMA RunStep ==
    ASSUME Inv, NEW p \in CPU, NEW r, RunOK(r), run' = [run EXCEPT ![p] = r],
           UNCHANGED socket
    PROVE  run' \in [CPU -> RunType] /\ ReadInv'
  <1>1. run \in [CPU -> RunType]
    BY TypeParts DEF Inv
  <1>2. r \in RunType
    BY DEF RunOK
  <1>3. run' \in [CPU -> RunType]
    BY <1>1, <1>2
  <1>4. ReadInv'
    <2> SUFFICES ASSUME NEW q \in CPU
                 PROVE  /\ run'[q].pc = "output" => owner # None
                        /\ run'[q].pc \in {"ack", "owner", "output"}
                              => run'[q].max = sk_max_ack_backlog
      BY DEF ReadInv, socket
    <2>1. CASE q = p
      BY <1>1, <2>1 DEF RunOK
    <2>2. CASE q # p
      BY <1>1, <2>2 DEF Inv, ReadInv
    <2> QED
      BY <2>1, <2>2
  <1> QED
    BY <1>3, <1>4

\* A step of one CPU that changes nothing else keeps the invariant if the queue
\* keeps its room.
LEMMA QuietStep ==
    ASSUME Inv, NEW p \in CPU, NEW r, RunOK(r), run' = [run EXCEPT ![p] = r],
           UNCHANGED <<socket, sk_ack_backlog, events, history>>, RoomInv'
    PROVE  Inv'
  <1>1. run' \in [CPU -> RunType] /\ ReadInv'
    BY RunStep
  <1>2. TypeOK'
    BY <1>1, TypeParts DEF Inv, TypeOK, RunType, socket, history
  <1> QED
    BY <1>1, <1>2 DEF Inv

\* The room is kept by a step that does not take a CPU past the test.
LEMMA RoomKept ==
    ASSUME Inv, Passed' = Passed, UNCHANGED <<socket, sk_ack_backlog, history>>
    PROVE  RoomInv'
  BY DEF Inv, RoomInv, Watched, socket, history

\* ReadMax reads the limit.
LEMMA ReadMaxInv ==
    ASSUME Inv, NEW p \in CPU, ReadMax(p)
    PROVE  Inv'
  <1> DEFINE r == Run("ack", run[p].probe, run[p].mapped, sk_max_ack_backlog, 0)
  <1>1. run \in [CPU -> RunType] /\ sk_max_ack_backlog \in Nat
    BY TypeParts DEF Inv
  <1>2. RunOK(r) /\ run' = [run EXCEPT ![p] = r] /\ r.pc = "ack"
    BY <1>1 DEF ReadMax, RunType, RunOK, Run
  <1>3. Passed' = Passed
    BY <1>1, <1>2, PassedSame DEF ReadMax, RunOK
  <1> HIDE DEF r
  <1> QED
    BY <1>2, <1>3, RoomKept, QuietStep DEF ReadMax

\* ReadAck lets a CPU pass only with a queue below the limit, or for a socket
\* that is not watched.
LEMMA ReadAckInv ==
    ASSUME Inv, NEW p \in CPU, ReadAck(p)
    PROVE  Inv'
  <1> DEFINE o == Run("owner", run[p].probe, run[p].mapped, run[p].max, sk_ack_backlog)
  <1> DEFINE r == IF o.max # 0 /\ o.ack >= o.max THEN o ELSE Returned(o)
  <1>1. run \in [CPU -> RunType] /\ sk_max_ack_backlog \in Nat /\ sk_ack_backlog \in Nat
    BY TypeParts DEF Inv
  <1>2. run[p].max = sk_max_ack_backlog /\ run[p].pc = "ack"
    BY DEF ReadAck, Inv, ReadInv
  <1>3. o \in RunType /\ o.pc = "owner" /\ o.max = sk_max_ack_backlog /\ o.ack = sk_ack_backlog
    BY <1>1, <1>2 DEF Run, RunType
  <1>4. run' = [run EXCEPT ![p] = r]
    BY DEF ReadAck
  <1> HIDE DEF o
  <1>5. CASE sk_max_ack_backlog # 0 /\ sk_ack_backlog >= sk_max_ack_backlog
    <2>1. r = o
      BY <1>3, <1>5
    <2>2. RunOK(o)
      BY <1>3 DEF RunOK
    <2>3. Passed' = Passed
      BY <1>1, <1>2, <1>3, <1>4, <2>1, PassedSame
    <2> QED
      BY <1>4, <2>1, <2>2, <2>3, RoomKept, QuietStep DEF ReadAck
  <1>6. CASE ~ (sk_max_ack_backlog # 0 /\ sk_ack_backlog >= sk_max_ack_backlog)
    <2>1. r = Returned(o)
      BY <1>3, <1>6
    <2>2. RunOK(Returned(o))
      BY <1>3, ReturnedType DEF RunOK
    <2>3. RoomInv'
      BY <1>1, <1>6, PassedFinite, PassedFiniteNext
         DEF RoomInv, Watched, ReadAck, socket, history
    <2> QED
      BY <1>4, <2>1, <2>2, <2>3, QuietStep DEF ReadAck
  <1> QED
    BY <1>5, <1>6

\* ReadOwner lets a CPU pass only for a socket that is not watched.
LEMMA ReadOwnerInv ==
    ASSUME Inv, NEW p \in CPU, ReadOwner(p)
    PROVE  Inv'
  <1>1. run \in [CPU -> RunType] /\ run[p] \in RunType /\ run[p].pc = "owner"
    BY TypeParts DEF Inv, ReadOwner
  <1>2. CASE owner # None
    <2> DEFINE r == At("output", run[p])
    <2>1. run' = [run EXCEPT ![p] = r]
      BY <1>2 DEF ReadOwner
    <2>2. RunOK(r) /\ r.pc = "output"
      BY <1>1, <1>2 DEF At, Run, RunType, RunOK, Inv, ReadInv
    <2> HIDE DEF r
    <2>3. Passed' = Passed
      BY <1>1, <2>1, <2>2, PassedSame DEF RunOK
    <2> QED
      BY <2>1, <2>2, <2>3, RoomKept, QuietStep DEF ReadOwner
  <1>3. CASE owner = None
    <2>1. run' = [run EXCEPT ![p] = Returned(run[p])]
      BY <1>3 DEF ReadOwner
    <2>2. RunOK(Returned(run[p]))
      BY <1>1, ReturnedType DEF RunOK
    <2>3. RoomInv'
      BY <1>3 DEF RoomInv, Watched, ReadOwner, socket
    <2> QED
      BY <2>1, <2>2, <2>3, QuietStep DEF ReadOwner
  <1> QED
    BY <1>2, <1>3

\* RingbufOutput warns if the queue is still full, or is the drop that ends the
\* watch.
LEMMA RingbufOutputInv ==
    ASSUME Inv, NEW p \in CPU, RingbufOutput(p)
    PROVE  Inv'
  <1>1. /\ run \in [CPU -> RunType] /\ run[p] \in RunType
        /\ events \in Seq(EventType) /\ Len(events) <= RING_CAP
        /\ owner \in Pid \union {None}
    BY TypeParts DEF Inv
  <1>2. RunOK(Returned(run[p])) /\ run' = [run EXCEPT ![p] = Returned(run[p])]
    BY <1>1, ReturnedType DEF RunOK, RingbufOutput
  <1>3. run' \in [CPU -> RunType] /\ ReadInv'
    BY <1>2, RunStep DEF RingbufOutput
  <1>4. events' \in Seq(EventType) /\ Len(events') <= RING_CAP
    <2> DEFINE e == [pid |-> owner, max |-> run[p].max, ack |-> run[p].ack]
    <2>1. owner \in Pid
      BY <1>1 DEF Inv, ReadInv, RingbufOutput
    <2>2. e \in EventType
      BY <1>1, <2>1 DEF EventType, RunType
    <2>3. \/ events' = events
          \/ events' = Append(events, e) /\ Len(events) < RING_CAP
      BY DEF RingbufOutput
    <2> HIDE DEF e
    <2> QED
      BY <1>1, <2>2, <2>3, ConstantsAssumption
  <1>5. \/ warned' = (warned \/ sk_ack_backlog >= sk_max_ack_backlog) /\ full' = full
        \/ full' = TRUE /\ warned' = warned
    <2>1. CASE Len(events) < RING_CAP
      BY <2>1, Zenon DEF RingbufOutput
    <2>2. CASE ~ (Len(events) < RING_CAP)
      BY <2>2, Zenon DEF RingbufOutput
    <2> QED
      BY <2>1, <2>2
  <1>6. TypeOK'
    <2>1. /\ sk_max_ack_backlog' \in Nat /\ owner' \in Pid \union {None}
          /\ sk_ack_backlog' \in Nat
      BY TypeParts DEF Inv, RingbufOutput, socket
    <2>2. warned' \in BOOLEAN /\ full' \in BOOLEAN
      BY <1>5, TypeParts DEF Inv, RingbufOutput
    <2> QED
      BY <1>3, <1>4, <2>1, <2>2 DEF TypeOK, RunType, EventType
  <1>7. RoomInv'
    <2> SUFFICES ASSUME Watched', ~ warned'
                 PROVE  sk_ack_backlog + Cardinality(Passed')
                          < sk_max_ack_backlog + Cardinality(CPU)
      BY DEF RoomInv, RingbufOutput, socket
    <2>1. sk_ack_backlog \in Nat /\ sk_max_ack_backlog \in Nat
      BY TypeParts DEF Inv
    <2>2. ~ (sk_ack_backlog >= sk_max_ack_backlog)
      BY <1>5, Zenon DEF Watched
    <2> QED
      BY <2>1, <2>2, PassedFinite, PassedFiniteNext
  <1> QED
    BY <1>3, <1>6, <1>7 DEF Inv

-----------------------------------------------------------------------------
(* The steps of the kernel, the application and the agent. *)

\* A handshake begins before the test.
LEMMA SynRecvInv ==
    ASSUME Inv, NEW p \in CPU, NEW probe \in {"v4", "v6"}, NEW mapped \in BOOLEAN,
           SynRecv(p, probe, mapped)
    PROVE  Inv'
  <1> DEFINE r == Run("max", probe, mapped, 0, 0)
  <1>1. run \in [CPU -> RunType]
    BY TypeParts DEF Inv
  <1>2. RunOK(r) /\ r.pc = "max"
    <2>1. r \in RunType
      BY DEF Run, RunType
    <2> QED
      BY <2>1 DEF RunOK, Run
  <1>3. run' = [run EXCEPT ![p] = r] /\ run[p].pc = "idle"
    BY DEF SynRecv, Idle, Run
  <1> HIDE DEF r
  <1>4. Passed' = Passed
    BY <1>1, <1>2, <1>3, PassedSame DEF RunOK
  <1> QED
    BY <1>2, <1>3, <1>4, RoomKept, QuietStep DEF SynRecv

\* The kernel's test leaves the CPU between its probe and the queue.
LEMMA AdmitInv ==
    ASSUME Inv, NEW p \in CPU, Admit(p)
    PROVE  Inv'
  <1> DEFINE r == At("add", run[p])
  <1>1. run \in [CPU -> RunType] /\ run[p] \in RunType /\ run[p].pc = "check"
    BY TypeParts DEF Inv, Admit
  <1>2. RunOK(r) /\ r.pc = "add"
    BY <1>1 DEF RunOK, At, Run, RunType
  <1>3. run' = [run EXCEPT ![p] = r]
    BY DEF Admit
  <1> HIDE DEF r
  <1>4. Passed' = Passed
    BY <1>1, <1>2, <1>3, PassedSame DEF RunOK
  <1> QED
    BY <1>2, <1>3, <1>4, RoomKept, QuietStep DEF Admit

\* A CPU between two handshakes.
LEMMA IdleOK == RunOK(Idle)
  BY DEF RunOK, Idle, Run, RunType

\* A connection that is dropped leaves the set of those that may enter the queue.
LEMMA DropInv ==
    ASSUME Inv, NEW p \in CPU, Drop(p)
    PROVE  Inv'
  <1>1. /\ run \in [CPU -> RunType] /\ sk_max_ack_backlog \in Nat
        /\ sk_ack_backlog \in Nat /\ warned \in BOOLEAN
    BY TypeParts DEF Inv
  <1>2. run' = [run EXCEPT ![p] = Idle] /\ run[p].pc = "check"
    BY DEF Drop
  <1>3. run' \in [CPU -> RunType] /\ ReadInv'
    BY <1>2, IdleOK, RunStep DEF Drop
  <1>4. Cardinality(Passed') = Cardinality(Passed) - 1
    BY <1>1, <1>2, PassedLess
  <1>5. TypeOK'
    BY <1>3, TypeParts DEF Inv, Drop, TypeOK, RunType, socket, history
  <1>6. RoomInv'
    BY <1>1, <1>4, PassedFinite DEF Inv, RoomInv, Watched, Drop, socket, history
  <1> QED
    BY <1>3, <1>5, <1>6 DEF Inv

\* A connection enters the queue and leaves the set of those that may.
LEMMA AddInv ==
    ASSUME Inv, NEW p \in CPU, Add(p)
    PROVE  Inv'
  <1>1. /\ run \in [CPU -> RunType] /\ sk_max_ack_backlog \in Nat
        /\ sk_ack_backlog \in Nat
    BY TypeParts DEF Inv
  <1>2. run' = [run EXCEPT ![p] = Idle] /\ run[p].pc = "add"
    BY DEF Add
  <1>3. run' \in [CPU -> RunType] /\ ReadInv'
    BY <1>2, IdleOK, RunStep DEF Add
  <1>4. Cardinality(Passed') = Cardinality(Passed) - 1
    BY <1>1, <1>2, PassedLess
  <1>5. TypeOK'
    <2>1. sk_ack_backlog' \in Nat
      BY <1>1 DEF Add
    <2> QED
      BY <1>3, <2>1, TypeParts DEF Inv, Add, TypeOK, RunType, socket, history
  <1>6. RoomInv'
    BY <1>1, <1>4, PassedFinite DEF Inv, RoomInv, Watched, Add, socket, history
  <1> QED
    BY <1>3, <1>5, <1>6 DEF Inv

\* A warning is forgotten only when the queue is below the limit again.
LEMMA AcceptInv ==
    ASSUME Inv, Accept
    PROVE  Inv'
  <1>1. /\ sk_max_ack_backlog \in Nat /\ sk_ack_backlog \in Nat /\ warned \in BOOLEAN
    BY TypeParts DEF Inv
  <1>2. sk_ack_backlog' \in Nat /\ sk_ack_backlog' = sk_ack_backlog - 1
    BY <1>1 DEF Accept
  <1>3. TypeOK'
    <2>1. warned' \in BOOLEAN
      BY DEF Accept
    <2> QED
      BY <1>2, <2>1 DEF Inv, Accept, TypeOK, socket
  <1>4. ReadInv'
    BY DEF Inv, Accept, ReadInv, socket
  <1>5. RoomInv'
    <2> SUFFICES ASSUME Watched', ~ warned'
                 PROVE  sk_ack_backlog' + Cardinality(Passed')
                          < sk_max_ack_backlog + Cardinality(CPU)
      BY DEF RoomInv, Accept, socket
    <2>1. Watched /\ Passed' = Passed
      BY DEF Watched, Passed, Accept, socket
    <2>2. CASE warned
      <3>1. ~ (sk_ack_backlog' >= sk_max_ack_backlog)
        BY <2>2, Zenon DEF Accept
      <3> QED
        BY <1>1, <1>2, <2>1, <3>1, PassedFinite
    <2>3. CASE ~ warned
      BY <1>1, <1>2, <2>1, <2>3, PassedFinite DEF Inv, RoomInv
    <2> QED
      BY <2>2, <2>3
  <1> QED
    BY <1>3, <1>4, <1>5 DEF Inv

\* The agent reads an event.
LEMMA RingbufReadInv ==
    ASSUME Inv, RingbufRead
    PROVE  Inv'
  <1>1. events \in Seq(EventType) /\ Len(events) <= RING_CAP /\ events # << >>
    BY TypeParts DEF Inv, RingbufRead
  <1>2. events' \in Seq(EventType) /\ Len(events') <= RING_CAP
    BY <1>1, ConstantsAssumption DEF RingbufRead
  <1>3. TypeOK'
    BY <1>2 DEF Inv, RingbufRead, TypeOK, EventType, socket, history
  <1>4. Passed' = Passed
    BY DEF Passed, RingbufRead
  <1>5. ReadInv' /\ RoomInv'
    BY <1>4 DEF Inv, RingbufRead, ReadInv, RoomInv, Watched, socket, history
  <1> QED
    BY <1>3, <1>5 DEF Inv

-----------------------------------------------------------------------------
(* The theorems. *)

\* Inv is inductive.
THEOREM InvHolds == Spec => []Inv
  <1>1. Inv /\ [Next]_vars => Inv'
    <2> SUFFICES ASSUME Inv, [Next]_vars PROVE Inv'
      OBVIOUS
    <2>1. ASSUME NEW p \in CPU, Probe(p) PROVE Inv'
      BY <2>1, ReadMaxInv, ReadAckInv, ReadOwnerInv, RingbufOutputInv DEF Probe
    <2>2. ASSUME NEW p \in CPU, do_entry(p) \/ do_entry_v6(p) PROVE Inv'
      BY <2>1, <2>2 DEF do_entry, do_entry_v6
    <2>3. ASSUME NEW p \in CPU, Drop(p) \/ Admit(p) \/ Add(p) PROVE Inv'
      BY <2>3, DropInv, AdmitInv, AddInv
    <2>4. ASSUME NEW p \in CPU, NEW probe \in {"v4", "v6"}, NEW mapped \in BOOLEAN,
                 SynRecv(p, probe, mapped)
          PROVE  Inv'
      BY <2>4, SynRecvInv
    <2>5. CASE RingbufRead
      BY <2>5, RingbufReadInv
    <2>6. CASE Accept
      BY <2>6, AcceptInv
    <2>7. CASE UNCHANGED vars
      <3>1. Passed' = Passed
        BY <2>7 DEF Passed, vars
      <3>2. TypeOK'
        BY <2>7 DEF Inv, TypeOK, vars, socket, history
      <3>3. ReadInv' /\ RoomInv'
        BY <2>7, <3>1 DEF Inv, ReadInv, RoomInv, Watched, vars, socket, history
      <3> QED
        BY <3>2, <3>3 DEF Inv
    <2> QED
      BY <2>2, <2>3, <2>4, <2>5, <2>6, <2>7 DEF Next
  <1> QED
    BY <1>1, InitInv, PTL DEF Spec

\* Every variable keeps its type, an event has an owner, and the ring buffer
\* its bound, for any number of CPUs.
THEOREM TypeOKHolds == Spec => []TypeOK
  <1>1. Inv => TypeOK
    BY DEF Inv
  <1> QED
    BY <1>1, InvHolds, PTL

\* The warning is never later than one connection for each further CPU.
THEOREM WarnedInTimeHolds == Spec => []WarnedInTime
  <1>1. Inv => WarnedInTime
    <2> SUFFICES ASSUME Inv, Watched, ~ warned
                 PROVE  sk_ack_backlog < sk_max_ack_backlog + Cardinality(CPU)
      BY DEF WarnedInTime
    <2>1. sk_max_ack_backlog \in Nat /\ sk_ack_backlog \in Nat
      BY TypeParts DEF Inv
    <2> QED
      BY <2>1, PassedFinite DEF Inv, RoomInv
  <1> QED
    BY <1>1, InvHolds, PTL
=============================================================================
