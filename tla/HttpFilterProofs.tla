-------------------------- MODULE HttpFilterProofs --------------------------
(***************************************************************************)
(* Proofs about the socket filter, for any number of CPUs, connections and *)
(* elements and any bound.                                                 *)
(***************************************************************************)
EXTENDS HttpFilter, TLAPS

\* A remainder is smaller than the modulus.
LEMMA ModRange ==
    ASSUME NEW a \in Int, NEW m \in Nat \ {0}
    PROVE  a % m \in 0 .. m - 1
  OBVIOUS

\* The key under which the agent stores any address is the key of 0.0.0.0:
\* ipv4ToUint32 reads the first four bytes of the 16-byte form.
LEMMA FilterKeyIsZero ==
    ASSUME NEW ip \in Bytes4
    PROVE  FilterKey(ip) = ZeroKey
  BY DEF FilterKey, ipv4ToUint32, ParseIP, ZeroKey

\* The key computed for a packet is the four-tuple of its connection, in
\* both directions.
LEMMA KeyOfPacket ==
    ASSUME NEW c \in Conn, NEW kind \in {"req", "rsp"}, NEW n \in ReqNo
    PROVE  conn_key(Packet(kind, c, n)) = c
  BY ConstantsAssumption DEF conn_key, Packet, Key

FilterInv == filter_ip \subseteq {ZeroKey}

LEMMA FilterInvPasses ==
    ASSUME FilterInv, NEW s \in Sock, NEW d \in Sock
    PROVE  PassesFilter(filter_ip, SockIp[s], SockIp[d])
  BY ConstantsAssumption DEF FilterInv, PassesFilter, check_target_ip

\* AddFilterIP, DeleteFilterIP and WriteFilterIP only ever put the key of
\* 0.0.0.0 into filter_ip.
LEMMA FilterInvHolds == Spec => []FilterInv
<1>1. Init => FilterInv
  BY DEF Init, FilterInv
<1>2. FilterInv /\ [Next]_vars => FilterInv'
  <2> SUFFICES ASSUME FilterInv, [Next]_vars PROVE FilterInv'
    OBVIOUS
  <2>1. ASSUME NEW s \in Sock, PutFilterIP(s) PROVE FilterInv'
    BY <2>1, FilterKeyIsZero, ConstantsAssumption DEF FilterInv, PutFilterIP
  <2>2. ASSUME NEW s \in Sock, DelFilterIP(s) PROVE FilterInv'
    BY <2>2 DEF FilterInv, DelFilterIP
  <2>3. CASE UNCHANGED filter_ip
    BY <2>3 DEF FilterInv
  <2>4. ASSUME NEW c \in Conn, NEW kind \in {"req", "rsp"}, NEW n \in ReqNo,
               PassUnseen(c, kind, n) \/ \E p \in CPU : Receive(p, c, kind, n)
        PROVE  UNCHANGED filter_ip
    BY <2>4 DEF PassUnseen, Receive, maps
  <2>5. ASSUME NEW c \in Conn, SendRequest(c) \/ \E n \in ReqNo : SendResponse(c, n)
        PROVE  UNCHANGED filter_ip
    BY <2>5 DEF SendRequest, SendResponse, maps
  <2>6. ASSUME NEW p \in CPU, Step(p) PROVE UNCHANGED filter_ip
    BY <2>6 DEF Step, UpdateElem, LookupElem, ReadDuration, FillResponse, RingbufOutput,
       DeleteElem, Return, maps
  <2>7. CASE Attach \/ Tick \/ RingbufRead \/ UNCHANGED vars
    BY <2>3, <2>7 DEF Attach, Tick, RingbufRead, vars, maps
  <2> QED
    BY <2>1, <2>2, <2>3, <2>4, <2>5, <2>6, <2>7 DEF Next
<1> QED
  BY <1>1, <1>2, PTL DEF Spec

-----------------------------------------------------------------------------
(* Type correctness.  TypeOK is not inductive: a run follows the pointer its *)
(* lookup returned, so the element behind it must hold a record, and the     *)
(* elements the map refers to must hold one.                                 *)

HoldsPointer == {"duration", "fill", "output", "delete"}

PointerOK ==
    \A p \in CPU : run[p].pc \in HoldsPointer =>
        run[p].ptr \in Elem /\ elem[run[p].ptr] # None

EntryOK == \A k \in Key : request_map[k] # None => elem[request_map[k]] # None

TypeInv == TypeOK /\ PointerOK /\ EntryOK

LEMMA IdleNotBusy == Idle \notin RunState /\ Idle.pc = "idle"
  BY DEF Idle, RunState

\* The key of a packet is a key of request_map.
LEMMA ConnKeyType ==
    ASSUME NEW kind \in {"req", "rsp"}, NEW n \in ReqNo, NEW a \in Sock, NEW b \in Sock
    PROVE  conn_key([kind |-> kind, n |-> n, src |-> a, dst |-> b]) \in Key
  BY DEF conn_key, Key

LEMMA PacketType ==
    ASSUME NEW c \in Conn, NEW kind \in {"req", "rsp"}, NEW n \in ReqNo
    PROVE  Packet(kind, c, n) \in [kind : {"req", "rsp"}, n : ReqNo, src : Sock, dst : Sock]
  BY ConstantsAssumption DEF Packet, Key

\* A run that is not idle is at one of the labels of the filter.
LEMMA BusyRun ==
    ASSUME TypeOK, NEW p \in CPU, run[p].pc # "idle"
    PROVE  run[p] \in RunState
  BY DEF TypeOK, Idle

\* The latest packet of a connection at the bridge is one of its packets.
LEMMA RaiseType ==
    ASSUME TypeOK, NEW c \in Conn, NEW kind \in {"req", "rsp"}, NEW n \in ReqNo,
           Raise(c, kind, n)
    PROVE  /\ Pos(kind, n) \in 0 .. 2 * MaxReq
           /\ high' \in [Conn -> 0 .. 2 * MaxReq]
<1>1. Pos(kind, n) \in 0 .. 2 * MaxReq
  BY ConstantsAssumption DEF Pos, ReqNo
<1> QED
  BY <1>1 DEF Raise, TypeOK

LEMMA ReceiveType ==
    ASSUME TypeInv, NEW p \in CPU, NEW c \in Conn, NEW kind \in {"req", "rsp"},
           NEW n \in ReqNo, Receive(p, c, kind, n)
    PROVE  TypeInv'
<1>0. now % DurationMod \in 0 .. DurationMod - 1
  <2>1. now \in Int
    BY ConstantsAssumption DEF TypeInv, TypeOK
  <2> QED
    BY <2>1, ModRange, ConstantsAssumption
<1>1. run'[p] \in RunState /\ run'[p].pc \in {"update", "lookup", "return"}
  <2>1. PICK label \in {"update", "lookup", "return"} :
          run'[p] = [pc |-> label, conn |-> c, pkt |-> Packet(kind, c, n), ptr |-> None,
                     duration |-> now % DurationMod, at |-> now]
    BY DEF TypeInv, TypeOK, Receive
  <2> QED
    BY <1>0, <2>1, PacketType DEF TypeInv, TypeOK, RunState
<1>2. run' \in [CPU -> RunState \union {Idle}]
  BY <1>1 DEF TypeInv, TypeOK, Receive
<1>3. /\ arrived' \in [Conn -> 0 .. MaxPackets] /\ overtaken' \subseteq Conn
      /\ high' \in [Conn -> 0 .. 2 * MaxReq]
  <2>1. high' \in [Conn -> 0 .. 2 * MaxReq] /\ overtaken' \subseteq Conn
    BY RaiseType DEF TypeInv, TypeOK, Receive
  <2>2. arrived \in [Conn -> 0 .. MaxPackets] /\ arrived[c] + 1 \in 0 .. MaxPackets
    BY ConstantsAssumption DEF TypeInv, TypeOK, Receive
  <2>3. arrived' \in [Conn -> 0 .. MaxPackets]
    BY <2>2 DEF Receive
  <2> QED
    BY <2>1, <2>3
<1>6. TypeOK'
  BY <1>2, <1>3 DEF TypeInv, TypeOK, Receive, maps, wire, history
<1>4. PointerOK'
  <2> SUFFICES ASSUME NEW q \in CPU, run'[q].pc \in HoldsPointer
               PROVE  run'[q].ptr \in Elem /\ elem'[run'[q].ptr] # None
    BY DEF PointerOK
  <2>1. q # p
    BY <1>1 DEF HoldsPointer
  <2>2. run'[q] = run[q] /\ elem' = elem
    BY <2>1 DEF Receive, TypeInv, TypeOK, maps
  <2> QED
    BY <2>2 DEF TypeInv, PointerOK
<1>5. EntryOK'
  BY DEF TypeInv, EntryOK, Receive, maps
<1> QED
  BY <1>4, <1>5, <1>6 DEF TypeInv

\* One step of a run keeps the types.
LEMMA StepType ==
    ASSUME TypeInv, NEW p \in CPU, Step(p)
    PROVE  TypeInv'
<1>0. run[p].pc # "idle" /\ run[p] \in RunState
  BY BusyRun DEF TypeInv, Step, UpdateElem, LookupElem, ReadDuration, FillResponse,
     RingbufOutput, DeleteElem, Return
<1>k. conn_key(run[p].pkt) \in Key
  <2>1. PICK kind \in {"req", "rsp"}, n \in ReqNo, a \in Sock, b \in Sock :
               run[p].pkt = [kind |-> kind, n |-> n, src |-> a, dst |-> b]
    BY <1>0 DEF RunState
  <2> QED
    BY <2>1, ConnKeyType
<1>g. ASSUME NEW label \in {"update", "lookup", "duration", "fill", "output", "delete", "return"},
             Goto(p, label)
      PROVE  /\ run' \in [CPU -> RunState \union {Idle}]
             /\ run'[p].ptr = run[p].ptr /\ run'[p].pc = label
             /\ \A q \in CPU \ {p} : run'[q] = run[q]
  BY <1>0, <1>g DEF Goto, RunState, TypeInv, TypeOK
<1>1. CASE UpdateElem(p)
  <2>1. Goto(p, "return")
    BY <1>1 DEF UpdateElem
  <2>2. CASE UNCHANGED <<elem, request_map>>
    <3>1. <<run[p].conn, run[p].pkt.n>> \in Conn \X ReqNo
      BY <1>0 DEF RunState
    <3>2. lost' \subseteq Conn \X ReqNo
      BY <1>1, <3>1 DEF UpdateElem, TypeInv, TypeOK
    <3>3. TypeOK'
      BY <1>1, <1>g, <2>1, <2>2, <3>2 DEF UpdateElem, TypeInv, TypeOK, wire, order
    <3> QED
      BY <1>g, <2>1, <2>2, <3>3 DEF TypeInv, PointerOK, EntryOK, HoldsPointer
  <2>3. CASE \E e \in Elem :
               /\ elem' = [elem EXCEPT ![e] =
                            [key |-> [src |-> run[p].pkt.src, dst |-> run[p].pkt.dst],
                             req |-> run[p].pkt.n, rsp |-> 0,
                             duration |-> run[p].duration, at |-> run[p].at]]
               /\ request_map' = [request_map EXCEPT ![conn_key(run[p].pkt)] = e]
               /\ UNCHANGED lost
    <3> DEFINE rec == [key |-> [src |-> run[p].pkt.src, dst |-> run[p].pkt.dst],
                       req |-> run[p].pkt.n, rsp |-> 0,
                       duration |-> run[p].duration, at |-> run[p].at]
    <3>1. PICK e \in Elem : /\ elem' = [elem EXCEPT ![e] = rec]
                            /\ request_map' = [request_map EXCEPT ![conn_key(run[p].pkt)] = e]
                            /\ UNCHANGED lost
      BY <2>3
    <3>2. rec \in Record /\ rec # None
      BY <1>0, ConstantsAssumption, NoneAssumption DEF RunState, Record, Key, ReqNo
    <3> HIDE DEF rec
    <3>3. TypeOK'
      BY <1>1, <1>g, <1>k, <2>1, <3>1, <3>2 DEF UpdateElem, TypeInv, TypeOK, wire, order
    <3>4. EntryOK'
      BY <1>k, <3>1, <3>2 DEF TypeInv, TypeOK, EntryOK
    <3>5. PointerOK'
      BY <1>g, <2>1, <3>1, <3>2 DEF TypeInv, TypeOK, PointerOK, HoldsPointer
    <3> QED
      BY <3>3, <3>4, <3>5 DEF TypeInv
  <2> QED
    BY <1>1, <2>2, <2>3 DEF UpdateElem, Free
<1>2. CASE LookupElem(p)
  <2> DEFINE e == request_map[conn_key(run[p].pkt)]
  <2>1. /\ run'[p] = [pc |-> IF e = None THEN "return" ELSE "duration",
                      conn |-> run[p].conn, pkt |-> run[p].pkt, ptr |-> e,
                      duration |-> run[p].duration, at |-> run[p].at]
        /\ \A q \in CPU \ {p} : run'[q] = run[q]
        /\ DOMAIN run' = CPU
        /\ run' = [q \in CPU |-> run'[q]]
    BY <1>2 DEF LookupElem, TypeInv, TypeOK
  <2>2. e \in Elem \union {None}
    BY <1>k DEF TypeInv, TypeOK
  <2>3. run'[p] \in RunState
    BY <1>0, <2>1, <2>2 DEF RunState
  <2>4. run' \in [CPU -> RunState \union {Idle}]
    BY <2>1, <2>3 DEF TypeInv, TypeOK
  <2>5. TypeOK'
    BY <1>2, <2>4 DEF LookupElem, TypeInv, TypeOK, maps, wire, order, history
  <2>6. EntryOK'
    BY <1>2 DEF LookupElem, TypeInv, EntryOK, maps
  <2>7. PointerOK'
    BY <1>2, <1>k, <2>1, <2>2 DEF LookupElem, TypeInv, PointerOK, EntryOK, HoldsPointer, maps
  <2> QED
    BY <2>5, <2>6, <2>7 DEF TypeInv
<1>3. CASE ReadDuration(p)
  <2>1. elem[run[p].ptr] \in Record /\ run[p].ptr \in Elem
    BY <1>3 DEF ReadDuration, TypeInv, TypeOK, PointerOK, HoldsPointer
  <2>2. (now - elem[run[p].ptr].duration) % DurationMod \in 0 .. DurationMod - 1
    <3>1. elem[run[p].ptr].duration \in 0 .. DurationMod - 1
      BY <2>1 DEF Record
    <3>2. now \in Int /\ now - elem[run[p].ptr].duration \in Int
      BY <3>1, ConstantsAssumption DEF TypeInv, TypeOK
    <3> QED
      BY <3>2, ModRange, ConstantsAssumption
  <2>3. run'[p] \in RunState /\ run'[p].ptr = run[p].ptr
    BY <1>0, <1>3, <2>2 DEF ReadDuration, RunState, TypeInv, TypeOK
  <2>4. run' \in [CPU -> RunState \union {Idle}]
    BY <1>3, <2>3 DEF ReadDuration, TypeInv, TypeOK
  <2>5. TypeOK'
    BY <1>3, <2>4 DEF ReadDuration, TypeInv, TypeOK, maps, wire, order, history
  <2>6. EntryOK'
    BY <1>3 DEF ReadDuration, TypeInv, EntryOK, maps
  <2>7. PointerOK'
    BY <1>3, <2>3 DEF ReadDuration, TypeInv, TypeOK, PointerOK, HoldsPointer, maps
  <2> QED
    BY <2>5, <2>6, <2>7 DEF TypeInv
<1>4. CASE FillResponse(p)
  <2>1. elem[run[p].ptr] \in Record /\ run[p].ptr \in Elem
    BY <1>4 DEF FillResponse, TypeInv, TypeOK, PointerOK, HoldsPointer
  <2> DEFINE rec == [key |-> elem[run[p].ptr].key, req |-> elem[run[p].ptr].req,
                     rsp |-> run[p].pkt.n, duration |-> run[p].duration,
                     at |-> elem[run[p].ptr].at]
  <2>2. elem' = [elem EXCEPT ![run[p].ptr] = rec] /\ Goto(p, "output")
    BY <1>4 DEF FillResponse
  <2>3. rec \in Record /\ rec # None
    BY <1>0, <2>1, ConstantsAssumption, NoneAssumption DEF RunState, Record, ReqNo
  <2> HIDE DEF rec
  <2>4. TypeOK'
    BY <1>4, <1>g, <2>1, <2>2, <2>3 DEF FillResponse, TypeInv, TypeOK, wire, order, history
  <2>5. EntryOK'
    BY <1>4, <2>1, <2>2, <2>3 DEF FillResponse, TypeInv, TypeOK, EntryOK
  <2>6. PointerOK'
    BY <1>g, <2>1, <2>2, <2>3 DEF TypeInv, TypeOK, PointerOK, HoldsPointer
  <2> QED
    BY <2>4, <2>5, <2>6 DEF TypeInv
<1>5. CASE RingbufOutput(p)
  <2> DEFINE rec == elem[run[p].ptr]
             out == [rec |-> rec, conn |-> run[p].conn,
                     rsp |-> run[p].pkt.n, end |-> run[p].at]
  <2>1. rec \in Record /\ run[p].ptr \in Elem
    BY <1>5 DEF RingbufOutput, TypeInv, TypeOK, PointerOK, HoldsPointer
  <2>2. out \in [rec : Record, conn : Conn, rsp : ReqNo, end : 0 .. MaxTime]
    BY <1>0, <2>1 DEF RunState
  <2>3. <<run[p].conn, rec.req>> \in Conn \X ReqNo
    BY <1>0, <2>1 DEF RunState, Record
  <2>4. /\ packets' \in Seq(Record) /\ Len(packets') <= RING_CAP
        /\ emitted' \in Seq([rec : Record, conn : Conn, rsp : ReqNo, end : 0 .. MaxTime])
        /\ lost' \subseteq Conn \X ReqNo
    <3> HIDE DEF rec, out
    <3>1. CASE /\ Len(packets) < RING_CAP /\ packets' = Append(packets, rec)
               /\ emitted' = Append(emitted, out) /\ lost' = lost
      BY <2>1, <2>2, <3>1, ConstantsAssumption DEF TypeInv, TypeOK
    <3>2. CASE /\ lost' = lost \union {<<run[p].conn, rec.req>>}
               /\ packets' = packets /\ emitted' = emitted
      BY <2>3, <3>2 DEF TypeInv, TypeOK
    <3> QED
      BY <1>5, <3>1, <3>2 DEF RingbufOutput, rec, out
  <2>5. TypeOK'
    BY <1>5, <1>g, <2>4 DEF RingbufOutput, TypeInv, TypeOK, wire, order
  <2> QED
    BY <1>5, <1>g, <2>5 DEF RingbufOutput, TypeInv, PointerOK, EntryOK, HoldsPointer
<1>6. CASE DeleteElem(p)
  <2>1. TypeOK'
    BY <1>6, <1>g, <1>k DEF DeleteElem, TypeInv, TypeOK, wire, order, history
  <2>2. EntryOK'
    BY <1>6, <1>k DEF DeleteElem, TypeInv, TypeOK, EntryOK
  <2>3. PointerOK'
    BY <1>6, <1>g DEF DeleteElem, TypeInv, PointerOK, HoldsPointer
  <2> QED
    BY <2>1, <2>2, <2>3 DEF TypeInv
<1>7. CASE Return(p)
  <2>1. run[p].conn \in Conn /\ run[p].pkt.n \in ReqNo /\ run[p].pkt.kind \in {"req", "rsp"}
    BY <1>0 DEF RunState
  <2>3. <<run[p].pkt.kind, run[p].conn, run[p].pkt.n>> \in PacketId
    BY <2>1 DEF PacketId
  <2>4. TypeOK'
    BY <1>7, <2>3 DEF Return, TypeInv, TypeOK, maps, wire, order
  <2>5. PointerOK'
    BY <1>7, IdleNotBusy DEF Return, TypeInv, TypeOK, PointerOK, HoldsPointer, maps
  <2>6. EntryOK'
    BY <1>7 DEF Return, TypeInv, EntryOK, maps
  <2> QED
    BY <2>4, <2>5, <2>6 DEF TypeInv
<1> QED
  BY <1>1, <1>2, <1>3, <1>4, <1>5, <1>6, <1>7 DEF Step

\* The inductive strengthening of TypeOK is an invariant of the filter.
LEMMA TypeInvHolds == Spec => []TypeInv
<1>1. Init => TypeInv
  <2> SUFFICES ASSUME Init PROVE TypeInv
    OBVIOUS
  <2>1. packets \in Seq(Record) /\ Len(packets) <= RING_CAP
    BY ConstantsAssumption DEF Init
  <2>2. emitted \in Seq([rec : Record, conn : Conn, rsp : ReqNo, end : 0 .. MaxTime])
    BY DEF Init
  <2>3. /\ 0 \in 0 .. MaxReq /\ 0 \in 0 .. MaxTime
        /\ 0 \in 0 .. MaxPackets /\ 0 \in 0 .. 2 * MaxReq
    BY ConstantsAssumption
  <2>4. /\ request_map \in [Key -> Elem \union {None}]
        /\ elem \in [Elem -> Record \union {None}]
        /\ run \in [CPU -> RunState \union {Idle}]
    BY DEF Init
  <2>5. /\ now \in 0 .. MaxTime
        /\ sent \in [Conn -> 0 .. MaxReq] /\ arrived \in [Conn -> 0 .. MaxPackets]
        /\ high \in [Conn -> 0 .. 2 * MaxReq]
    BY <2>3 DEF Init
  <2>6. TypeOK
    BY <2>1, <2>2, <2>4, <2>5 DEF Init, TypeOK
  <2> QED
    BY <2>6, IdleNotBusy DEF Init, TypeInv, PointerOK, EntryOK, HoldsPointer
<1>2. TypeInv /\ [Next]_vars => TypeInv'
  <2> SUFFICES ASSUME TypeInv, [Next]_vars PROVE TypeInv'
    OBVIOUS
  <2> DEFINE Frame == UNCHANGED <<elem, request_map, run>>
  <2>0. ASSUME TypeOK', Frame PROVE TypeInv'
    BY <2>0 DEF TypeInv, PointerOK, EntryOK
  <2>1. ASSUME NEW p \in CPU, NEW c \in Conn, NEW kind \in {"req", "rsp"}, NEW n \in ReqNo,
               Receive(p, c, kind, n)
        PROVE  TypeInv'
    BY <2>1, ReceiveType
  <2>2. ASSUME NEW p \in CPU, Step(p) PROVE TypeInv'
    BY <2>2, StepType
  <2>3. CASE Attach
    BY <2>0, <2>3 DEF Attach, TypeInv, TypeOK, maps, wire, order, history
  <2>4. CASE Tick
    <3>1. now' \in 0 .. MaxTime
      BY <2>4, ConstantsAssumption DEF Tick, TypeInv, TypeOK
    <3> QED
      BY <2>0, <2>4, <3>1 DEF Tick, TypeInv, TypeOK, maps, wire, order, history
  <2>5. CASE RingbufRead
    <3>1. Tail(packets) \in Seq(Record) /\ Len(Tail(packets)) <= RING_CAP
      BY <2>5, ConstantsAssumption DEF RingbufRead, TypeInv, TypeOK
    <3> QED
      BY <2>0, <2>5, <3>1 DEF RingbufRead, TypeInv, TypeOK, wire, order, history
  <2>6. ASSUME NEW s \in Sock, PutFilterIP(s) \/ DelFilterIP(s) PROVE TypeInv'
    <3>1. FilterKey(SockIp[s]) \in Bytes4
      BY FilterKeyIsZero, ConstantsAssumption DEF ZeroKey, Bytes4, Byte
    <3>2. filter_ip' \subseteq Bytes4
      BY <2>6, <3>1 DEF PutFilterIP, DelFilterIP, TypeInv, TypeOK
    <3> QED
      BY <2>0, <2>6, <3>2 DEF PutFilterIP, DelFilterIP, TypeInv, TypeOK, wire, order, history
  <2>7. ASSUME NEW c \in Conn, SendRequest(c) PROVE TypeInv'
    <3>1. sent[c] + 1 \in ReqNo /\ sent[c] + 1 \in 0 .. MaxReq
      BY <2>7, ConstantsAssumption DEF SendRequest, TypeInv, TypeOK, ReqNo
    <3>2. sent' \in [Conn -> 0 .. MaxReq] /\ net' \subseteq PacketId
      BY <2>7, <3>1 DEF SendRequest, TypeInv, TypeOK, PacketId
    <3> QED
      BY <2>0, <2>7, <3>2 DEF SendRequest, TypeInv, TypeOK, maps, order, history
  <2>9. ASSUME NEW c \in Conn, NEW n \in ReqNo, SendResponse(c, n) PROVE TypeInv'
    <3>1. net' \subseteq PacketId
      BY <2>9 DEF SendResponse, TypeInv, TypeOK, PacketId
    <3> QED
      BY <2>0, <2>9, <3>1 DEF SendResponse, TypeInv, TypeOK, maps, order, history
  <2>10. ASSUME NEW c \in Conn, NEW kind \in {"req", "rsp"}, NEW n \in ReqNo,
                PassUnseen(c, kind, n)
         PROVE  TypeInv'
    <3>1. unseen' \subseteq PacketId /\ high' \in [Conn -> 0 .. 2 * MaxReq]
      BY <2>10, RaiseType DEF PassUnseen, TypeInv, TypeOK, PacketId
    <3> QED
      BY <2>0, <2>10, <3>1 DEF PassUnseen, TypeInv, TypeOK, maps, history
  <2>8. CASE UNCHANGED vars
    BY <2>0, <2>8 DEF vars, maps, wire, order, history, TypeInv, TypeOK
  <2> QED
    BY <2>1, <2>2, <2>3, <2>4, <2>5, <2>6, <2>7, <2>8, <2>9, <2>10 DEF Next
<1> QED
  BY <1>1, <1>2, PTL DEF Spec

\* Every variable keeps its type (TypeOK); in particular a run only follows a
\* pointer that its lookup returned.
THEOREM TypeOKHolds == Spec => []TypeOK
<1>1. TypeInv => TypeOK
  BY DEF TypeInv
<1> QED
  BY <1>1, TypeInvHolds, PTL

-----------------------------------------------------------------------------
(* The map.  A run computes the key of its own connection, so an entry is   *)
(* filled from a request of the connection it is stored under.              *)

Quiet == UNCHANGED <<request_map, elem, run, emitted>>

\* A step is one of a run, the start of a run, or leaves runs and maps alone.
LEMMA NextCases ==
    ASSUME TypeOK, [Next]_vars
    PROVE  \/ Quiet
           \/ \E p \in CPU, c \in Conn, kind \in {"req", "rsp"}, n \in ReqNo :
                Receive(p, c, kind, n)
           \/ \E p \in CPU : Step(p)
<1>1. CASE \/ Attach \/ Tick \/ RingbufRead
           \/ \E s \in Sock : PutFilterIP(s) \/ DelFilterIP(s)
           \/ \E c \in Conn : SendRequest(c) \/ \E n \in ReqNo : SendResponse(c, n)
           \/ \E c \in Conn, kind \in {"req", "rsp"}, n \in ReqNo : PassUnseen(c, kind, n)
           \/ UNCHANGED vars
  BY <1>1 DEF Quiet, Attach, Tick, RingbufRead, PutFilterIP, DelFilterIP,
     SendRequest, SendResponse, PassUnseen, vars, maps, history
<1> QED
  BY <1>1 DEF Next

RunKeyOK(r) ==
    /\ r.pc # "idle" => conn_key(r.pkt) = r.conn /\ r.conn \in Key
    /\ r.pc = "update" => [src |-> r.pkt.src, dst |-> r.pkt.dst] = r.conn

RunKey == \A p \in CPU : RunKeyOK(run[p])

\* A run that starts has the key of its connection.
LEMMA ReceiveRunKey ==
    ASSUME TypeOK, RunKey, NEW p \in CPU, NEW c \in Conn, NEW kind \in {"req", "rsp"},
           NEW n \in ReqNo, Receive(p, c, kind, n)
    PROVE  /\ RunKey'
           /\ run'[p].conn = c /\ run'[p].pc \in {"update", "lookup", "return"}
           /\ run[p] = Idle
           /\ \A q \in CPU \ {p} : run'[q] = run[q]
<1>1. PICK label \in {"update", "lookup", "return"} :
        /\ run'[p] = [pc |-> label, conn |-> c, pkt |-> Packet(kind, c, n), ptr |-> None,
                      duration |-> now % DurationMod, at |-> now]
        /\ label = "update" => kind = "req"
  BY DEF TypeOK, Receive
<1>2. \A q \in CPU \ {p} : run'[q] = run[q]
  BY DEF TypeOK, Receive
<1>3. c \in Key
  BY ConstantsAssumption
<1>4. kind = "req" => [src |-> Packet(kind, c, n).src, dst |-> Packet(kind, c, n).dst] = c
  BY <1>3 DEF Packet, Key
<1>5. RunKeyOK(run'[p])
  BY <1>1, <1>3, <1>4, KeyOfPacket DEF RunKeyOK
<1>6. RunKey'
  BY <1>2, <1>5 DEF RunKey
<1> QED
  BY <1>1, <1>2, <1>6 DEF Receive

\* A step of a run changes neither its connection nor its packet.
LEMMA StepRun ==
    ASSUME TypeOK, NEW p \in CPU, Step(p)
    PROVE  /\ run[p].pc # "idle"
           /\ \A q \in CPU \ {p} : run'[q] = run[q]
           /\ \/ run'[p] = Idle
              \/ /\ run'[p].conn = run[p].conn /\ run'[p].pkt = run[p].pkt
                 /\ run'[p].pc \in {"duration", "fill", "output", "delete", "return"}
<1>0. run[p].pc # "idle"
  BY DEF Step, UpdateElem, LookupElem, ReadDuration, FillResponse, RingbufOutput,
     DeleteElem, Return
<1>1. run[p] \in RunState /\ run \in [CPU -> RunState \union {Idle}]
  BY <1>0, BusyRun DEF TypeOK
<1>2. ASSUME NEW label \in {"output", "delete", "return"}, Goto(p, label)
      PROVE  /\ run'[p].conn = run[p].conn /\ run'[p].pkt = run[p].pkt
             /\ run'[p].pc = label
             /\ \A q \in CPU \ {p} : run'[q] = run[q]
  BY <1>1, <1>2 DEF Goto, RunState
<1>3. CASE UpdateElem(p) \/ FillResponse(p) \/ RingbufOutput(p) \/ DeleteElem(p)
  <2>1. \E label \in {"output", "delete", "return"} : Goto(p, label)
    BY <1>3 DEF UpdateElem, FillResponse, RingbufOutput, DeleteElem
  <2> QED
    BY <1>0, <1>2, <2>1
<1>4. CASE LookupElem(p)
  BY <1>0, <1>1, <1>4 DEF LookupElem
<1>5. CASE ReadDuration(p)
  BY <1>0, <1>1, <1>5 DEF ReadDuration
<1>6. CASE Return(p)
  BY <1>0, <1>1, <1>6 DEF Return
<1> QED
  BY <1>3, <1>4, <1>5, <1>6 DEF Step

LEMMA StepRunKey ==
    ASSUME TypeOK, RunKey, NEW p \in CPU, Step(p)
    PROVE  RunKey'
<1>1. RunKeyOK(run'[p])
  BY StepRun, IdleNotBusy DEF RunKey, RunKeyOK
<1> QED
  BY <1>1, StepRun DEF RunKey

\* What the steps of a run do to the map and the elements.
LEMMA StepMap ==
    ASSUME TypeInv, RunKey, NEW p \in CPU, Step(p)
    PROVE  \/ UNCHANGED <<request_map, elem>>
           \/ /\ run[p].pc = "update" /\ run'[p].pc = "return"
              /\ \E e \in Free :
                   /\ request_map' = [request_map EXCEPT ![run[p].conn] = e]
                   /\ elem'[e].key = run[p].conn /\ elem'[e] # None
                   /\ \A f \in Elem \ {e} : elem'[f] = elem[f]
           \/ /\ request_map' = request_map
              /\ \A f \in Elem : elem[f] # None =>
                                   elem'[f] # None /\ elem'[f].key = elem[f].key
           \/ /\ run[p].pc = "delete" /\ run'[p].pc = "return"
              /\ request_map' = [request_map EXCEPT ![run[p].conn] = None]
              /\ elem' = elem
<1>0. run[p].pc # "idle" /\ run[p] \in RunState /\ RunKeyOK(run[p])
  BY StepRun, BusyRun DEF TypeInv, RunKey
<1>1. CASE UpdateElem(p)
  <2>1. run'[p].pc = "return"
    BY <1>0, <1>1 DEF UpdateElem, Goto, TypeInv, TypeOK, RunState
  <2>2. CASE UNCHANGED <<elem, request_map>>
    BY <2>2
  <2>3. ASSUME NEW e \in Free,
               /\ elem' = [elem EXCEPT ![e] =
                            [key |-> [src |-> run[p].pkt.src, dst |-> run[p].pkt.dst],
                             req |-> run[p].pkt.n, rsp |-> 0,
                             duration |-> run[p].duration, at |-> run[p].at]]
               /\ request_map' = [request_map EXCEPT ![conn_key(run[p].pkt)] = e]
        PROVE  /\ request_map' = [request_map EXCEPT ![run[p].conn] = e]
               /\ elem'[e].key = run[p].conn /\ elem'[e] # None
               /\ \A f \in Elem \ {e} : elem'[f] = elem[f]
    <3> DEFINE rec == [key |-> [src |-> run[p].pkt.src, dst |-> run[p].pkt.dst],
                       req |-> run[p].pkt.n, rsp |-> 0,
                       duration |-> run[p].duration, at |-> run[p].at]
    <3>1. rec \in Record /\ rec # None
      BY <1>0, ConstantsAssumption, NoneAssumption DEF RunState, Record, Key, ReqNo
    <3>2. rec.key = run[p].conn /\ conn_key(run[p].pkt) = run[p].conn
      BY <1>0, <1>1 DEF RunKeyOK, UpdateElem
    <3>3. e \in Elem /\ elem' = [elem EXCEPT ![e] = rec]
      BY <2>3 DEF Free
    <3> HIDE DEF rec
    <3> QED
      BY <2>3, <3>1, <3>2, <3>3 DEF TypeInv, TypeOK
  <2> QED
    BY <1>1, <2>1, <2>2, <2>3 DEF UpdateElem
<1>2. CASE LookupElem(p) \/ ReadDuration(p) \/ RingbufOutput(p) \/ Return(p)
  BY <1>2 DEF LookupElem, ReadDuration, RingbufOutput, Return, maps
<1>3. CASE FillResponse(p)
  <2>1. run[p].ptr \in Elem /\ elem[run[p].ptr] \in Record
    BY <1>3 DEF FillResponse, TypeInv, TypeOK, PointerOK, HoldsPointer
  <2> DEFINE rec == [key |-> elem[run[p].ptr].key, req |-> elem[run[p].ptr].req,
                     rsp |-> run[p].pkt.n, duration |-> run[p].duration,
                     at |-> elem[run[p].ptr].at]
  <2>2. rec \in Record /\ rec # None /\ rec.key = elem[run[p].ptr].key
    BY <1>0, <2>1, ConstantsAssumption, NoneAssumption DEF RunState, Record, ReqNo
  <2>3. elem' = [elem EXCEPT ![run[p].ptr] = rec] /\ request_map' = request_map
    BY <1>3 DEF FillResponse
  <2> HIDE DEF rec
  <2> QED
    BY <2>1, <2>2, <2>3 DEF TypeInv, TypeOK
<1>4. CASE DeleteElem(p)
  BY <1>0, <1>4 DEF DeleteElem, Goto, RunKeyOK, RunState, TypeInv, TypeOK
<1> QED
  BY <1>1, <1>2, <1>3, <1>4 DEF Step

LEMMA StepMapWellFormed ==
    ASSUME TypeInv, RunKey, MapWellFormed, NEW p \in CPU, Step(p)
    PROVE  MapWellFormed'
<1>0. run[p].conn \in Key /\ request_map \in [Key -> Elem \union {None}] /\ None \notin Elem
  BY StepRun, NoneAssumption DEF RunKey, RunKeyOK, TypeInv, TypeOK
<1>1. CASE UNCHANGED <<request_map, elem>>
  BY <1>1 DEF MapWellFormed, Entries
<1>2. ASSUME NEW e \in Free,
             request_map' = [request_map EXCEPT ![run[p].conn] = e],
             elem'[e].key = run[p].conn, elem'[e] # None,
             \A f \in Elem \ {e} : elem'[f] = elem[f]
      PROVE  MapWellFormed'
  <2>1. e \in Elem /\ \A k \in Key : request_map[k] # e
    BY DEF Free
  <2>2. \A k \in Key : request_map'[k] = IF k = run[p].conn THEN e ELSE request_map[k]
    BY <1>0, <1>2
  <2>3. \A k \in Entries' : k # run[p].conn => k \in Entries /\ request_map'[k] \in Elem \ {e}
    BY <1>0, <2>1, <2>2 DEF Entries
  <2>4. ASSUME NEW k \in Entries'
        PROVE  elem'[request_map'[k]] # None /\ elem'[request_map'[k]].key = k
    BY <1>0, <1>2, <2>1, <2>2, <2>3, <2>4 DEF MapWellFormed, Entries
  <2>5. ASSUME NEW k \in Entries', NEW l \in Entries', request_map'[l] = request_map'[k]
        PROVE  l = k
    BY <2>4, <2>5
  <2> QED
    BY <2>4, <2>5 DEF MapWellFormed
<1>3. ASSUME request_map' = request_map,
             \A f \in Elem : elem[f] # None =>
                               elem'[f] # None /\ elem'[f].key = elem[f].key
      PROVE  MapWellFormed'
  BY <1>0, <1>3 DEF MapWellFormed, Entries
<1>4. ASSUME request_map' = [request_map EXCEPT ![run[p].conn] = None], elem' = elem
      PROVE  MapWellFormed'
  BY <1>0, <1>4 DEF MapWellFormed, Entries
<1> QED
  BY <1>1, <1>2, <1>3, <1>4, StepMap

\* Entries of request_map never share an element, and each was filled from a
\* request of the connection it is stored under (MapWellFormed), however runs
\* on different CPUs interleave: no assumption on the order of packets.
THEOREM MapWellFormedHolds == Spec => []MapWellFormed
<1> DEFINE MapInv == RunKey /\ MapWellFormed
<1>1. Init => MapInv
  BY IdleNotBusy DEF Init, RunKey, RunKeyOK, MapWellFormed, Entries
<1>2. TypeInv /\ MapInv /\ [Next]_vars => MapInv'
  <2> SUFFICES ASSUME TypeInv, MapInv, [Next]_vars PROVE MapInv'
    OBVIOUS
  <2>1. CASE Quiet
    BY <2>1 DEF Quiet, RunKey, MapWellFormed, Entries
  <2>2. ASSUME NEW p \in CPU, NEW c \in Conn, NEW kind \in {"req", "rsp"}, NEW n \in ReqNo,
               Receive(p, c, kind, n)
        PROVE  MapInv'
    <3>1. RunKey'
      BY <2>2, ReceiveRunKey DEF TypeInv
    <3>2. UNCHANGED <<request_map, elem>>
      BY <2>2 DEF Receive, maps
    <3> QED
      BY <3>1, <3>2 DEF MapWellFormed, Entries
  <2>3. ASSUME NEW p \in CPU, Step(p) PROVE MapInv'
    BY <2>3, StepRunKey, StepMapWellFormed DEF TypeInv
  <2>4. TypeOK
    BY DEF TypeInv
  <2> QED
    BY <2>1, <2>2, <2>3, <2>4, NextCases
<1>3. MapInv => MapWellFormed
  OBVIOUS
<1> QED
  BY <1>1, <1>2, <1>3, TypeInvHolds, PTL DEF Spec

-----------------------------------------------------------------------------
(* Records never mix connections when the packets of one connection are     *)
(* filtered one at a time: a run that holds a pointer still finds it under  *)
(* the key of its connection, although other runs take and free elements.   *)

OneRunEach ==
    \A p, q \in CPU : run[p].pc # "idle" /\ run[q].pc # "idle"
                      /\ run[p].conn = run[q].conn => p = q

PointerIsEntry ==
    \A p \in CPU : run[p].pc \in HoldsPointer => run[p].ptr = request_map[run[p].conn]

\* A record was built from a request of the connection whose response output it.
OwnConnection ==
    \A i \in DOMAIN emitted : emitted[i].rec.key = emitted[i].conn

OwnInv == RunKey /\ MapWellFormed /\ OneRunEach /\ PointerIsEntry /\ OwnConnection

LEMMA ReceiveOwn ==
    ASSUME TypeInv, OwnInv, Serial = TRUE, NEW p \in CPU, NEW c \in Conn,
           NEW kind \in {"req", "rsp"}, NEW n \in ReqNo, Receive(p, c, kind, n)
    PROVE  OwnInv'
<1>1. UNCHANGED <<request_map, elem, emitted>> /\ Busy(c) = {}
  BY DEF Receive, maps, history
<1>2. /\ RunKey' /\ run'[p].conn = c
      /\ run'[p].pc \in {"update", "lookup", "return"}
      /\ \A q \in CPU \ {p} : run'[q] = run[q]
  BY ReceiveRunKey DEF TypeInv, OwnInv
<1>3. \A q \in CPU \ {p} : run'[q].conn # c
  BY <1>1, <1>2 DEF Busy
<1>4. OneRunEach'
  BY <1>2, <1>3 DEF OneRunEach, OwnInv
<1>5. PointerIsEntry'
  BY <1>1, <1>2 DEF PointerIsEntry, OwnInv, HoldsPointer
<1> QED
  BY <1>1, <1>2, <1>4, <1>5 DEF OwnInv, MapWellFormed, Entries, OwnConnection

LEMMA StepOwn ==
    ASSUME TypeInv, OwnInv, NEW p \in CPU, Step(p)
    PROVE  OwnInv'
<1>0. /\ run[p] \in RunState /\ run[p].conn \in Key /\ run[p].pc # "idle"
      /\ request_map \in [Key -> Elem \union {None}]
  BY StepRun, BusyRun DEF OwnInv, RunKey, RunKeyOK, TypeInv, TypeOK
<1>1. RunKey' /\ MapWellFormed'
  BY StepRunKey, StepMapWellFormed DEF OwnInv, TypeInv
<1>2. OneRunEach'
  BY StepRun, IdleNotBusy DEF OneRunEach, OwnInv, TypeInv
<1>3. \A q \in CPU \ {p} : run[q].pc # "idle" => run[q].conn # run[p].conn /\ run[q].conn \in Key
  BY <1>0 DEF OwnInv, OneRunEach, RunKey, RunKeyOK
<1>4. \A k \in Key \ {run[p].conn} : request_map'[k] = request_map[k]
  BY <1>0, StepMap DEF OwnInv
<1>5. ASSUME NEW q \in CPU \ {p}, run'[q].pc \in HoldsPointer
      PROVE  run'[q].ptr = request_map'[run'[q].conn]
  BY <1>3, <1>4, <1>5, StepRun DEF OwnInv, PointerIsEntry, HoldsPointer, TypeInv
<1>6. ASSUME run'[p].pc \in HoldsPointer
      PROVE  run'[p].ptr = request_map'[run'[p].conn]
  <2>1. CASE LookupElem(p)
    BY <1>0, <2>1 DEF LookupElem, maps, OwnInv, RunKey, RunKeyOK, TypeInv, TypeOK
  <2>2. CASE ReadDuration(p)
    BY <1>0, <2>2 DEF ReadDuration, maps, OwnInv, PointerIsEntry, HoldsPointer, TypeInv, TypeOK
  <2>3. CASE FillResponse(p) \/ RingbufOutput(p)
    <3>1. request_map' = request_map /\ run[p].pc \in HoldsPointer
      BY <2>3 DEF FillResponse, RingbufOutput, HoldsPointer
    <3>2. run'[p].ptr = run[p].ptr /\ run'[p].conn = run[p].conn
      BY <1>0, <2>3 DEF FillResponse, RingbufOutput, Goto, RunState, TypeInv, TypeOK
    <3> QED
      BY <3>1, <3>2 DEF OwnInv, PointerIsEntry
  <2>4. CASE UpdateElem(p) \/ DeleteElem(p)
    BY <1>0, <1>6, <2>4 DEF UpdateElem, DeleteElem, Goto, HoldsPointer, RunState, TypeInv, TypeOK
  <2>5. CASE Return(p)
    BY <1>6, <2>5, IdleNotBusy DEF Return, HoldsPointer, TypeInv, TypeOK
  <2> QED
    BY <2>1, <2>2, <2>3, <2>4, <2>5 DEF Step
<1>7. PointerIsEntry'
  BY <1>5, <1>6 DEF PointerIsEntry
<1>8. OwnConnection'
  <2>1. CASE emitted' = emitted
    BY <2>1 DEF OwnInv, OwnConnection
  <2>2. CASE /\ run[p].pc = "output"
             /\ emitted' = Append(emitted, [rec |-> elem[run[p].ptr], conn |-> run[p].conn,
                                            rsp |-> run[p].pkt.n, end |-> run[p].at])
    <3>1. run[p].ptr \in Elem /\ run[p].ptr = request_map[run[p].conn]
      BY <2>2 DEF OwnInv, PointerIsEntry, PointerOK, HoldsPointer, TypeInv
    <3>2. elem[run[p].ptr].key = run[p].conn
      BY <1>0, <3>1, NoneAssumption DEF OwnInv, MapWellFormed, Entries
    <3> DEFINE out == [rec |-> elem[run[p].ptr], conn |-> run[p].conn,
                       rsp |-> run[p].pkt.n, end |-> run[p].at]
    <3>3. out.rec.key = out.conn
      BY <3>2
    <3>4. emitted \in Seq([rec : Record, conn : Conn, rsp : ReqNo, end : 0 .. MaxTime])
      BY DEF TypeInv, TypeOK
    <3>5. emitted' = Append(emitted, out)
      BY <2>2
    <3> HIDE DEF out
    <3>6. \A i \in DOMAIN emitted' :
             emitted'[i] = out \/ (i \in DOMAIN emitted /\ emitted'[i] = emitted[i])
      BY <3>4, <3>5
    <3> QED
      BY <3>3, <3>6 DEF OwnInv, OwnConnection
  <2> QED
    BY <2>1, <2>2 DEF Step, UpdateElem, LookupElem, ReadDuration, FillResponse,
       RingbufOutput, DeleteElem, Return, history
<1> QED
  BY <1>1, <1>2, <1>7, <1>8 DEF OwnInv

\* While the packets of a connection are filtered one at a time, a pointer a run
\* holds is the entry of its connection.
LEMMA OwnInvHolds ==
    ASSUME Serial = TRUE
    PROVE  Spec => []OwnInv
<1>1. Init => OwnInv
  BY IdleNotBusy DEF Init, OwnInv, RunKey, RunKeyOK, MapWellFormed, Entries, OneRunEach,
     PointerIsEntry, OwnConnection, HoldsPointer
<1>2. TypeInv /\ OwnInv /\ [Next]_vars => OwnInv'
  <2> SUFFICES ASSUME TypeInv, OwnInv, [Next]_vars PROVE OwnInv'
    OBVIOUS
  <2>1. CASE Quiet
    BY <2>1 DEF Quiet, OwnInv, RunKey, MapWellFormed, Entries, OneRunEach, PointerIsEntry,
       OwnConnection
  <2>2. ASSUME NEW p \in CPU, NEW c \in Conn, NEW kind \in {"req", "rsp"}, NEW n \in ReqNo,
               Receive(p, c, kind, n)
        PROVE  OwnInv'
    BY <2>2, ReceiveOwn
  <2>3. ASSUME NEW p \in CPU, Step(p) PROVE OwnInv'
    BY <2>3, StepOwn
  <2>4. TypeOK
    BY DEF TypeInv
  <2> QED
    BY <2>1, <2>2, <2>3, <2>4, NextCases
<1> QED
  BY <1>1, <1>2, TypeInvHolds, PTL DEF Spec
=============================================================================
