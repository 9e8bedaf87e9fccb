----------------------------- MODULE HttpFilter -----------------------------
(***************************************************************************)
(* The kernel half of the http plugin: the eBPF socket filter              *)
(* socket__filter_http (ebpf/http/http.c) that runs on every packet of the *)
(* bridge, pairs an HTTP response with the request kept in request_map     *)
(* under the connection's four-tuple, and outputs the pair to a ring       *)
(* buffer.                                                                 *)
(*                                                                         *)
(* The filter runs on the CPU that handles the packet, so runs on several  *)
(* CPUs interleave between the helper calls; every helper call and every   *)
(* access through the pointer a lookup returned is a step of its own.  The *)
(* values of request_map live in a pool of elements: an update takes a     *)
(* free element, and a deleted or replaced element is free at once, also   *)
(* while another CPU still holds a pointer to it.                          *)
(*                                                                         *)
(* A request is abstracted to its number on its connection: url, method    *)
(* and payload size are copied together from one packet, so the number     *)
(* tells which packet they came from.  A response likewise (status and     *)
(* payload size).                                                          *)
(*                                                                         *)
(* The ends of a connection and the network are outside the program.  A    *)
(* packet that was sent may reach the bridge late, several times           *)
(* (retransmission), after packets sent later, or never, and one that has  *)
(* passed the bridge may still be lost on its way to the receiver.         *)
(***************************************************************************)
EXTENDS IpBytes, Sequences, FiniteSets

CONSTANTS
    CPU,           \* CPUs that run the filter
    Sock,          \* sockets: an address and a port
    SockIp,        \* the address of every socket
    Conn,          \* TCP connections, as the four-tuple client -> server
    Elem,          \* the preallocated elements of request_map
    None,          \* no element, no packet
    MAX_MAP_CONN,  \* max_entries of request_map
    RING_CAP,      \* records that fit in the ring buffer
    DurationMod,   \* number of values of the __u32 field duration
    MaxReq,        \* bound: requests per connection
    MaxPackets,    \* bound: packets of a connection that are filtered
    MaxTime,       \* bound: clock
    Serial,        \* TRUE: two packets of a connection are never filtered
                   \* at the same time
    Abandons       \* TRUE: a client may give up on a request and send another

Key == [src : Sock, dst : Sock]
ReqNo == 1 .. MaxReq

ASSUME ConstantsAssumption ==
    /\ SockIp \in [Sock -> Bytes4]
    /\ \A s \in Sock : SockIp[s] # ZeroKey
    /\ Conn \subseteq Key
    /\ IsFiniteSet(Elem)
    /\ MAX_MAP_CONN \in Nat \ {0}
    /\ Cardinality(Elem) > MAX_MAP_CONN
    /\ RING_CAP \in Nat \ {0}
    /\ DurationMod \in Nat \ {0}
    /\ MaxReq \in Nat
    /\ MaxPackets \in Nat
    /\ MaxTime \in Nat
    /\ Serial \in BOOLEAN
    /\ Abandons \in BOOLEAN

VARIABLES
    attached,     \* the filter is attached to the raw socket (Load)
    filter_ip,    \* map: keys of the addresses to look at
    request_map,  \* map: conn_key -> element holding the pending request
    elem,         \* contents of the elements of request_map
    packets,      \* ring buffer: records not yet read by the agent
    run,          \* what each CPU is doing
    now,          \* bpf_ktime_get_ns
    sent,         \* the last request the client of each connection has sent
    net,          \* packets the clients and servers have sent
    unseen,       \* packets that passed the bridge before the filter was attached
    seen,         \* packets that passed the bridge after a run of the filter
    arrived,      \* packets of each connection that have entered the filter
    high,         \* history: the latest packet of each connection at the bridge
    overtaken,    \* history: connections of which a packet entered the filter
                  \* after a later one
    emitted,      \* history: every record output, and by which response
    lost          \* history: requests given up because a map was full

wire == <<sent, net, unseen>>
order == <<arrived, high, overtaken>>
maps == <<filter_ip, request_map, elem, packets>>
history == <<emitted, seen, lost>>
vars == <<attached, maps, run, now, wire, order, history>>

-----------------------------------------------------------------------------
(* Packets and records. *)

\* A request travels from the client to the server, its response back.
Packet(kind, c, n) ==
    [kind |-> kind, n |-> n,
     src |-> IF kind = "req" THEN c.src ELSE c.dst,
     dst |-> IF kind = "req" THEN c.dst ELSE c.src]

PacketId == {"req", "rsp"} \X Conn \X ReqNo

\* The place of a packet in the order HTTP/1.1 has on a connection: request 1,
\* its response, request 2, ...
Pos(kind, n) == IF kind = "req" THEN 2 * n - 1 ELSE 2 * n

\* Mutant: the client is left out of the key.
conn_key_server_only(pkt) ==
    IF pkt.kind = "req" THEN [src |-> pkt.dst, dst |-> pkt.dst]
                        ELSE [src |-> pkt.src, dst |-> pkt.src]

\* Mutant: a response is looked up under its own four-tuple.
conn_key_not_swapped(pkt) == [src |-> pkt.src, dst |-> pkt.dst]

\* The conn_key the filter computes: a request's own four-tuple, a response's
\* with source and destination exchanged.
conn_key(pkt) ==
    IF pkt.kind = "req" THEN [src |-> pkt.src, dst |-> pkt.dst]
                        ELSE [src |-> pkt.dst, dst |-> pkt.src]

\* struct packet, as far as it matters: the connection, the request it was
\* filled from, the duration field, the response filled in (0: none yet), and
\* the unwrapped time of the request, which the program does not have.
Record == [key : Key, req : ReqNo, rsp : 0 .. MaxReq,
           duration : 0 .. DurationMod - 1, at : 0 .. MaxTime]

ASSUME NoneAssumption == None \notin Elem \union Conn \union Record

Idle == [pc |-> "idle", conn |-> None, pkt |-> None, ptr |-> None,
         duration |-> 0, at |-> 0]

\* Elements no key of request_map refers to.
Free == {e \in Elem : \A k \in Key : request_map[k] # e}

Entries == {k \in Key : request_map[k] # None}

Busy(c) == {p \in CPU : run[p].conn = c}

Goto(p, label) == run' = [run EXCEPT ![p].pc = label]

-----------------------------------------------------------------------------
Init ==
    /\ attached = FALSE
    /\ filter_ip = {}
    /\ request_map = [k \in Key |-> None]
    /\ elem = [e \in Elem |-> None]
    /\ packets = << >>
    /\ run = [p \in CPU |-> Idle]
    /\ now = 0
    /\ sent = [c \in Conn |-> 0]
    /\ net = {}
    /\ unseen = {}
    /\ seen = {}
    /\ arrived = [c \in Conn |-> 0]
    /\ high = [c \in Conn |-> 0]
    /\ overtaken = {}
    /\ emitted = << >>
    /\ lost = {}

\* The last step of HttpEbpf.Load: SO_ATTACH_BPF on the raw socket.
Attach ==
    /\ ~ attached
    /\ attached' = TRUE
    /\ UNCHANGED <<maps, run, now, wire, order, history>>

\* The agent writes an address to filter_ip (AddFilterIP, WriteFilterIP) ...
PutFilterIP(s) ==
    /\ filter_ip' = filter_ip \union {FilterKey(SockIp[s])}
    /\ UNCHANGED <<attached, request_map, elem, packets, run, now, wire, order, history>>

\* ... or deletes one (DeleteFilterIP); deleting an absent key is an error
\* that changes nothing.
DelFilterIP(s) ==
    /\ filter_ip' = filter_ip \ {FilterKey(SockIp[s])}
    /\ UNCHANGED <<attached, request_map, elem, packets, run, now, wire, order, history>>

\* Time passes.
Tick ==
    /\ now < MaxTime
    /\ now' = now + 1
    /\ UNCHANGED <<attached, maps, run, wire, order, history>>

-----------------------------------------------------------------------------
(* The connections (external): HTTP/1.1 over TCP without pipelining.  What   *)
(* an end sends stays in net: each time a copy of it reaches the bridge is a *)
(* retransmission or a late arrival, and it may never get there.             *)

Passed == seen \union unseen

\* The client has the response to its last request, or gives up on it (reset,
\* timeout) and uses the four-tuple for a new connection.
SendRequest(c) ==
    LET n == sent[c] + 1 IN
    /\ sent[c] < MaxReq
    /\ sent[c] = 0 \/ Abandons \/ <<"rsp", c, sent[c]>> \in Passed
    /\ sent' = [sent EXCEPT ![c] = n]
    /\ net' = net \union {<<"req", c, n>>}
    /\ UNCHANGED <<attached, maps, run, now, unseen, order, history>>

\* A request that has passed the bridge has reached the server, which answers.
SendResponse(c, n) ==
    /\ <<"req", c, n>> \in Passed
    /\ <<"rsp", c, n>> \notin net
    /\ net' = net \union {<<"rsp", c, n>>}
    /\ UNCHANGED <<attached, maps, run, now, sent, unseen, order, history>>

\* A packet of connection c is at the bridge.
Raise(c, kind, n) ==
    high' = [high EXCEPT ![c] = IF @ < Pos(kind, n) THEN Pos(kind, n) ELSE @]

\* Before the filter is attached packets pass without being looked at.
PassUnseen(c, kind, n) ==
    /\ ~ attached
    /\ <<kind, c, n>> \in net \ unseen
    /\ unseen' = unseen \union {<<kind, c, n>>}
    /\ Raise(c, kind, n)
    /\ UNCHANGED <<attached, maps, run, now, sent, net, arrived, overtaken, history>>

-----------------------------------------------------------------------------
(* socket__filter_http, one run per packet. *)

\* A packet of connection c enters the filter on CPU p.  Packets that are not
\* TCP over IPv4, or start with neither a method nor HTTP, are returned without
\* any effect and are left out.  A request is stamped here with the time.
Receive(p, c, kind, n) ==
    LET pkt == Packet(kind, c, n) IN
    /\ attached
    /\ <<kind, c, n>> \in net
    /\ arrived[c] < MaxPackets
    /\ run[p] = Idle
    /\ Serial => Busy(c) = {}
    /\ run' = [run EXCEPT ![p] =
                 [pc |-> IF ~ PassesFilter(filter_ip, SockIp[pkt.src], SockIp[pkt.dst])
                           THEN "return"
                         ELSE IF kind = "req" THEN "update" ELSE "lookup",
                  conn |-> c, pkt |-> pkt, ptr |-> None,
                  duration |-> now % DurationMod, at |-> now]]
    /\ arrived' = [arrived EXCEPT ![c] = @ + 1]
    /\ Raise(c, kind, n)
    /\ overtaken' = IF Pos(kind, n) < high[c] THEN overtaken \union {c} ELSE overtaken
    /\ UNCHANGED <<attached, maps, now, wire, history>>

\* Mutant: BPF_NOEXIST, an older entry of the connection is kept.
UpdateElem_NOEXIST(p) ==
    LET pkt == run[p].pkt
        k == conn_key(pkt)
    IN
    /\ run[p].pc = "update"
    /\ IF request_map[k] = None /\ Cardinality(Entries) < MAX_MAP_CONN
       THEN \E e \in Free :
              /\ elem' = [elem EXCEPT ![e] =
                            [key |-> [src |-> pkt.src, dst |-> pkt.dst],
                             req |-> pkt.n, rsp |-> 0,
                             duration |-> run[p].duration, at |-> run[p].at]]
              /\ request_map' = [request_map EXCEPT ![k] = e]
       ELSE UNCHANGED <<elem, request_map>>
    /\ Goto(p, "return")
    /\ UNCHANGED <<attached, filter_ip, packets, now, wire, order, history>>

\* bpf_map_update_elem(&request_map, &k, &p, BPF_ANY).  Replacing the value of
\* a key always finds an element; a new key fails when the map is full, and
\* the result is not looked at.
UpdateElem(p) ==
    LET pkt == run[p].pkt
        k == conn_key(pkt)
    IN
    /\ run[p].pc = "update"
    /\ IF request_map[k] # None \/ Cardinality(Entries) < MAX_MAP_CONN
       THEN \E e \in Free :
              /\ elem' = [elem EXCEPT ![e] =
                            [key |-> [src |-> pkt.src, dst |-> pkt.dst],
                             req |-> pkt.n, rsp |-> 0,
                             duration |-> run[p].duration, at |-> run[p].at]]
              /\ request_map' = [request_map EXCEPT ![k] = e]
              /\ UNCHANGED lost
       ELSE /\ lost' = lost \union {<<run[p].conn, pkt.n>>}
            /\ UNCHANGED <<elem, request_map>>
    /\ Goto(p, "return")
    /\ UNCHANGED <<attached, filter_ip, packets, now, wire, order, emitted, seen>>

\* bpf_map_lookup_elem: a pointer into the element, or the early return.
LookupElem(p) ==
    LET e == request_map[conn_key(run[p].pkt)] IN
    /\ run[p].pc = "lookup"
    /\ run' = [run EXCEPT ![p] =
                 [pc |-> IF e = None THEN "return" ELSE "duration",
                  conn |-> @.conn, pkt |-> @.pkt, ptr |-> e,
                  duration |-> @.duration, at |-> @.at]]
    /\ UNCHANGED <<attached, maps, now, wire, order, history>>

\* Mutant: a difference that does not wrap is stored in the 32-bit field.
ReadDuration_wide(p) ==
    /\ run[p].pc = "duration"
    /\ run' = [run EXCEPT ![p].pc = "fill",
                          ![p].duration = now - elem[run[p].ptr].duration,
                          ![p].at = now]
    /\ UNCHANGED <<attached, maps, now, wire, order, history>>

\* bpf_ktime_get_ns() - req->duration, computed modulo 2^32.
ReadDuration(p) ==
    LET req == elem[run[p].ptr] IN
    /\ run[p].pc = "duration"
    /\ run' = [run EXCEPT ![p] =
                 [pc |-> "fill", conn |-> @.conn, pkt |-> @.pkt, ptr |-> @.ptr,
                  duration |-> (now - req.duration) % DurationMod, at |-> now]]
    /\ UNCHANGED <<attached, maps, now, wire, order, history>>

\* The stores through the pointer: duration, rsp_payload_size, status.
FillResponse(p) ==
    /\ run[p].pc = "fill"
    /\ elem' = [elem EXCEPT ![run[p].ptr] =
                  [key |-> @.key, req |-> @.req, rsp |-> run[p].pkt.n,
                   duration |-> run[p].duration, at |-> @.at]]
    /\ Goto(p, "output")
    /\ UNCHANGED <<attached, filter_ip, request_map, packets, now, wire, order, history>>

\* bpf_ringbuf_output copies the element; a full buffer is an error that is
\* not looked at.
RingbufOutput(p) ==
    LET rec == elem[run[p].ptr] IN
    /\ run[p].pc = "output"
    /\ IF Len(packets) < RING_CAP
       THEN /\ packets' = Append(packets, rec)
            /\ emitted' = Append(emitted, [rec |-> rec, conn |-> run[p].conn,
                                           rsp |-> run[p].pkt.n, end |-> run[p].at])
            /\ UNCHANGED lost
       ELSE /\ lost' = lost \union {<<run[p].conn, rec.req>>}
            /\ UNCHANGED <<packets, emitted>>
    /\ Goto(p, "delete")
    /\ UNCHANGED <<attached, filter_ip, request_map, elem, now, wire, order, seen>>

\* Mutant: the answered request stays in the map.
DeleteElem_forgotten(p) ==
    /\ run[p].pc = "delete"
    /\ Goto(p, "return")
    /\ UNCHANGED <<attached, maps, now, wire, order, history>>

\* bpf_map_delete_elem(&request_map, &k).
DeleteElem(p) ==
    /\ run[p].pc = "delete"
    /\ request_map' = [request_map EXCEPT ![conn_key(run[p].pkt)] = None]
    /\ Goto(p, "return")
    /\ UNCHANGED <<attached, filter_ip, elem, packets, now, wire, order, history>>

\* The run ends and the bridge forwards the packet.
Return(p) ==
    LET pkt == run[p].pkt IN
    /\ run[p].pc = "return"
    /\ run' = [run EXCEPT ![p] = Idle]
    /\ seen' = seen \union {<<pkt.kind, run[p].conn, pkt.n>>}
    /\ UNCHANGED <<attached, maps, now, wire, order, emitted, lost>>

\* rd.Read in the agent takes the oldest record.
RingbufRead ==
    /\ packets # << >>
    /\ packets' = Tail(packets)
    /\ UNCHANGED <<attached, filter_ip, request_map, elem, run, now, wire, order, history>>

Step(p) ==
    \/ UpdateElem(p) \/ LookupElem(p) \/ ReadDuration(p) \/ FillResponse(p)
    \/ RingbufOutput(p) \/ DeleteElem(p) \/ Return(p)

Next ==
    \/ Attach \/ Tick \/ RingbufRead
    \/ \E s \in Sock : PutFilterIP(s) \/ DelFilterIP(s)
    \/ \E c \in Conn : SendRequest(c) \/ \E n \in ReqNo : SendResponse(c, n)
    \/ \E c \in Conn, kind \in {"req", "rsp"}, n \in ReqNo :
         PassUnseen(c, kind, n) \/ \E p \in CPU : Receive(p, c, kind, n)
    \/ \E p \in CPU : Step(p)

Spec == Init /\ [][Next]_vars
-----------------------------------------------------------------------------
(* Properties. *)

RunState == [pc : {"update", "lookup", "duration", "fill", "output", "delete", "return"},
             conn : Conn,
             pkt : [kind : {"req", "rsp"}, n : ReqNo, src : Sock, dst : Sock],
             ptr : Elem \union {None},
             duration : 0 .. DurationMod - 1,
             at : 0 .. MaxTime]

\* Every variable holds a value of its type; in particular the pointer a run
\* dereferences was returned by a lookup.
TypeOK ==
    /\ attached \in BOOLEAN
    /\ filter_ip \subseteq Bytes4
    /\ request_map \in [Key -> Elem \union {None}]
    /\ elem \in [Elem -> Record \union {None}]
    /\ packets \in Seq(Record)
    /\ Len(packets) <= RING_CAP
    /\ run \in [CPU -> RunState \union {Idle}]
    /\ now \in 0 .. MaxTime
    /\ sent \in [Conn -> 0 .. MaxReq]
    /\ net \subseteq PacketId
    /\ unseen \subseteq PacketId
    /\ seen \subseteq PacketId
    /\ arrived \in [Conn -> 0 .. MaxPackets]
    /\ high \in [Conn -> 0 .. 2 * MaxReq]
    /\ overtaken \subseteq Conn
    /\ emitted \in Seq([rec : Record, conn : Conn, rsp : ReqNo, end : 0 .. MaxTime])
    /\ lost \subseteq Conn \X ReqNo

\* A record pairs a response with the very request it answers while the packets
\* of the connection enter the filter in the order of HTTP/1.1, each as often as
\* it is retransmitted: also when requests are abandoned, packets are lost before
\* or behind the bridge, the filter is attached in the middle of a connection or
\* a map is full.  In any order a record has the connection and the response of
\* the run that output it.
MatchedPairs ==
    \A i \in DOMAIN emitted :
        /\ emitted[i].rec.key = emitted[i].conn
        /\ emitted[i].rec.rsp = emitted[i].rsp
        /\ emitted[i].conn \notin overtaken => emitted[i].rec.req = emitted[i].rsp

\* While the packets of a connection enter the filter in order, no request of it
\* is reported twice, however often its packets are retransmitted.
ReportedOnce ==
    \A i, j \in DOMAIN emitted :
        /\ emitted[i].conn = emitted[j].conn
        /\ emitted[i].conn \notin overtaken
        /\ emitted[i].rec.req = emitted[j].rec.req
        => i = j

\* The duration field is the time from the last copy of the request to the
\* response, modulo the width of the field: the response is never subtracted
\* from a value that is itself a difference.
DurationIsDifference ==
    \A i \in DOMAIN emitted :
        emitted[i].rec.duration = (emitted[i].end - emitted[i].rec.at) % DurationMod

\* While no packet of a connection is being filtered and they entered the filter
\* in order, the entry the connection has in request_map is the latest packet
\* that came by: it is not answered, and no old entry waits for the response to
\* a later request.
PendingIsLatest ==
    \A c \in Conn \ overtaken :
        Busy(c) = {} /\ request_map[c] # None =>
            Pos("req", elem[request_map[c]].req) = high[c]

\* Keys never share an element, and an element belongs to the key it is
\* reached by.
MapWellFormed ==
    \A k \in Entries :
        /\ elem[request_map[k]] # None
        /\ elem[request_map[k]].key = k
        /\ \A l \in Entries : request_map[l] = request_map[k] => l = k

\* A request and its response that entered the filter in order are reported,
\* unless request_map or the ring buffer was full.
NoSilentLoss ==
    \A c \in Conn \ overtaken, n \in ReqNo :
        <<"req", c, n>> \in seen /\ <<"rsp", c, n>> \in seen =>
            \/ <<c, n>> \in lost
            \/ \E i \in DOMAIN emitted :
                 emitted[i].conn = c /\ emitted[i].rec.req = n

\* What docs/http.md says: requests and responses are matched correctly through
\* the map keyed by the connection's four-tuple.  On a connection made after the
\* filter was attached, a record is of the request its response answers, and of
\* the same connection, whatever TCP retransmits and wherever the packets are
\* filtered.  The code does not do this.
AlwaysMatched ==
    \A i \in DOMAIN emitted :
        (\A pkt \in unseen : pkt[2] # emitted[i].conn) =>
            emitted[i].rec.key = emitted[i].conn /\ emitted[i].rec.req = emitted[i].rsp
=============================================================================
