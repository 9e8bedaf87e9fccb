----------------------------- MODULE Attribution ----------------------------
(***************************************************************************)
(* The composition of the socket filter's output, the http plugin's read   *)
(* loop and the endpoint table: a record is output when the access is      *)
(* answered, waits in the ring buffer, and is given a pod only when        *)
(* DecodeMapItem (plugins/http/ebpf.go) looks its destination up.  The     *)
(* cluster, the informer and the handlers go on in between.                *)
(***************************************************************************)
EXTENDS Endpoint2Pod

CONSTANTS
    RING_CAP      \* records that fit in the ring buffer

ASSUME RingAssumption == RING_CAP \in Nat \ {0}

\* Two addresses differ in a byte, and a port has 16 bits.
ASSUME BytesAssumption ==
    /\ \A i, j \in Ip : IpOf[i] = IpOf[j] => i = j
    /\ \A p \in Port : p \in Nat /\ p < 65536

VARIABLES
    packets,      \* ring buffer: records not yet read
    traffic       \* the last record decoded, and the pod it was given

attrVars == <<vars, packets, traffic>>

-----------------------------------------------------------------------------
(* Byte orders.  A number is the tuple of its bytes, most significant first. *)

\* iph.daddr and tcph.dest are in the record as they were on the wire, and
\* binary.Read takes the bytes for little-endian numbers.
LoadedUint32(b) == <<b[4], b[3], b[2], b[1]>>
LoadedUint16(b) == <<b[2], b[1]>>

\* intToIP: PutUint32 of a number, least significant byte first.
intToIP(num) == <<num[4], num[3], num[2], num[1]>>

\* Mutant: the port is taken as it is.
Ntohs_identity(num) == num

\* Ntohs: PutUint16 big-endian, read again in the little-endian order of the
\* machine.
Ntohs(num) == <<num[2], num[1]>>

\* A port as the two bytes of the TCP header, and the number Go prints.
Wire(port) == <<port \div 256, port % 256>>
Number(bytes) == bytes[1] * 256 + bytes[2]

\* GetPodByEndpoint(DstIP, DstPort) for the destination of a record.
Lookup(dst_ip, dst_port) ==
    {Providers[ep].pod :
       ep \in {ep \in Endpoint : /\ IpOf[ep[1]] = intToIP(dst_ip)
                                 /\ ep[2] = Number(Ntohs(dst_port))
                                 /\ Providers[ep] # None}}

-----------------------------------------------------------------------------
\* The pods an object of the cluster lists for the endpoint on this node.
Owners(objects, ep) ==
    {en.pod : en \in {en \in UNION {Local(objects[s]) : s \in Service} : en.ep = ep}}

AttrInit ==
    /\ Init
    /\ packets = << >>
    /\ traffic = None

\* An access to an endpoint is answered and the filter outputs its record
\* (HttpFilter); the ring buffer exists from Load until the process ends.
\* History in the record: whether every event was handled at that time (fresh),
\* and nothing has happened since to an endpoint only one service ever listed
\* (settled); the pods that owned the endpoint then or since.
Access(ep) ==
    /\ running /\ Len(packets) < RING_CAP
    /\ packets' = Append(packets,
         [dst_ip |-> LoadedUint32(IpOf[ep[1]]), dst_port |-> LoadedUint16(Wire(ep[2])), ep |-> ep,
          fresh |-> Quiescent, settled |-> Quiescent /\ \A s, t \in claimed[ep] : s = t,
          owners |-> Owners(cluster, ep)])
    /\ UNCHANGED <<vars, traffic>>

\* rd.Read and DecodeMapItem: the pod of the endpoint, or an error and the
\* record is given up.
DecodeMapItem ==
    /\ running /\ starter.pc = "read" /\ packets # << >>
    /\ LET rec == Head(packets)
           found == Lookup(rec.dst_ip, rec.dst_port)
       IN  \/ \E pod \in found : traffic' = [rec |-> rec, pod |-> pod]
           \/ found = {} /\ traffic' = [rec |-> rec, pod |-> None]
    /\ packets' = Tail(packets)
    /\ UNCHANGED vars

\* A step of the cluster, the informer, the handlers or the plugin's start; the
\* ring buffer is gone when the process ends.
Elsewhere ==
    /\ Next
    /\ packets' =
         IF running'
         THEN [i \in DOMAIN packets |->
                 [packets[i] EXCEPT !.settled = @ /\ Quiescent' /\ cluster' = cluster,
                                    !.owners = @ \union Owners(cluster', packets[i].ep)]]
         ELSE << >>
    /\ UNCHANGED traffic

AttrNext ==
    \/ \E ep \in Endpoint : Access(ep)
    \/ DecodeMapItem
    \/ Elsewhere

AttrSpec == AttrInit /\ [][AttrNext]_attrVars
-----------------------------------------------------------------------------
(* Properties. *)

\* An access is never put down to an earlier owner of its address: if the
\* handlers had handled every event when the access was answered, the pod it
\* is given owned the endpoint then or later, however long the record waits and
\* whatever changes, breaks or is reordered in the meantime.
NeverEarlierOwner ==
    traffic # None /\ traffic.rec.fresh /\ traffic.pod # None =>
        traffic.pod \in traffic.rec.owners

\* An access to an endpoint of one service while nothing changes is neither
\* given up nor given to another pod, through the byte orders of the header,
\* the record and the table.
SettledAttributed ==
    traffic # None /\ traffic.rec.settled =>
        traffic.rec.owners = {traffic.pod} \ {None}
=============================================================================
