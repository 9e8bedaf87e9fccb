------------------------------ MODULE IpBytes ------------------------------
(***************************************************************************)
(* The byte-order conversions between the addresses the agent handles and  *)
(* the keys of the filter_ip map, and the test the socket filter makes on  *)
(* that map.                                                               *)
(*                                                                         *)
(* An IPv4 address is the tuple of its four bytes in network order, which  *)
(* is what iph.saddr and iph.daddr hold in memory.  A map key is the tuple *)
(* of the four bytes in memory, so no 32-bit arithmetic is needed.         *)
(***************************************************************************)
EXTENDS Integers

Byte == 0 .. 255

\* An IPv4 address, or a 4-byte map key, in memory order.
Bytes4 == Byte \X Byte \X Byte \X Byte

\* net.ParseIP (Go standard library): the result of parsing a dotted IPv4
\* address is the 16-byte IPv4-in-IPv6 form ::ffff:a.b.c.d.
ParseIP(ip) ==
    <<0, 0, 0, 0, 0, 0, 0, 0, 0, 0, 255, 255, ip[1], ip[2], ip[3], ip[4]>>

\* ipv4ToUint32 builds ip[0]<<24 | ip[1]<<16 | ip[2]<<8 | ip[3], and the map
\* library stores that number in the byte order of the little-endian target
\* (bpf2go -target amd64): the least significant byte, ip[3], comes first.
ipv4ToUint32(ip) ==
    <<ip[4], ip[3], ip[2], ip[1]>>

\* The key AddFilterIP, DeleteFilterIP and WriteFilterIP use for an address.
FilterKey(ip) == ipv4ToUint32(ParseIP(ip))

\* __check_target_ip: 1 when the address is NOT a key of filter_ip.
check_target_ip(filter, ip) == IF ip \in filter THEN 0 ELSE 1

\* The early return of socket__filter_http: a packet is skipped when the test
\* above yields 0 for both its addresses.
PassesFilter(filter, saddr, daddr) ==
    ~ (/\ check_target_ip(filter, saddr) = 0
       /\ check_target_ip(filter, daddr) = 0)

\* The key of address 0.0.0.0.
ZeroKey == <<0, 0, 0, 0>>
=============================================================================
