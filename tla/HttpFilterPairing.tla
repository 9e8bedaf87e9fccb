------------------------- MODULE HttpFilterPairing --------------------------
(***************************************************************************)
(* HttpFilter implements Pairing: the five helper calls of a run, spread   *)
(* over the CPUs, are one step for whoever reads the ring buffer.          *)
(***************************************************************************)
EXTENDS HttpFilter

\* A packet is to be dealt with until its run has stored the request, has found
\* no request, or has output the record.
Working == {"update", "lookup", "duration", "fill", "output"}

Work ==
    [c \in Conn |->
        {<<run[p].pkt.kind, run[p].pkt.n>> : p \in {q \in Busy(c) : run[q].pc \in Working}}]

\* A run of connection c has output the entry and not deleted it yet.
Reported(c) == \E p \in CPU : run[p].conn = c /\ run[p].pc = "delete"

\* The open request is the entry of request_map until it is output.
OpenRequest ==
    [c \in Conn |->
        IF request_map[c] = None \/ Reported(c) THEN 0 ELSE elem[request_map[c]].req]

Reports ==
    [i \in DOMAIN emitted |->
        [conn |-> emitted[i].conn, req |-> emitted[i].rec.req, rsp |-> emitted[i].rsp]]

Abstract == INSTANCE Pairing WITH work <- Work, open <- OpenRequest, log <- Reports

\* The filter deals with every packet as Pairing says, in one step, although a
\* run of socket__filter_http makes a pair in five helper calls, packets come
\* late, again or out of order, and a run that found the ring buffer full
\* deletes the entry all the same.
PairsInOneStep == Abstract!Spec
=============================================================================
