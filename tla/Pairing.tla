------------------------------ MODULE Pairing -------------------------------
(***************************************************************************)
(* What the http plugin relies on when it reads the ring buffer: every     *)
(* packet that comes by is dealt with in one step, in whatever order they  *)
(* come.  A connection has at most one open request, the last one that was *)
(* stored.  A response closes it, with a report of the two or without one; *)
(* a response that finds no open request changes nothing.                  *)
(***************************************************************************)
EXTENDS Naturals, Sequences

CONSTANTS
    Conn,    \* connections
    ReqNo    \* numbers of the requests of a connection

VARIABLES
    work,    \* the packet of each connection that is to be dealt with, if any
    open,    \* the open request of each connection; 0: none
    log      \* the reports

Init ==
    /\ work = [c \in Conn |-> {}]
    /\ open = [c \in Conn |-> 0]
    /\ log = << >>

Arrive(c, kind, n) ==
    /\ work[c] = {}
    /\ work' = [work EXCEPT ![c] = {<<kind, n>>}]
    /\ UNCHANGED <<open, log>>

\* The packet is dealt with.
Done(c, kind, n) ==
    /\ work[c] = {<<kind, n>>}
    /\ work' = [work EXCEPT ![c] = {}]

\* A request opens; one that is still open is given up.
Open(c, n) ==
    /\ Done(c, "req", n)
    /\ open' = [open EXCEPT ![c] = n]
    /\ UNCHANGED log

\* There is no room for the request of a connection that has none open.
Refuse(c, n) ==
    /\ Done(c, "req", n)
    /\ open[c] = 0
    /\ UNCHANGED <<open, log>>

\* A response is reported with the open request, and closes it.
Report(c, n) ==
    /\ Done(c, "rsp", n)
    /\ open[c] # 0
    /\ open' = [open EXCEPT ![c] = 0]
    /\ log' = Append(log, [conn |-> c, req |-> open[c], rsp |-> n])

\* There is no room for the report.
Lose(c, n) ==
    /\ Done(c, "rsp", n)
    /\ open[c] # 0
    /\ open' = [open EXCEPT ![c] = 0]
    /\ UNCHANGED log

\* A response without a request.
Ignore(c, n) ==
    /\ Done(c, "rsp", n)
    /\ open[c] = 0
    /\ UNCHANGED <<open, log>>

Next ==
    \E c \in Conn, n \in ReqNo :
        \/ Arrive(c, "req", n) \/ Arrive(c, "rsp", n)
        \/ Open(c, n) \/ Refuse(c, n)
        \/ Report(c, n) \/ Lose(c, n) \/ Ignore(c, n)

Spec == Init /\ [][Next]_<<work, open, log>>
=============================================================================
