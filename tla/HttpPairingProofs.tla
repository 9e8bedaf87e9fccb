------------------------- MODULE HttpPairingProofs --------------------------
(***************************************************************************)
(* Proofs that the socket filter pairs requests and responses: the records *)
(* it outputs, the requests it must not lose, and that it implements       *)
(* Pairing, for any number of CPUs, connections and elements and any       *)
(* bound.  The packets of one connection are filtered one at a time; they  *)
(* may be lost, late, repeated and out of order.                           *)
(***************************************************************************)
EXTENDS HttpFilterProofs, HttpFilterPairing, SequenceTheorems

-----------------------------------------------------------------------------
(* Arithmetic of the duration field. *)

\* A positive multiple of m is at least m.
LEMMA MulBound ==
    ASSUME NEW k \in Int, NEW m \in Nat \ {0}, k >= 1
    PROVE  k * m >= m
  OBVIOUS

\* Division with remainder.
LEMMA DivMod ==
    ASSUME NEW a \in Int, NEW m \in Nat \ {0}
    PROVE  /\ a \div m \in Int /\ a % m \in 0 .. m - 1
           /\ a = m * (a \div m) + (a % m)
  OBVIOUS

\* The remainder is unique.
LEMMA ModUnique ==
    ASSUME NEW m \in Nat \ {0}, NEW q \in Int, NEW r \in 0 .. m - 1,
           NEW s \in Int, NEW t \in 0 .. m - 1, q * m + r = s * m + t
    PROVE  r = t
<1>1. (q - s) * m = t - r
  OBVIOUS
<1>2. CASE q - s >= 1
  BY <1>1, <1>2, MulBound
<1>3. CASE s - q >= 1
  <2>1. (s - q) * m = r - t
    BY <1>1
  <2> QED
    BY <2>1, <1>3, MulBound
<1>4. CASE q = s
  BY <1>4
<1> QED
  BY <1>2, <1>3, <1>4

\* Subtracting a remainder instead of the number does not change the remainder:
\* the duration field wraps like the clock it was taken from.
LEMMA ModSub ==
    ASSUME NEW a \in Int, NEW b \in Int, NEW m \in Nat \ {0}
    PROVE  (a - (b % m)) % m = (a - b) % m
<1> DEFINE x == a - (b % m)
           y == a - b
<1>0. b % m \in Int /\ x \in Int /\ y \in Int
  BY DivMod
<1>1. b = m * (b \div m) + (b % m) /\ b \div m \in Int
  BY DivMod
<1>2. x = m * (x \div m) + (x % m) /\ x \div m \in Int /\ x % m \in 0 .. m - 1
  BY <1>0, DivMod
<1>3. y = m * (y \div m) + (y % m) /\ y \div m \in Int /\ y % m \in 0 .. m - 1
  BY <1>0, DivMod
<1>4. x = y + m * (b \div m)
  BY <1>0, <1>1
<1> HIDE DEF x, y
<1>5. (x \div m - b \div m) * m + (x % m) = (y \div m) * m + (y % m)
  BY <1>0, <1>1, <1>2, <1>3, <1>4
<1> DEFINE q == x \div m - b \div m
           s == y \div m
           r == x % m
           t == y % m
<1>6. q \in Int /\ s \in Int /\ r \in 0 .. m - 1 /\ t \in 0 .. m - 1
  BY <1>1, <1>2, <1>3
<1>7. q * m + r = s * m + t
  BY <1>5
<1> HIDE DEF q, s, r, t
<1>8. r = t
  BY <1>6, <1>7, ModUnique
<1> QED
  BY <1>8 DEF x, y, r, t

-----------------------------------------------------------------------------
(* The inductive invariant, in parts. *)

\* Before the filter is attached nothing is in the map.
Unattached == ~ attached => (\A c \in Conn : request_map[c] = None) /\ seen = {}

\* The latest packet at the bridge is not earlier than any that has passed, and
\* a response exists only after its request has passed.
WireOK(c) ==
    /\ \A kind \in {"req", "rsp"}, n \in ReqNo :
         <<kind, c, n>> \in Passed => Pos(kind, n) <= high[c]
    /\ \A n \in ReqNo : <<"rsp", c, n>> \in net => Pos("req", n) <= high[c]

WireInv == \A c \in Conn : WireOK(c)

\* Request n of connection c is in a record or was given up for a full map.
Told(c, n) ==
    \/ <<c, n>> \in lost
    \/ \E i \in DOMAIN emitted : emitted[i].conn = c /\ emitted[i].rec.req = n

\* Where a run that handles a response is, unless it is about to return.
Answering == {"lookup", "duration", "fill", "output", "delete"}

\* What a run knows: while the packets come in order its own is the latest, and
\* each helper call left behind what the next ones rely on.
RunPairOK(p) ==
    LET r == run[p] IN
    /\ attached
    /\ Pos(r.pkt.kind, r.pkt.n) <= high[r.conn]
    /\ r.conn \notin overtaken => Pos(r.pkt.kind, r.pkt.n) = high[r.conn]
    /\ r.pc = "update" => r.pkt.kind = "req" /\ r.duration = r.at % DurationMod
    /\ r.pc \in Answering => r.pkt.kind = "rsp"
    /\ r.pc = "return" /\ r.pkt.kind = "rsp" => request_map[r.conn] = None
    /\ r.pc = "fill" => r.duration = (r.at - elem[r.ptr].at) % DurationMod
    /\ r.pc = "output" =>
         /\ elem[r.ptr].rsp = r.pkt.n
         /\ elem[r.ptr].duration = (r.at - elem[r.ptr].at) % DurationMod
    /\ r.pc = "delete" /\ r.conn \notin overtaken => Told(r.conn, r.pkt.n)

RunPair == \A p \in CPU : run[p].pc # "idle" => RunPairOK(p)

\* No run of connection c is at one of the labels.
NoRunAt(c, labels) == \A p \in CPU : run[p].conn = c => run[p].pc \notin labels

\* The entry of a connection is stamped with the time it was sent.  While the
\* packets come in order it is the latest of them unless a newer request is about
\* to replace it or its own response is being handled.
EntryPairOK(c) ==
    LET e == elem[request_map[c]] IN
    request_map[c] # None =>
        /\ NoRunAt(c, {"output", "delete"}) => e.duration = e.at % DurationMod
        /\ c \notin overtaken =>
             /\ Pos("req", e.req) <= high[c]
             /\ NoRunAt(c, {"update"}) =>
                  high[c] = IF NoRunAt(c, Answering) THEN Pos("req", e.req)
                                                     ELSE Pos("rsp", e.req)

\* The records of a connection are of requests whose response came by, all
\* earlier than the entry unless that is about to be deleted.
OldOK(c) ==
    c \notin overtaken => \A i \in DOMAIN emitted : emitted[i].conn = c =>
        /\ Pos("rsp", emitted[i].rec.req) <= high[c]
        /\ request_map[c] # None /\ NoRunAt(c, {"delete"}) =>
             emitted[i].rec.req < elem[request_map[c]].req

\* The run of request n of connection c is past the map.
Kept(c, n) ==
    \/ <<"req", c, n>> \in seen
    \/ \E p \in CPU : /\ run[p].conn = c /\ run[p].pc = "return"
                      /\ run[p].pkt.kind = "req" /\ run[p].pkt.n = n

\* Until a later request comes by, such a request is told of or in the map.
SeenOK(c) ==
    c \notin overtaken =>
        \A n \in ReqNo : Kept(c, n) /\ high[c] <= Pos("rsp", n) =>
            \/ Told(c, n)
            \/ request_map[c] # None /\ elem[request_map[c]].req = n

ConnOK(c) == EntryPairOK(c) /\ OldOK(c) /\ SeenOK(c)

ConnInv == \A c \in Conn : ConnOK(c)

RecordsOK == MatchedPairs /\ DurationIsDifference /\ ReportedOnce

PairInv ==
    /\ FilterInv /\ Unattached /\ WireInv /\ RunPair /\ ConnInv
    /\ RecordsOK /\ NoSilentLoss

Inv == TypeInv /\ OwnInv /\ PairInv

-----------------------------------------------------------------------------
(* Values. *)

LEMMA PosValue ==
    ASSUME NEW n \in ReqNo
    PROVE  /\ n \in Int /\ n >= 1
           /\ Pos("req", n) = 2 * n - 1 /\ Pos("rsp", n) = 2 * n
  BY ConstantsAssumption DEF ReqNo, Pos

LEMMA HighType ==
    ASSUME TypeOK, NEW c \in Conn
    PROVE  high[c] \in Int
<1>1. 0 .. 2 * MaxReq \subseteq Int
  BY ConstantsAssumption
<1> QED
  BY <1>1 DEF TypeOK

\* The entry of a connection is a record.
LEMMA EntryType ==
    ASSUME TypeInv, NEW c \in Conn, request_map[c] # None
    PROVE  /\ request_map[c] \in Elem /\ elem[request_map[c]] \in Record
           /\ elem[request_map[c]].req \in ReqNo
<1>1. c \in Key
  BY ConstantsAssumption
<1>2. request_map[c] \in Elem /\ elem[request_map[c]] # None
  BY <1>1 DEF TypeInv, TypeOK, EntryOK
<1>3. elem[request_map[c]] \in Record
  BY <1>2 DEF TypeInv, TypeOK
<1> QED
  BY <1>2, <1>3 DEF Record

\* The records output so far.
LEMMA EmittedType ==
    ASSUME TypeOK, NEW i \in DOMAIN emitted
    PROVE  /\ emitted[i].rec \in Record /\ emitted[i].conn \in Conn
           /\ emitted[i].rec.req \in ReqNo /\ emitted[i].rec.req \in Int
<1> DEFINE S == [rec : Record, conn : Conn, rsp : ReqNo, end : 0 .. MaxTime]
<1>1. emitted \in Seq(S)
  BY DEF TypeOK
<1> HIDE DEF S
<1>2. emitted[i] \in S
  BY <1>1
<1> USE DEF S
<1>3. emitted[i].rec \in Record /\ emitted[i].conn \in Conn
  BY <1>2
<1>4. emitted[i].rec.req \in ReqNo
  BY <1>3 DEF Record
<1>5. ReqNo \subseteq Int
  BY ConstantsAssumption DEF ReqNo
<1> QED
  BY <1>3, <1>4, <1>5

-----------------------------------------------------------------------------
(* What a step of a run leaves alone: everything that belongs to another    *)
(* connection.                                                              *)

\* A run has a connection of its own.
LEMMA StepFrame ==
    ASSUME TypeInv, OwnInv, NEW p \in CPU, Step(p)
    PROVE  /\ run[p] \in RunState /\ run[p].pc # "idle"
           /\ run[p].conn \in Conn /\ run[p].conn \in Key /\ run[p].pkt.n \in ReqNo
           /\ run[p].pkt.kind \in {"req", "rsp"}
           /\ conn_key(run[p].pkt) = run[p].conn
           /\ \A q \in CPU \ {p} : run'[q] = run[q] /\ run[q].conn # run[p].conn
           /\ UNCHANGED <<attached, filter_ip, now, net, unseen, high, overtaken>>
<1>1. run[p] \in RunState /\ run[p].pc # "idle"
  BY StepRun, BusyRun DEF TypeInv
<1>2. run[p].conn \in Conn /\ run[p].pkt.n \in ReqNo /\ run[p].pkt.kind \in {"req", "rsp"}
  BY <1>1 DEF RunState
<1>3. run[p].conn \in Key /\ conn_key(run[p].pkt) = run[p].conn
  BY <1>1 DEF OwnInv, RunKey, RunKeyOK
<1>4. ASSUME NEW q \in CPU \ {p} PROVE run'[q] = run[q] /\ run[q].conn # run[p].conn
  <2>1. run'[q] = run[q]
    BY StepRun DEF TypeInv
  <2>2. CASE run[q].pc = "idle"
    <3>1. run[q] = Idle
      BY <2>2 DEF TypeInv, TypeOK, RunState
    <3> QED
      BY <1>2, <2>1, <3>1, NoneAssumption DEF Idle
  <2>3. CASE run[q].pc # "idle"
    BY <1>1, <2>1, <2>3 DEF OwnInv, OneRunEach
  <2> QED
    BY <2>2, <2>3
<1>5. UNCHANGED <<attached, filter_ip, now, net, unseen, high, overtaken>>
  BY DEF Step, UpdateElem, LookupElem, ReadDuration, FillResponse, RingbufOutput,
     DeleteElem, Return, maps, wire, order
<1> QED
  BY <1>1, <1>2, <1>3, <1>4, <1>5

\* A run changes no entry of another connection.
LEMMA StepElse ==
    ASSUME TypeInv, OwnInv, NEW p \in CPU, Step(p), NEW d \in Conn, d # run[p].conn
    PROVE  /\ request_map'[d] = request_map[d]
           /\ request_map[d] # None => elem'[request_map[d]] = elem[request_map[d]]
<1>0. d \in Key /\ request_map[d] \in Elem \union {None}
  BY ConstantsAssumption DEF TypeInv, TypeOK
<1>1. CASE UpdateElem(p)
  <2>2. ASSUME NEW e \in Free,
               request_map' = [request_map EXCEPT ![conn_key(run[p].pkt)] = e],
               NEW rec, elem' = [elem EXCEPT ![e] = rec]
        PROVE  /\ request_map'[d] = request_map[d]
               /\ request_map[d] # None => elem'[request_map[d]] = elem[request_map[d]]
    BY <1>0, <2>2, StepFrame DEF Free, TypeInv, TypeOK
  <2> QED
    BY <1>1, <2>2 DEF UpdateElem
<1>2. CASE LookupElem(p) \/ ReadDuration(p) \/ RingbufOutput(p) \/ Return(p)
  BY <1>2 DEF LookupElem, ReadDuration, RingbufOutput, Return, maps
<1>3. CASE FillResponse(p)
  <2>1. UNCHANGED request_map
    BY <1>3 DEF FillResponse
  <2>2. run[p].ptr = request_map[run[p].conn] /\ run[p].ptr \in Elem
    BY <1>3 DEF FillResponse, OwnInv, PointerIsEntry, TypeInv, PointerOK, HoldsPointer
  <2>3. request_map[d] # run[p].ptr
    BY <1>0, <2>2, StepFrame, NoneAssumption DEF OwnInv, MapWellFormed, Entries
  <2> QED
    BY <1>0, <1>3, <2>1, <2>2, <2>3 DEF FillResponse, TypeInv, TypeOK
<1>4. CASE DeleteElem(p)
  BY <1>0, <1>4, StepFrame DEF DeleteElem, TypeInv, TypeOK
<1> QED
  BY <1>1, <1>2, <1>3, <1>4 DEF Step

\* ... nor an element another run points to.
LEMMA StepElseElem ==
    ASSUME TypeInv, OwnInv, NEW p \in CPU, Step(p), NEW q \in CPU, q # p,
           run[q].pc \in HoldsPointer
    PROVE  elem'[run[q].ptr] = elem[run[q].ptr]
<1>1. run[q].ptr = request_map[run[q].conn] /\ run[q].ptr # None
  BY NoneAssumption DEF OwnInv, PointerIsEntry, TypeInv, PointerOK
<1>2. run[q].conn \in Conn
  BY BusyRun DEF TypeInv, RunState, HoldsPointer
<1>3. run[q].conn # run[p].conn
  BY StepFrame
<1> QED
  BY <1>1, <1>2, <1>3, StepElse

\* The history only grows, and only by what belongs to the run's connection.
LEMMA StepHistory ==
    ASSUME TypeInv, OwnInv, NEW p \in CPU, Step(p)
    PROVE  /\ \A c \in Conn, n \in ReqNo : Told(c, n) => Told(c, n)'
           /\ \A kind \in {"req", "rsp"}, d \in Conn, n \in ReqNo :
                d # run[p].conn \/ ~ Return(p) =>
                    (<<kind, d, n>> \in seen' <=> <<kind, d, n>> \in seen)
           /\ \A i \in DOMAIN emitted' :
                \/ i \in DOMAIN emitted /\ emitted'[i] = emitted[i]
                \/ emitted'[i].conn = run[p].conn
<1>1. lost \subseteq lost'
  BY DEF Step, UpdateElem, LookupElem, ReadDuration, FillResponse, RingbufOutput,
     DeleteElem, Return, history
<1>2. /\ \A i \in DOMAIN emitted : i \in DOMAIN emitted' /\ emitted'[i] = emitted[i]
      /\ \A i \in DOMAIN emitted' :
           \/ i \in DOMAIN emitted /\ emitted'[i] = emitted[i]
           \/ emitted'[i].conn = run[p].conn
  <2>0. emitted \in Seq([rec : Record, conn : Conn, rsp : ReqNo, end : 0 .. MaxTime])
    BY DEF TypeInv, TypeOK
  <2>1. CASE emitted' = emitted
    BY <2>1
  <2>2. ASSUME NEW out, emitted' = Append(emitted, out), out.conn = run[p].conn
        PROVE  /\ \A i \in DOMAIN emitted : i \in DOMAIN emitted' /\ emitted'[i] = emitted[i]
               /\ \A i \in DOMAIN emitted' :
                    \/ i \in DOMAIN emitted /\ emitted'[i] = emitted[i]
                    \/ emitted'[i].conn = run[p].conn
    BY <2>0, <2>2
  <2>3. CASE RingbufOutput(p)
    <3>1. PICK out : out = [rec |-> elem[run[p].ptr], conn |-> run[p].conn,
                            rsp |-> run[p].pkt.n, end |-> run[p].at]
      OBVIOUS
    <3> QED
      BY <2>1, <2>2, <2>3, <3>1 DEF RingbufOutput
  <2> QED
    BY <2>1, <2>3 DEF Step, UpdateElem, LookupElem, ReadDuration, FillResponse,
       DeleteElem, Return, history
<1>3. ASSUME NEW c \in Conn, NEW n \in ReqNo, Told(c, n) PROVE Told(c, n)'
  BY <1>1, <1>2, <1>3 DEF Told
<1>4. ASSUME NEW kind \in {"req", "rsp"}, NEW d \in Conn, NEW n \in ReqNo,
             d # run[p].conn \/ ~ Return(p)
      PROVE  <<kind, d, n>> \in seen' <=> <<kind, d, n>> \in seen
  <2>1. CASE Return(p)
    BY <1>4, <2>1 DEF Return
  <2>2. CASE ~ Return(p)
    BY <2>2 DEF Step, UpdateElem, LookupElem, ReadDuration, FillResponse, RingbufOutput,
       DeleteElem, history
  <2> QED
    BY <2>1, <2>2
<1> QED
  BY <1>2, <1>3, <1>4

\* What the invariant says of other connections and their runs stays true.
LEMMA StepOthers ==
    ASSUME Inv, NEW p \in CPU, Step(p)
    PROVE  /\ \A d \in Conn : d # run[p].conn => ConnOK(d)'
           /\ \A q \in CPU : q # p /\ run[q].pc # "idle" => RunPairOK(q)'
<1> USE DEF Inv
<1>0. TypeInv /\ OwnInv /\ ConnInv /\ RunPair
  BY DEF PairInv
<1>1. ASSUME NEW d \in Conn, d # run[p].conn
      PROVE  /\ \A labels : NoRunAt(d, labels)' <=> NoRunAt(d, labels)
             /\ \A n : (\E q \in CPU : /\ run'[q].conn = d /\ run'[q].pc = "return"
                                       /\ run'[q].pkt.kind = "req" /\ run'[q].pkt.n = n)
                       => \E q \in CPU : /\ run[q].conn = d /\ run[q].pc = "return"
                                         /\ run[q].pkt.kind = "req" /\ run[q].pkt.n = n
  <2>1. \A q \in CPU \ {p} : run'[q] = run[q]
    BY <1>0, StepFrame
  <2>2. run'[p].conn # d /\ run[p].conn # d
    BY <1>0, <1>1, StepRun, NoneAssumption DEF TypeInv, Idle
  <2> QED
    BY <2>1, <2>2 DEF NoRunAt
<1>2. ASSUME NEW d \in Conn, d # run[p].conn PROVE ConnOK(d)'
  <2>1. /\ request_map'[d] = request_map[d]
        /\ request_map[d] # None => elem'[request_map[d]] = elem[request_map[d]]
        /\ high' = high /\ overtaken' = overtaken
    BY <1>0, <1>2, StepElse, StepFrame
  <2>2. ConnOK(d)
    BY <1>0 DEF ConnInv
  <2>3. EntryPairOK(d)'
    BY <1>1, <1>2, <2>1, <2>2 DEF ConnOK, EntryPairOK
  <2>4. OldOK(d)'
    <3>1. \A i \in DOMAIN emitted' : emitted'[i].conn = d =>
             i \in DOMAIN emitted /\ emitted'[i] = emitted[i]
      BY <1>0, <1>2, StepHistory
    <3> QED
      BY <1>1, <1>2, <2>1, <2>2, <3>1 DEF ConnOK, OldOK
  <2>5. ASSUME NEW n \in ReqNo, Kept(d, n)' PROVE Kept(d, n)
    <3>1. <<"req", d, n>> \in seen' <=> <<"req", d, n>> \in seen
      BY <1>0, <1>2, StepHistory
    <3> QED
      BY <1>1, <1>2, <2>5, <3>1 DEF Kept
  <2>6. \A n \in ReqNo : Told(d, n) => Told(d, n)'
    BY <1>0, StepHistory
  <2>7. SeenOK(d)'
    BY <2>1, <2>2, <2>5, <2>6 DEF ConnOK, SeenOK
  <2> QED
    BY <2>3, <2>4, <2>7 DEF ConnOK
<1>3. ASSUME NEW q \in CPU, q # p, run[q].pc # "idle" PROVE RunPairOK(q)'
  <2>0. RunPairOK(q)
    BY <1>0, <1>3 DEF RunPair
  <2>1. /\ run'[q] = run[q] /\ attached' = attached /\ run[q].conn # run[p].conn
        /\ high' = high /\ overtaken' = overtaken
    BY <1>0, <1>3, StepFrame
  <2>2. run[q].conn \in Conn /\ run[q].pkt.n \in ReqNo
    BY <1>0, <1>3, BusyRun DEF TypeInv, RunState
  <2>3. request_map'[run[q].conn] = request_map[run[q].conn]
    BY <1>0, <2>1, <2>2, StepElse
  <2>4. run[q].pc \in {"fill", "output"} => elem'[run[q].ptr] = elem[run[q].ptr]
    BY <1>0, <1>3, StepElseElem DEF HoldsPointer
  <2>5. Told(run[q].conn, run[q].pkt.n) => Told(run[q].conn, run[q].pkt.n)'
    BY <1>0, <2>1, <2>2, StepHistory DEF Told
  <2> QED
    BY <2>0, <2>1, <2>3, <2>4, <2>5 DEF RunPairOK
<1> QED
  BY <1>2, <1>3

-----------------------------------------------------------------------------
(* What a step of a run does for its own connection. *)

\* The invariant, as far as it is about the run and its connection.
LEMMA OwnFacts ==
    ASSUME Inv, NEW p \in CPU, Step(p), NEW c, c = run[p].conn
    PROVE  /\ TypeInv /\ OwnInv /\ TypeOK
           /\ WireOK(c) /\ EntryPairOK(c) /\ OldOK(c) /\ SeenOK(c) /\ RunPairOK(p)
           /\ run[p] \in RunState /\ c \in Conn /\ c \in Key /\ high[c] \in Int
           /\ run[p].pkt.n \in ReqNo /\ run[p].pkt.kind \in {"req", "rsp"}
           /\ run \in [CPU -> RunState \union {Idle}]
           /\ conn_key(run[p].pkt) = c
           /\ UNCHANGED <<attached, net, unseen, high, overtaken>>
<1> USE DEF Inv
<1>1. TypeInv /\ OwnInv /\ TypeOK /\ WireInv /\ RunPair /\ ConnInv
  BY DEF PairInv, TypeInv
<1>2. /\ run[p] \in RunState /\ c \in Conn /\ c \in Key /\ run[p].pc # "idle"
      /\ run[p].pkt.n \in ReqNo /\ run[p].pkt.kind \in {"req", "rsp"}
      /\ conn_key(run[p].pkt) = c
      /\ UNCHANGED <<attached, net, unseen, high, overtaken>>
  BY <1>1, StepFrame
<1>3. WireOK(c) /\ EntryPairOK(c) /\ OldOK(c) /\ SeenOK(c) /\ RunPairOK(p)
  BY <1>1, <1>2 DEF WireInv, ConnInv, ConnOK, RunPair
<1> QED
  BY <1>1, <1>2, <1>3, HighType DEF TypeOK

\* The run is the only one of its connection ...
LEMMA OnlyRun ==
    ASSUME TypeInv, OwnInv, NEW p \in CPU, Step(p)
    PROVE  /\ \A labels : NoRunAt(run[p].conn, labels) <=> run[p].pc \notin labels
           /\ \A n : Kept(run[p].conn, n) <=>
                \/ <<"req", run[p].conn, n>> \in seen
                \/ run[p].pc = "return" /\ run[p].pkt.kind = "req" /\ run[p].pkt.n = n
  BY StepFrame DEF NoRunAt, Kept

\* ... and stays the only one while it goes on.
LEMMA OnlyRunNext ==
    ASSUME TypeInv, OwnInv, NEW p \in CPU, Step(p), NEW c, c = run[p].conn, run'[p].conn = c
    PROVE  /\ \A labels : NoRunAt(c, labels)' <=> run'[p].pc \notin labels
           /\ \A n : Kept(c, n)' <=>
                \/ <<"req", c, n>> \in seen'
                \/ run'[p].pc = "return" /\ run'[p].pkt.kind = "req" /\ run'[p].pkt.n = n
<1>1. \A q \in CPU \ {p} : run'[q].conn # c
  BY StepFrame
<1> QED
  BY <1>1 DEF NoRunAt, Kept

\* The run goes on to the next call.
LEMMA GotoRun ==
    ASSUME NEW p \in CPU, run[p] \in RunState, run \in [CPU -> RunState \union {Idle}],
           NEW label \in {"output", "delete", "return"}, Goto(p, label)
    PROVE  /\ run'[p].pc = label /\ run'[p].conn = run[p].conn /\ run'[p].pkt = run[p].pkt
           /\ run'[p].ptr = run[p].ptr /\ run'[p].duration = run[p].duration
           /\ run'[p].at = run[p].at
  BY DEF Goto, RunState

\* The part of the invariant a step of run p on connection c has to restore.
OwnPart(p, c) == ConnOK(c) /\ (run[p].pc # "idle" => RunPairOK(p))

LEMMA UpdateOwn ==
    ASSUME Inv, NEW p \in CPU, UpdateElem(p), NEW c, c = run[p].conn
    PROVE  OwnPart(p, c)' /\ emitted' = emitted
<1>s. Step(p) /\ run[p].pc = "update"
  BY DEF Step, UpdateElem
<1>n. PICK n : n = run[p].pkt.n
  OBVIOUS
<1>0. /\ TypeInv /\ OwnInv /\ TypeOK
      /\ WireOK(c) /\ EntryPairOK(c) /\ OldOK(c) /\ SeenOK(c) /\ RunPairOK(p)
      /\ run[p] \in RunState /\ c \in Conn /\ c \in Key /\ high[c] \in Int /\ n \in ReqNo
      /\ run \in [CPU -> RunState \union {Idle}] /\ conn_key(run[p].pkt) = c
      /\ UNCHANGED <<attached, high, overtaken>>
  BY <1>n, <1>s, OwnFacts
<1>1. /\ run'[p].pc = "return" /\ run'[p].conn = c /\ run'[p].pkt = run[p].pkt
      /\ run'[p].pkt.kind = "req" /\ run'[p].pkt.n = n
      /\ run[p].duration = run[p].at % DurationMod
  BY <1>0, <1>n, <1>s, GotoRun DEF UpdateElem, RunPairOK
<1>2. UNCHANGED <<emitted, seen>> /\ lost \subseteq lost'
  BY DEF UpdateElem
<1>3. RunPairOK(p)'
  BY <1>0, <1>1 DEF RunPairOK, Answering
<1>4. /\ n \in Int /\ n >= 1 /\ Pos("req", n) = 2 * n - 1
      /\ c \notin overtaken => high[c] = 2 * n - 1
  BY <1>0, <1>1, <1>n, PosValue DEF RunPairOK
<1>5. \A m \in ReqNo : Kept(c, m)' => m = n \/ <<"req", c, m>> \in seen
  BY <1>0, <1>1, <1>2, <1>s, OnlyRunNext
<1>6. \A m \in ReqNo : Told(c, m) => Told(c, m)'
  BY <1>2 DEF Told
<1>7. \A labels : NoRunAt(c, labels)' <=> "return" \notin labels
  BY <1>0, <1>1, <1>s, OnlyRunNext
<1>8. CASE /\ request_map[c] = None
           /\ lost' = lost \union {<<c, run[p].pkt.n>>} /\ UNCHANGED <<elem, request_map>>
  <2>1. Told(c, n)'
    BY <1>n, <1>8 DEF Told
  <2>2. EntryPairOK(c)' /\ OldOK(c)'
    BY <1>0, <1>2, <1>8 DEF EntryPairOK, OldOK
  <2>3. ASSUME NEW m \in ReqNo, Kept(c, m)', c \notin overtaken, high[c] <= Pos("rsp", m)
        PROVE  Told(c, m)'
    <3>1. CASE m = n
      BY <2>1, <3>1
    <3>2. CASE <<"req", c, m>> \in seen
      BY <1>0, <1>6, <1>8, <2>3, <3>2 DEF SeenOK, Kept
    <3> QED
      BY <1>5, <2>3, <3>1, <3>2
  <2>4. SeenOK(c)'
    BY <1>0, <2>3 DEF SeenOK
  <2> QED
    BY <1>2, <1>3, <2>2, <2>4 DEF OwnPart, ConnOK
<1>9. ASSUME NEW e \in Free,
             elem' = [elem EXCEPT ![e] =
                        [key |-> [src |-> run[p].pkt.src, dst |-> run[p].pkt.dst],
                         req |-> run[p].pkt.n, rsp |-> 0,
                         duration |-> run[p].duration, at |-> run[p].at]],
             request_map' = [request_map EXCEPT ![conn_key(run[p].pkt)] = e]
      PROVE  OwnPart(p, c)'
  <2>1. e \in Elem /\ e # None
    BY NoneAssumption DEF Free
  <2>2. request_map'[c] = e
    BY <1>0, <1>9, <2>1 DEF TypeOK
  <2>3. elem'[e].req = n /\ elem'[e].duration = elem'[e].at % DurationMod
    BY <1>0, <1>1, <1>n, <1>9, <2>1 DEF TypeOK
  <2>4. EntryPairOK(c)'
    <3>1. NoRunAt(c, Answering)'
      BY <1>7 DEF Answering
    <3> QED
      BY <1>0, <1>4, <2>2, <2>3, <3>1 DEF EntryPairOK
  <2>5. OldOK(c)'
    <3>1. ASSUME NEW i \in DOMAIN emitted, emitted[i].conn = c, c \notin overtaken
          PROVE  /\ Pos("rsp", emitted[i].rec.req) <= high[c]
                 /\ emitted[i].rec.req < n
      <4>1. Pos("rsp", emitted[i].rec.req) <= high[c]
        BY <1>0, <3>1 DEF OldOK
      <4>2. emitted[i].rec.req \in ReqNo
        BY <1>0, EmittedType
      <4>3. Pos("rsp", emitted[i].rec.req) = 2 * emitted[i].rec.req /\ emitted[i].rec.req \in Int
        BY <4>2, PosValue
      <4> QED
        BY <1>0, <1>4, <3>1, <4>1, <4>3
    <3> QED
      BY <1>0, <1>2, <2>2, <2>3, <3>1 DEF OldOK
  <2>6. ASSUME NEW m \in ReqNo, Kept(c, m)', c \notin overtaken, high[c] <= Pos("rsp", m)
        PROVE  m = n
    <3>1. m \in Int /\ Pos("req", m) = 2 * m - 1 /\ Pos("rsp", m) = 2 * m
      BY PosValue
    <3>2. CASE <<"req", c, m>> \in seen
      <4>1. Pos("req", m) <= high[c]
        BY <1>0, <3>2 DEF WireOK, Passed
      <4> QED
        BY <1>4, <2>6, <3>1, <4>1
    <3> QED
      BY <1>5, <2>6, <3>2
  <2>7. SeenOK(c)'
    BY <1>0, <2>1, <2>2, <2>3, <2>6 DEF SeenOK
  <2> QED
    BY <1>3, <2>4, <2>5, <2>7 DEF OwnPart, ConnOK
<1> QED
  BY <1>0, <1>2, <1>8, <1>9 DEF UpdateElem

LEMMA LookupOwn ==
    ASSUME Inv, NEW p \in CPU, LookupElem(p), NEW c, c = run[p].conn
    PROVE  OwnPart(p, c)' /\ emitted' = emitted
<1>s. Step(p) /\ run[p].pc = "lookup"
  BY DEF Step, LookupElem
<1>0. /\ TypeInv /\ OwnInv
      /\ EntryPairOK(c) /\ OldOK(c) /\ SeenOK(c) /\ RunPairOK(p)
      /\ run[p] \in RunState /\ conn_key(run[p].pkt) = c
      /\ run \in [CPU -> RunState \union {Idle}]
      /\ UNCHANGED <<attached, high, overtaken>>
  BY <1>s, OwnFacts
<1>1. /\ run'[p].pc = IF request_map[c] = None THEN "return" ELSE "duration"
      /\ run'[p].conn = c /\ run'[p].pkt = run[p].pkt /\ run'[p].pkt.kind = "rsp"
  BY <1>0, <1>s DEF LookupElem, RunPairOK, Answering
<1>2. UNCHANGED <<request_map, elem, emitted, seen, lost>>
  BY DEF LookupElem, maps, history
<1>3. RunPairOK(p)'
  BY <1>0, <1>1, <1>2 DEF RunPairOK, Answering
<1>4. \A labels : /\ NoRunAt(c, labels) <=> "lookup" \notin labels
                  /\ NoRunAt(c, labels)' <=> run'[p].pc \notin labels
  BY <1>0, <1>1, <1>s, OnlyRun, OnlyRunNext
<1>5. EntryPairOK(c)' /\ OldOK(c)'
  BY <1>0, <1>1, <1>2, <1>4 DEF EntryPairOK, OldOK, Answering
<1>6. \A m : Kept(c, m)' => <<"req", c, m>> \in seen
  BY <1>0, <1>1, <1>2, <1>s, OnlyRunNext
<1>7. SeenOK(c)'
  BY <1>0, <1>2, <1>6 DEF SeenOK, Told, Kept
<1> QED
  BY <1>2, <1>3, <1>5, <1>7 DEF OwnPart, ConnOK

LEMMA ReadDurationOwn ==
    ASSUME Inv, NEW p \in CPU, ReadDuration(p), NEW c, c = run[p].conn
    PROVE  OwnPart(p, c)' /\ emitted' = emitted
<1>s. Step(p) /\ run[p].pc = "duration"
  BY DEF Step, ReadDuration
<1>0. /\ TypeInv /\ OwnInv /\ TypeOK
      /\ EntryPairOK(c) /\ OldOK(c) /\ SeenOK(c) /\ RunPairOK(p)
      /\ run[p] \in RunState /\ c \in Conn /\ conn_key(run[p].pkt) = c
      /\ run \in [CPU -> RunState \union {Idle}]
      /\ UNCHANGED <<attached, high, overtaken>>
  BY <1>s, OwnFacts
<1> DEFINE e == elem[run[p].ptr]
<1>1. run[p].ptr = request_map[c] /\ run[p].ptr # None /\ e \in Record
  BY <1>0, <1>s, NoneAssumption DEF OwnInv, PointerIsEntry, TypeInv, TypeOK, PointerOK, HoldsPointer
<1>2. /\ run'[p].pc = "fill" /\ run'[p].conn = c /\ run'[p].pkt = run[p].pkt
      /\ run'[p].pkt.kind = "rsp" /\ run'[p].ptr = run[p].ptr
      /\ run'[p].duration = (now - e.duration) % DurationMod /\ run'[p].at = now
  BY <1>0, <1>s DEF ReadDuration, RunPairOK, Answering
<1>3. UNCHANGED <<request_map, elem, emitted, seen, lost>>
  BY DEF ReadDuration, maps, history
<1>4. \A labels : /\ NoRunAt(c, labels) <=> "duration" \notin labels
                  /\ NoRunAt(c, labels)' <=> "fill" \notin labels
  BY <1>0, <1>2, <1>s, OnlyRun, OnlyRunNext
<1>5. e.duration = e.at % DurationMod
  BY <1>0, <1>1, <1>4 DEF EntryPairOK
<1>6. now \in Int /\ e.at \in Int
  BY <1>0, <1>1, ConstantsAssumption DEF TypeOK, Record
<1> HIDE DEF e
<1>7. run'[p].duration = (run'[p].at - e.at) % DurationMod
  <2>1. DurationMod \in Nat \ {0}
    BY ConstantsAssumption
  <2>2. (now - (e.at % DurationMod)) % DurationMod = (now - e.at) % DurationMod
    BY <1>6, <2>1, ModSub
  <2> QED
    BY <1>2, <1>5, <2>2
<1>8. RunPairOK(p)'
  <2>1. elem'[run'[p].ptr] = e
    BY <1>2, <1>3 DEF e
  <2> QED
    BY <1>0, <1>2, <1>3, <1>7, <2>1 DEF RunPairOK, Answering
<1>9. EntryPairOK(c)' /\ OldOK(c)'
  BY <1>0, <1>3, <1>4 DEF EntryPairOK, OldOK, Answering
<1>10. \A m : Kept(c, m)' => <<"req", c, m>> \in seen
  BY <1>0, <1>2, <1>3, <1>s, OnlyRunNext
<1>11. SeenOK(c)'
  BY <1>0, <1>3, <1>10 DEF SeenOK, Told, Kept
<1> QED
  BY <1>3, <1>8, <1>9, <1>11 DEF OwnPart, ConnOK

LEMMA FillOwn ==
    ASSUME Inv, NEW p \in CPU, FillResponse(p), NEW c, c = run[p].conn
    PROVE  OwnPart(p, c)' /\ emitted' = emitted
<1>s. Step(p) /\ run[p].pc = "fill"
  BY DEF Step, FillResponse
<1>0. /\ TypeInv /\ OwnInv /\ TypeOK
      /\ EntryPairOK(c) /\ OldOK(c) /\ SeenOK(c) /\ RunPairOK(p)
      /\ run[p] \in RunState /\ c \in Conn /\ conn_key(run[p].pkt) = c
      /\ run \in [CPU -> RunState \union {Idle}]
      /\ UNCHANGED <<attached, high, overtaken>>
  BY <1>s, OwnFacts
<1>1. /\ run[p].ptr = request_map[c] /\ run[p].ptr # None /\ run[p].ptr \in Elem
      /\ elem[run[p].ptr] \in Record
  BY <1>0, <1>s, NoneAssumption DEF OwnInv, PointerIsEntry, TypeInv, TypeOK, PointerOK, HoldsPointer
<1>2. /\ run'[p].pc = "output" /\ run'[p].conn = c /\ run'[p].pkt = run[p].pkt
      /\ run'[p].pkt.kind = "rsp" /\ run'[p].ptr = run[p].ptr /\ run'[p].at = run[p].at
  BY <1>0, <1>s, GotoRun DEF FillResponse, RunPairOK, Answering
<1>3. UNCHANGED <<request_map, emitted, seen, lost>>
  BY DEF FillResponse, history
<1>4. /\ elem'[run[p].ptr].req = elem[run[p].ptr].req
      /\ elem'[run[p].ptr].at = elem[run[p].ptr].at
      /\ elem'[run[p].ptr].rsp = run[p].pkt.n
      /\ elem'[run[p].ptr].duration = run[p].duration
  BY <1>0, <1>1 DEF FillResponse, TypeOK
<1>5. RunPairOK(p)'
  BY <1>0, <1>s, <1>2, <1>3, <1>4 DEF RunPairOK, Answering
<1>6. \A labels : /\ NoRunAt(c, labels) <=> "fill" \notin labels
                  /\ NoRunAt(c, labels)' <=> "output" \notin labels
  BY <1>0, <1>2, <1>s, OnlyRun, OnlyRunNext
<1>7. EntryPairOK(c)' /\ OldOK(c)'
  BY <1>0, <1>1, <1>3, <1>4, <1>6 DEF EntryPairOK, OldOK, Answering
<1>8. \A m : Kept(c, m)' => <<"req", c, m>> \in seen
  BY <1>0, <1>2, <1>3, <1>s, OnlyRunNext
<1>9. SeenOK(c)'
  BY <1>0, <1>1, <1>3, <1>4, <1>8 DEF SeenOK, Told, Kept
<1> QED
  BY <1>3, <1>5, <1>7, <1>9 DEF OwnPart, ConnOK

\* The record a run is about to output.  While the packets come in order it is the
\* request the response answers, and later than all that have been reported.
LEMMA OutputRecord ==
    ASSUME Inv, NEW p \in CPU, RingbufOutput(p), NEW c, c = run[p].conn
    PROVE  LET e == elem[run[p].ptr] IN
           /\ run[p].ptr = request_map[c] /\ request_map[c] # None /\ e \in Record
           /\ e.key = c /\ e.rsp = run[p].pkt.n
           /\ e.duration = (run[p].at - e.at) % DurationMod
           /\ c \notin overtaken =>
                /\ e.req = run[p].pkt.n /\ high[c] = Pos("rsp", e.req)
                /\ \A i \in DOMAIN emitted : emitted[i].conn = c => emitted[i].rec.req < e.req
<1>s. Step(p) /\ run[p].pc = "output"
  BY DEF Step, RingbufOutput
<1>0. /\ TypeInv /\ OwnInv /\ TypeOK
      /\ EntryPairOK(c) /\ OldOK(c) /\ RunPairOK(p)
      /\ run[p] \in RunState /\ c \in Conn /\ c \in Key /\ run[p].pkt.n \in ReqNo
  BY <1>s, OwnFacts
<1>1. /\ run[p].ptr = request_map[c] /\ run[p].ptr # None
      /\ elem[run[p].ptr] \in Record
  BY <1>0, <1>s, NoneAssumption DEF OwnInv, PointerIsEntry, TypeInv, TypeOK, PointerOK, HoldsPointer
<1>2. elem[run[p].ptr].key = c
  BY <1>0, <1>1 DEF OwnInv, MapWellFormed, Entries
<1>3. \A labels : NoRunAt(c, labels) <=> "output" \notin labels
  BY <1>0, <1>s, OnlyRun
<1>4. elem[run[p].ptr].req \in ReqNo
  BY <1>1 DEF Record
<1>5. ASSUME c \notin overtaken
      PROVE  /\ elem[run[p].ptr].req = run[p].pkt.n /\ high[c] = Pos("rsp", elem[run[p].ptr].req)
             /\ \A i \in DOMAIN emitted : emitted[i].conn = c =>
                  emitted[i].rec.req < elem[run[p].ptr].req
  <2>1. high[c] = Pos("rsp", elem[run[p].ptr].req)
    BY <1>0, <1>1, <1>3, <1>5 DEF EntryPairOK, Answering
  <2>2. high[c] = Pos("rsp", run[p].pkt.n)
    BY <1>0, <1>s, <1>5 DEF RunPairOK, Answering
  <2>3. Pos("rsp", elem[run[p].ptr].req) = 2 * elem[run[p].ptr].req /\ elem[run[p].ptr].req \in Int
    BY <1>4, PosValue
  <2>4. Pos("rsp", run[p].pkt.n) = 2 * run[p].pkt.n /\ run[p].pkt.n \in Int
    BY <1>0, PosValue
  <2>5. ASSUME NEW a \in Int, NEW b \in Int, 2 * a = 2 * b PROVE a = b
    BY <2>5
  <2>6. elem[run[p].ptr].req = run[p].pkt.n
    BY <2>1, <2>2, <2>3, <2>4, <2>5
  <2> QED
    BY <1>0, <1>1, <1>3, <1>5, <2>1, <2>6 DEF OldOK
<1>6. /\ elem[run[p].ptr].rsp = run[p].pkt.n
      /\ elem[run[p].ptr].duration = (run[p].at - elem[run[p].ptr].at) % DurationMod
  BY <1>0, <1>s DEF RunPairOK
<1> QED
  BY <1>1, <1>2, <1>5, <1>6

LEMMA OutputOwn ==
    ASSUME Inv, NEW p \in CPU, RingbufOutput(p), NEW c, c = run[p].conn
    PROVE  OwnPart(p, c)'
<1>s. Step(p) /\ run[p].pc = "output"
  BY DEF Step, RingbufOutput
<1>0. /\ TypeInv /\ OwnInv /\ TypeOK
      /\ EntryPairOK(c) /\ OldOK(c) /\ SeenOK(c) /\ RunPairOK(p)
      /\ run[p] \in RunState /\ c \in Conn /\ run[p].pkt.n \in ReqNo /\ high[c] \in Int
      /\ run \in [CPU -> RunState \union {Idle}]
      /\ UNCHANGED <<attached, high, overtaken>>
  BY <1>s, OwnFacts
<1>e. PICK e : e = elem[run[p].ptr]
  OBVIOUS
<1>1. /\ run[p].ptr = request_map[c] /\ request_map[c] # None
      /\ c \notin overtaken => e.req = run[p].pkt.n /\ high[c] = Pos("rsp", e.req)
  BY <1>e, OutputRecord
<1>2. /\ run'[p].pc = "delete" /\ run'[p].conn = c /\ run'[p].pkt = run[p].pkt
      /\ run'[p].pkt.kind = "rsp" /\ run'[p].ptr = run[p].ptr
  BY <1>0, <1>s, GotoRun DEF RingbufOutput, RunPairOK, Answering
<1>3. UNCHANGED <<request_map, elem, seen>> /\ lost \subseteq lost'
  BY DEF RingbufOutput
<1>4. PICK out : out = [rec |-> e, conn |-> run[p].conn, rsp |-> run[p].pkt.n, end |-> run[p].at]
  OBVIOUS
<1>5. out.conn = c /\ out.rec = e
  BY <1>4
<1>6. \/ emitted' = emitted /\ lost' = lost \union {<<c, e.req>>}
      \/ emitted' = Append(emitted, out)
  BY <1>e, <1>4 DEF RingbufOutput
<1>7. /\ \A i \in DOMAIN emitted : i \in DOMAIN emitted' /\ emitted'[i] = emitted[i]
      /\ \A i \in DOMAIN emitted' :
           \/ i \in DOMAIN emitted /\ emitted'[i] = emitted[i]
           \/ emitted'[i] = out
      /\ <<c, e.req>> \in lost' \/ \E i \in DOMAIN emitted' : emitted'[i] = out
  <2>1. emitted \in Seq([rec : Record, conn : Conn, rsp : ReqNo, end : 0 .. MaxTime])
    BY <1>0 DEF TypeOK
  <2>2. CASE emitted' = emitted /\ lost' = lost \union {<<c, e.req>>}
    BY <2>2
  <2>3. CASE emitted' = Append(emitted, out)
    <3>1. Len(emitted) + 1 \in DOMAIN emitted' /\ emitted'[Len(emitted) + 1] = out
      BY <2>1, <2>3
    <3> QED
      BY <2>1, <2>3, <3>1
  <2> QED
    BY <1>6, <2>2, <2>3
<1>8. Told(c, e.req)'
  BY <1>5, <1>7 DEF Told
<1>9. \A m \in ReqNo : Told(c, m) => Told(c, m)'
  BY <1>3, <1>7 DEF Told
<1>10. RunPairOK(p)'
  BY <1>0, <1>1, <1>2, <1>3, <1>8 DEF RunPairOK, Answering
<1>11. \A labels : /\ NoRunAt(c, labels) <=> "output" \notin labels
                   /\ NoRunAt(c, labels)' <=> "delete" \notin labels
  BY <1>0, <1>2, <1>s, OnlyRun, OnlyRunNext
<1>12. EntryPairOK(c)'
  BY <1>0, <1>3, <1>11 DEF EntryPairOK, Answering
<1>13. OldOK(c)'
  <2>1. ASSUME NEW i \in DOMAIN emitted', emitted'[i].conn = c, c \notin overtaken
        PROVE  Pos("rsp", emitted'[i].rec.req) <= high[c]
    <3>1. CASE i \in DOMAIN emitted /\ emitted'[i] = emitted[i]
      BY <1>0, <2>1, <3>1 DEF OldOK
    <3>2. CASE emitted'[i] = out
      BY <1>0, <1>1, <1>5, <2>1, <3>2
    <3> QED
      BY <1>7, <2>1, <3>1, <3>2
  <2> QED
    BY <1>0, <1>11, <2>1 DEF OldOK
<1>14. \A m : Kept(c, m)' => <<"req", c, m>> \in seen
  BY <1>0, <1>2, <1>3, <1>s, OnlyRunNext
<1>15. SeenOK(c)'
  BY <1>0, <1>3, <1>9, <1>14 DEF SeenOK, Kept
<1> QED
  BY <1>10, <1>12, <1>13, <1>15 DEF OwnPart, ConnOK

LEMMA DeleteOwn ==
    ASSUME Inv, NEW p \in CPU, DeleteElem(p), NEW c, c = run[p].conn
    PROVE  OwnPart(p, c)' /\ emitted' = emitted
<1>s. Step(p) /\ run[p].pc = "delete"
  BY DEF Step, DeleteElem
<1>n. PICK n : n = run[p].pkt.n
  OBVIOUS
<1>0. /\ TypeInv /\ OwnInv /\ TypeOK /\ WireOK(c)
      /\ OldOK(c) /\ SeenOK(c) /\ RunPairOK(p)
      /\ run[p] \in RunState /\ c \in Conn /\ c \in Key /\ n \in ReqNo /\ high[c] \in Int
      /\ run \in [CPU -> RunState \union {Idle}] /\ conn_key(run[p].pkt) = c
      /\ UNCHANGED <<attached, high, overtaken>>
  BY <1>n, <1>s, OwnFacts
<1>1. /\ run'[p].pc = "return" /\ run'[p].conn = c /\ run'[p].pkt = run[p].pkt
      /\ run'[p].pkt.kind = "rsp"
  BY <1>0, <1>s, GotoRun DEF DeleteElem, RunPairOK, Answering
<1>2. UNCHANGED <<elem, emitted, seen, lost>>
  BY DEF DeleteElem, history
<1>3. request_map'[c] = None
  BY <1>0 DEF DeleteElem, TypeOK
<1>4. RunPairOK(p)'
  BY <1>0, <1>1, <1>2, <1>3 DEF RunPairOK, Answering
<1>5. EntryPairOK(c)' /\ OldOK(c)'
  BY <1>0, <1>2, <1>3 DEF EntryPairOK, OldOK
<1>6. c \notin overtaken => high[c] = 2 * n /\ Told(c, n) /\ n \in Int
  BY <1>0, <1>n, <1>s, PosValue DEF RunPairOK, Answering
<1>7. ASSUME NEW m \in ReqNo, Kept(c, m)', c \notin overtaken, high[c] <= Pos("rsp", m)
      PROVE  Told(c, m)'
  <2>1. <<"req", c, m>> \in seen
    BY <1>0, <1>1, <1>2, <1>7, <1>s, OnlyRunNext
  <2>2. Pos("req", m) <= high[c]
    BY <1>0, <2>1 DEF WireOK, Passed
  <2>3. m \in Int /\ Pos("req", m) = 2 * m - 1 /\ Pos("rsp", m) = 2 * m
    BY PosValue
  <2>4. m = n
    BY <1>6, <1>7, <2>2, <2>3
  <2> QED
    BY <1>2, <1>6, <1>7, <2>4 DEF Told
<1>8. SeenOK(c)'
  BY <1>0, <1>7 DEF SeenOK
<1> QED
  BY <1>2, <1>4, <1>5, <1>8 DEF OwnPart, ConnOK

LEMMA ReturnOwn ==
    ASSUME Inv, NEW p \in CPU, Return(p), NEW c, c = run[p].conn
    PROVE  OwnPart(p, c)' /\ emitted' = emitted /\ run'[p] = Idle
<1>s. Step(p) /\ run[p].pc = "return"
  BY DEF Step, Return
<1>0. /\ TypeInv /\ OwnInv /\ TypeOK
      /\ EntryPairOK(c) /\ OldOK(c) /\ SeenOK(c) /\ RunPairOK(p)
      /\ run[p] \in RunState /\ c \in Conn /\ run[p].pkt.kind \in {"req", "rsp"}
      /\ run \in [CPU -> RunState \union {Idle}]
      /\ UNCHANGED <<attached, high, overtaken>>
  BY <1>s, OwnFacts
<1>1. run'[p] = Idle /\ run'[p].pc = "idle" /\ run'[p].conn = None
  BY <1>0 DEF Return, Idle
<1>2. UNCHANGED <<request_map, elem, emitted, lost>>
  BY DEF Return, maps
<1>3. ~ \E q \in CPU : run'[q].conn = c
  BY <1>0, <1>1, <1>s, StepFrame, NoneAssumption
<1>4. \A labels : /\ NoRunAt(c, labels) <=> "return" \notin labels
                  /\ NoRunAt(c, labels)'
  BY <1>0, <1>3, <1>s, OnlyRun DEF NoRunAt
<1>5. EntryPairOK(c)' /\ OldOK(c)'
  BY <1>0, <1>2, <1>4 DEF EntryPairOK, OldOK, Answering
<1>6. ASSUME NEW m \in ReqNo, Kept(c, m)' PROVE Kept(c, m)
  <2>1. <<"req", c, m>> \in seen'
    BY <1>3, <1>6 DEF Kept
  <2>2. <<"req", c, m>> \in seen \/ (run[p].pkt.kind = "req" /\ run[p].pkt.n = m)
    BY <2>1 DEF Return
  <2> QED
    BY <1>0, <1>s, <2>2, OnlyRun
<1>7. SeenOK(c)'
  BY <1>0, <1>2, <1>6 DEF SeenOK, Told, Kept
<1> QED
  BY <1>1, <1>2, <1>5, <1>7 DEF OwnPart, ConnOK

\* Every step of a run restores its connection's part.
LEMMA StepOwnPart ==
    ASSUME Inv, NEW p \in CPU, Step(p), NEW c, c = run[p].conn
    PROVE  OwnPart(p, c)'
  BY UpdateOwn, LookupOwn, ReadDurationOwn, FillOwn, OutputOwn, DeleteOwn, ReturnOwn DEF Step

\* A packet that has passed is not later than the latest at the bridge.
LEMMA StepWire ==
    ASSUME Inv, NEW p \in CPU, Step(p)
    PROVE  WireInv'
<1>1. /\ TypeInv /\ OwnInv /\ WireInv /\ RunPairOK(p)
      /\ UNCHANGED <<net, unseen, high>>
  <2>1. PICK c : c = run[p].conn
    OBVIOUS
  <2> QED
    BY <2>1, OwnFacts DEF Inv, PairInv
<1>2. ASSUME NEW d \in Conn, NEW kind \in {"req", "rsp"}, NEW n \in ReqNo,
             <<kind, d, n>> \in Passed'
      PROVE  Pos(kind, n) <= high[d]
  <2>1. CASE <<kind, d, n>> \in Passed
    BY <1>1, <2>1 DEF WireInv, WireOK
  <2>2. CASE <<kind, d, n>> \notin Passed
    <3>1. <<kind, d, n>> \in seen' /\ <<kind, d, n>> \notin seen
      BY <1>1, <1>2, <2>2 DEF Passed
    <3>2. Return(p)
      BY <1>1, <3>1, StepHistory
    <3>3. kind = run[p].pkt.kind /\ d = run[p].conn /\ n = run[p].pkt.n
      BY <3>1, <3>2 DEF Return
    <3> QED
      BY <1>1, <3>3 DEF RunPairOK
  <2> QED
    BY <2>1, <2>2
<1> QED
  BY <1>1, <1>2 DEF WireInv, WireOK

\* The parts of the invariant that speak of all runs and all connections.
LEMMA StepAll ==
    ASSUME Inv, NEW p \in CPU, Step(p)
    PROVE  FilterInv' /\ Unattached' /\ RunPair' /\ ConnInv'
<1>0. TypeInv /\ OwnInv /\ PairInv
  BY DEF Inv
<1>1. PICK c : c = run[p].conn
  OBVIOUS
<1>2. OwnPart(p, c)' /\ RunPairOK(p)
  BY <1>1, StepOwnPart, OwnFacts
<1>3. FilterInv'
  BY <1>0, StepFrame DEF PairInv, FilterInv
<1>4. Unattached'
  BY <1>0, <1>2, StepFrame DEF Unattached, RunPairOK
<1>5. ConnInv'
  BY <1>1, <1>2, StepOthers DEF OwnPart, ConnInv
<1>6. ASSUME NEW q \in CPU, run'[q].pc # "idle" PROVE RunPairOK(q)'
  <2>1. CASE q = p
    BY <1>2, <1>6, <2>1 DEF OwnPart
  <2>2. CASE q # p
    BY <1>0, <1>6, <2>2, StepFrame, StepOthers
  <2> QED
    BY <2>1, <2>2
<1> QED
  BY <1>3, <1>4, <1>5, <1>6 DEF RunPair

\* One more record keeps the records right: it pairs the response with its own
\* request, with the time between them, and the request was not reported yet.
LEMMA StepRecords ==
    ASSUME Inv, NEW p \in CPU, Step(p)
    PROVE  RecordsOK'
<1> USE DEF Inv
<1>0. /\ TypeInv /\ OwnInv /\ RecordsOK
      /\ emitted \in Seq([rec : Record, conn : Conn, rsp : ReqNo, end : 0 .. MaxTime])
  BY DEF PairInv, TypeInv, TypeOK
<1>1. PICK c : c = run[p].conn
  OBVIOUS
<1>2. overtaken' = overtaken
  BY <1>0, StepFrame
<1>4. CASE emitted' = emitted
  BY <1>0, <1>2, <1>4 DEF RecordsOK, MatchedPairs, DurationIsDifference, ReportedOnce
<1>5. ASSUME NEW out, RingbufOutput(p), emitted' = Append(emitted, out),
             out = [rec |-> elem[run[p].ptr], conn |-> run[p].conn,
                    rsp |-> run[p].pkt.n, end |-> run[p].at]
      PROVE  RecordsOK'
  <2>1. /\ out.conn = c /\ out.rec.key = c /\ out.rec.rsp = out.rsp
        /\ out.rec.duration = (out.end - out.rec.at) % DurationMod
        /\ out.rec \in Record
        /\ c \notin overtaken =>
             /\ out.rec.req = out.rsp
             /\ \A i \in DOMAIN emitted : emitted[i].conn = c => emitted[i].rec.req < out.rec.req
    BY <1>1, <1>5, OutputRecord
  <2>2. /\ DOMAIN emitted' = DOMAIN emitted \union {Len(emitted) + 1}
        /\ Len(emitted) + 1 \notin DOMAIN emitted
        /\ \A i \in DOMAIN emitted : emitted'[i] = emitted[i]
        /\ emitted'[Len(emitted) + 1] = out
    BY <1>0, <1>5
  <2>3. MatchedPairs' /\ DurationIsDifference'
    BY <1>0, <1>2, <2>1, <2>2 DEF RecordsOK, MatchedPairs, DurationIsDifference
  <2>4. c \notin overtaken =>
          \A i \in DOMAIN emitted : emitted[i].conn = c => emitted[i].rec.req # out.rec.req
    <3>1. \A i \in DOMAIN emitted : emitted[i].rec.req \in Int
      BY <1>0, EmittedType DEF TypeInv
    <3>2. out.rec.req \in Int
      BY <2>1, PosValue DEF Record
    <3> QED
      BY <2>1, <3>1, <3>2
  <2>5. ReportedOnce'
    <3> SUFFICES ASSUME NEW i \in DOMAIN emitted', NEW j \in DOMAIN emitted',
                        emitted'[i].conn = emitted'[j].conn,
                        emitted'[i].conn \notin overtaken',
                        emitted'[i].rec.req = emitted'[j].rec.req
                 PROVE  i = j
      BY DEF ReportedOnce
    <3>1. CASE i \in DOMAIN emitted /\ j \in DOMAIN emitted
      BY <1>0, <1>2, <2>2, <3>1 DEF RecordsOK, ReportedOnce
    <3>2. CASE i \in DOMAIN emitted /\ j = Len(emitted) + 1
      BY <1>2, <2>1, <2>2, <2>4, <3>2
    <3>3. CASE j \in DOMAIN emitted /\ i = Len(emitted) + 1
      BY <1>2, <2>1, <2>2, <2>4, <3>3
    <3> QED
      BY <2>2, <3>1, <3>2, <3>3
  <2> QED
    BY <2>3, <2>5 DEF RecordsOK
<1> QED
  BY <1>4, <1>5 DEF Step, UpdateElem, LookupElem, ReadDuration, FillResponse, RingbufOutput,
     DeleteElem, Return, history

\* The run that ends second, of a request and its response, finds the request
\* reported or given up.
LEMMA StepNoSilentLoss ==
    ASSUME Inv, NEW p \in CPU, Step(p)
    PROVE  NoSilentLoss'
<1> USE DEF Inv
<1>0. TypeInv /\ OwnInv /\ NoSilentLoss
  BY DEF PairInv
<1>1. PICK c, m : c = run[p].conn /\ m = run[p].pkt.n
  OBVIOUS
<1>2. /\ c \in Conn /\ run[p].pkt.kind \in {"req", "rsp"} /\ SeenOK(c) /\ WireOK(c)
      /\ RunPairOK(p) /\ m \in ReqNo /\ overtaken' = overtaken /\ high[c] \in Int
  BY <1>1, OwnFacts
<1> SUFFICES ASSUME NEW d \in Conn \ overtaken, NEW n \in ReqNo,
                    <<"req", d, n>> \in seen', <<"rsp", d, n>> \in seen'
             PROVE  Told(d, n)'
  BY <1>2 DEF NoSilentLoss, Told
<1>3. SUFFICES Told(d, n)
  BY <1>0, StepHistory
<1>4. CASE <<"req", d, n>> \in seen /\ <<"rsp", d, n>> \in seen
  BY <1>0, <1>4 DEF NoSilentLoss, Told
<1>5. CASE Return(p) /\ d = c /\ n = m
  <2>0. /\ high[c] = Pos(run[p].pkt.kind, m)
        /\ m \in Int /\ Pos("req", m) = 2 * m - 1 /\ Pos("rsp", m) = 2 * m
    BY <1>1, <1>2, <1>5, PosValue DEF RunPairOK
  <2>1. CASE run[p].pkt.kind = "req"
    <3>1. <<"rsp", c, m>> \in seen
      BY <1>1, <1>5, <2>1 DEF Return
    <3>2. Pos("rsp", m) <= high[c]
      BY <1>2, <3>1 DEF WireOK, Passed
    <3> QED
      BY <2>0, <2>1, <3>2
  <2>2. CASE run[p].pkt.kind = "rsp"
    <3>1. <<"req", c, m>> \in seen
      BY <1>1, <1>5, <2>2 DEF Return
    <3>2. request_map[c] = None
      BY <1>1, <1>2, <1>5, <2>2 DEF RunPairOK, Return
    <3>3. high[c] <= Pos("rsp", m)
      BY <1>2, <2>0, <2>2
    <3> QED
      BY <1>2, <1>5, <3>1, <3>2, <3>3 DEF SeenOK, Kept
  <2> QED
    BY <1>2, <2>1, <2>2
<1>6. CASE ~ (Return(p) /\ d = c /\ n = m)
  <2>1. CASE d # c \/ ~ Return(p)
    BY <1>0, <1>1, <1>4, <2>1, StepHistory
  <2>2. CASE Return(p) /\ n # m
    BY <1>1, <1>2, <1>4, <2>2 DEF Return
  <2> QED
    BY <1>6, <2>1, <2>2
<1> QED
  BY <1>5, <1>6

LEMMA StepInv ==
    ASSUME Inv, NEW p \in CPU, Step(p)
    PROVE  Inv'
<1>1. TypeInv' /\ OwnInv'
  BY StepType, StepOwn DEF Inv
<1> QED
  BY <1>1, StepWire, StepAll, StepRecords, StepNoSilentLoss DEF Inv, PairInv

-----------------------------------------------------------------------------
(* A packet enters the filter.  One that comes in its turn is the latest at  *)
(* the bridge; one that does not makes its connection overtaken.             *)

LEMMA RaiseUp ==
    ASSUME TypeOK, NEW c \in Conn, NEW kind \in {"req", "rsp"}, NEW n \in ReqNo,
           Raise(c, kind, n)
    PROVE  /\ high'[c] \in Int /\ Pos(kind, n) \in Int
           /\ high[c] <= high'[c] /\ Pos(kind, n) <= high'[c]
           /\ high[c] <= Pos(kind, n) => high'[c] = Pos(kind, n)
           /\ \A d \in Conn : d # c => high'[d] = high[d]
<1>1. high[c] \in Int /\ high \in [Conn -> 0 .. 2 * MaxReq]
  BY HighType DEF TypeOK
<1>2. Pos(kind, n) \in Int
  BY PosValue
<1>3. /\ high'[c] = IF high[c] < Pos(kind, n) THEN Pos(kind, n) ELSE high[c]
      /\ \A d \in Conn : d # c => high'[d] = high[d]
  BY <1>1 DEF Raise
<1> QED
  BY <1>1, <1>2, <1>3

LEMMA ReceiveInv ==
    ASSUME Inv, Serial = TRUE, NEW p \in CPU, NEW c \in Conn, NEW kind \in {"req", "rsp"},
           NEW n \in ReqNo, Receive(p, c, kind, n)
    PROVE  Inv'
<1> USE DEF Inv
<1>0. /\ TypeInv /\ OwnInv /\ FilterInv /\ WireInv /\ RunPair /\ ConnInv /\ RecordsOK
      /\ NoSilentLoss /\ TypeOK
  BY DEF PairInv, TypeInv
<1>2. TypeInv' /\ OwnInv'
  BY <1>0, ReceiveType, ReceiveOwn
<1>3. /\ UNCHANGED <<attached, filter_ip, request_map, elem, net, unseen, emitted, seen, lost>>
      /\ attached /\ run[p] = Idle /\ Busy(c) = {} /\ <<kind, c, n>> \in net
      /\ overtaken' = IF Pos(kind, n) < high[c] THEN overtaken \union {c} ELSE overtaken
  BY DEF Receive, maps, history, wire
<1>4. /\ \A q \in CPU \ {p} : run'[q] = run[q]
      /\ run'[p] = [pc |-> IF kind = "req" THEN "update" ELSE "lookup",
                    conn |-> c, pkt |-> Packet(kind, c, n), ptr |-> None,
                    duration |-> now % DurationMod, at |-> now]
  <2>1. Packet(kind, c, n).src \in Sock /\ Packet(kind, c, n).dst \in Sock
    BY PacketType
  <2>2. PassesFilter(filter_ip, SockIp[Packet(kind, c, n).src],
                     SockIp[Packet(kind, c, n).dst])
    BY <1>0, <2>1, FilterInvPasses
  <2> QED
    BY <1>0, <2>2 DEF Receive, TypeOK
<1>5. /\ run'[p].conn = c /\ run'[p].pkt.kind = kind /\ run'[p].pkt.n = n
      /\ run'[p].pc = IF kind = "req" THEN "update" ELSE "lookup"
      /\ run'[p].duration = run'[p].at % DurationMod
  BY <1>4 DEF Packet
<1>6. run[p].conn # c /\ \A q \in CPU : run[q].conn # c
  BY <1>3 DEF Busy
<1>7. /\ high[c] \in Int /\ high'[c] \in Int /\ Pos(kind, n) \in Int
      /\ high[c] <= high'[c] /\ Pos(kind, n) <= high'[c]
      /\ high[c] <= Pos(kind, n) => high'[c] = Pos(kind, n)
      /\ \A d \in Conn : d # c => high'[d] = high[d]
  BY <1>0, RaiseUp, HighType DEF Receive
<1>8. /\ overtaken \subseteq overtaken'
      /\ \A d \in Conn : d # c /\ d \in overtaken' => d \in overtaken
      /\ c \notin overtaken' => c \notin overtaken /\ high'[c] = Pos(kind, n)
                                /\ high[c] <= Pos(kind, n)
  BY <1>3, <1>7
<1>9. run[p].conn \notin Conn
  BY <1>3, NoneAssumption DEF Idle
<1>10. WireInv'
  <2>1. ASSUME NEW d \in Conn PROVE WireOK(d)'
    <3>1. WireOK(d) /\ Passed' = Passed /\ net' = net
      BY <1>0, <1>3 DEF WireInv, Passed
    <3>2. CASE d # c
      BY <1>7, <3>1, <3>2 DEF WireOK
    <3>3. CASE d = c
      <4>1. \A k \in {"req", "rsp"}, m \in ReqNo : Pos(k, m) \in Int
        BY PosValue
      <4>2. \A k \in {"req", "rsp"}, m \in ReqNo : Pos(k, m) <= high[c] => Pos(k, m) <= high'[c]
        BY <1>7, <4>1
      <4> QED
        BY <3>1, <3>3, <4>2 DEF WireOK
    <3> QED
      BY <3>2, <3>3
  <2> QED
    BY <2>1 DEF WireInv
<1>11. RunPair'
  <2>1. ASSUME NEW q \in CPU \ {p}, run'[q].pc # "idle" PROVE RunPairOK(q)'
    <3>1. run'[q] = run[q] /\ run[q].conn # c /\ RunPairOK(q)
      BY <1>0, <1>4, <1>6, <2>1 DEF RunPair
    <3>2. run[q].conn \in Conn
      BY <1>0, <2>1, <3>1, BusyRun DEF RunState
    <3>3. high'[run[q].conn] = high[run[q].conn]
          /\ (run[q].conn \in overtaken' <=> run[q].conn \in overtaken)
      BY <1>7, <1>8, <3>1, <3>2
    <3> QED
      BY <1>3, <3>1, <3>3 DEF RunPairOK, Told
  <2>2. RunPairOK(p)'
    BY <1>3, <1>5, <1>7, <1>8 DEF RunPairOK, Answering
  <2> QED
    BY <2>1, <2>2 DEF RunPair
<1>12. ASSUME NEW d \in Conn, d # c PROVE ConnOK(d)'
  <2>1. \A labels : NoRunAt(d, labels)' <=> NoRunAt(d, labels)
    BY <1>4, <1>5, <1>9, <1>12 DEF NoRunAt
  <2>2. \A m : Kept(d, m)' => Kept(d, m)
    BY <1>3, <1>4, <1>5, <1>12 DEF Kept
  <2>3. ConnOK(d) /\ high'[d] = high[d] /\ (d \in overtaken' <=> d \in overtaken)
    BY <1>0, <1>7, <1>8, <1>12 DEF ConnInv
  <2>4. EntryPairOK(d)' /\ OldOK(d)'
    BY <1>3, <2>1, <2>3 DEF ConnOK, EntryPairOK, OldOK
  <2>5. SeenOK(d)'
    BY <1>3, <2>2, <2>3 DEF ConnOK, SeenOK, Told
  <2> QED
    BY <2>4, <2>5 DEF ConnOK
<1>13. ConnOK(c)'
  <2>0. EntryPairOK(c) /\ OldOK(c) /\ SeenOK(c) /\ WireOK(c)
    BY <1>0 DEF ConnInv, ConnOK, WireInv
  <2>1. \A labels : /\ NoRunAt(c, labels)
                    /\ NoRunAt(c, labels)' <=>
                         (IF kind = "req" THEN "update" ELSE "lookup") \notin labels
    BY <1>4, <1>5, <1>6 DEF NoRunAt
  <2>2. EntryPairOK(c)'
    <3> SUFFICES ASSUME request_map[c] # None PROVE EntryPairOK(c)'
      BY <1>3 DEF EntryPairOK
    <3>1. PICK m \in ReqNo : m = elem[request_map[c]].req
      BY <1>0, EntryType
    <3>2. elem[request_map[c]].duration = elem[request_map[c]].at % DurationMod
      BY <2>0, <2>1 DEF EntryPairOK
    <3>3. ASSUME c \notin overtaken'
          PROVE  /\ Pos("req", m) <= high'[c]
                 /\ kind = "rsp" => high'[c] = Pos("rsp", m)
      <4>1. high[c] = Pos("req", m)
        BY <1>8, <2>0, <2>1, <3>1, <3>3 DEF EntryPairOK
      <4>2. /\ m \in Int /\ Pos("req", m) = 2 * m - 1 /\ Pos("rsp", m) = 2 * m
            /\ n \in Int /\ Pos("req", n) = 2 * n - 1 /\ Pos("rsp", n) = 2 * n
        BY PosValue
      <4>3. kind = "rsp" => Pos("req", n) <= high[c]
        BY <1>3, <2>0 DEF WireOK
      <4> QED
        BY <1>7, <1>8, <3>3, <4>1, <4>2, <4>3
    <3>4. /\ NoRunAt(c, {"update"})' => kind = "rsp"
          /\ kind = "rsp" => ~ NoRunAt(c, Answering)'
      BY <2>1 DEF Answering
    <3> QED
      BY <1>3, <3>1, <3>2, <3>3, <3>4 DEF EntryPairOK
  <2>3. OldOK(c)'
    <3>1. ASSUME NEW i \in DOMAIN emitted, emitted[i].conn = c, c \notin overtaken'
          PROVE  /\ Pos("rsp", emitted[i].rec.req) <= high'[c]
                 /\ request_map[c] # None => emitted[i].rec.req < elem[request_map[c]].req
      <4>1. /\ Pos("rsp", emitted[i].rec.req) <= high[c]
            /\ request_map[c] # None => emitted[i].rec.req < elem[request_map[c]].req
        BY <1>8, <2>0, <2>1, <3>1 DEF OldOK
      <4>2. Pos("rsp", emitted[i].rec.req) \in Int
        BY <1>0, EmittedType, PosValue
      <4> QED
        BY <1>7, <4>1, <4>2
    <3> QED
      BY <1>3, <3>1 DEF OldOK
  <2>4. SeenOK(c)'
    <3>1. ASSUME NEW m \in ReqNo, Kept(c, m)', c \notin overtaken', high'[c] <= Pos("rsp", m)
          PROVE  \/ Told(c, m)
                 \/ request_map[c] # None /\ elem[request_map[c]].req = m
      <4>1. Kept(c, m)
        BY <1>3, <1>4, <1>5, <1>6, <3>1 DEF Kept
      <4>2. high[c] <= Pos("rsp", m)
        BY <1>7, <3>1, PosValue
      <4> QED
        BY <1>8, <2>0, <3>1, <4>1, <4>2 DEF SeenOK
    <3> QED
      BY <1>3, <3>1 DEF SeenOK, Told
  <2> QED
    BY <2>2, <2>3, <2>4 DEF ConnOK
<1>14. RecordsOK'
  BY <1>0, <1>3, <1>8 DEF RecordsOK, MatchedPairs, DurationIsDifference, ReportedOnce
<1>15. FilterInv' /\ Unattached' /\ NoSilentLoss'
  BY <1>0, <1>3, <1>8 DEF FilterInv, Unattached, NoSilentLoss
<1>16. ConnInv'
  BY <1>12, <1>13 DEF ConnInv
<1> QED
  BY <1>2, <1>10, <1>11, <1>14, <1>15, <1>16 DEF PairInv

-----------------------------------------------------------------------------
(* The remaining steps leave the runs and the records alone.                  *)

\* The clock, the agent, the attachment and what the ends send touch nothing a
\* pair is made of.
LEMMA QuietPair ==
    ASSUME PairInv, FilterInv', WireInv', attached => attached',
           UNCHANGED <<request_map, elem, run, high, overtaken, emitted, seen, lost>>
    PROVE  PairInv'
<1>1. Unattached' /\ NoSilentLoss'
  BY DEF PairInv, Unattached, NoSilentLoss
<1>2. RunPair'
  BY DEF PairInv, RunPair, RunPairOK, Told
<1>3. ConnInv'
  BY DEF PairInv, ConnInv, ConnOK, EntryPairOK, OldOK, SeenOK, NoRunAt, Kept, Told
<1>4. RecordsOK'
  BY DEF PairInv, RecordsOK, MatchedPairs, DurationIsDifference, ReportedOnce
<1> QED
  BY <1>1, <1>2, <1>3, <1>4 DEF PairInv

\* The ends of a connection send.
LEMMA SendWire ==
    ASSUME WireInv, NEW c \in Conn,
           SendRequest(c) \/ \E n \in ReqNo : SendResponse(c, n)
    PROVE  WireInv'
<1>1. UNCHANGED <<unseen, seen, high>>
  BY DEF SendRequest, SendResponse, order, history
<1>2. CASE SendRequest(c)
  BY <1>1, <1>2 DEF SendRequest, WireInv, WireOK, Passed
<1>3. ASSUME NEW n \in ReqNo, SendResponse(c, n) PROVE WireInv'
  <2>1. Pos("req", n) <= high[c]
    BY <1>3 DEF SendResponse, WireInv, WireOK
  <2> QED
    BY <1>1, <1>3, <2>1 DEF SendResponse, WireInv, WireOK, Passed
<1> QED
  BY <1>2, <1>3

\* A packet passes before the filter is attached: there are no runs and no entries.
LEMMA UnseenPair ==
    ASSUME TypeOK, PairInv, NEW c \in Conn, NEW kind \in {"req", "rsp"}, NEW n \in ReqNo,
           PassUnseen(c, kind, n)
    PROVE  PairInv'
<1>0. /\ FilterInv /\ Unattached /\ WireInv /\ RunPair /\ ConnInv /\ RecordsOK /\ NoSilentLoss
  BY DEF PairInv
<1>1. /\ UNCHANGED <<attached, filter_ip, request_map, elem, run, net, overtaken, emitted, seen, lost>>
      /\ ~ attached /\ unseen' = unseen \union {<<kind, c, n>>}
  BY DEF PassUnseen, maps, history
<1>2. /\ high[c] \in Int /\ high'[c] \in Int /\ Pos(kind, n) \in Int
      /\ high[c] <= high'[c] /\ Pos(kind, n) <= high'[c]
      /\ \A d \in Conn : d # c => high'[d] = high[d]
  BY RaiseUp, HighType DEF PassUnseen
<1>3. \A q \in CPU : run[q].pc = "idle" /\ run[q].conn \notin Conn
  <2> SUFFICES ASSUME NEW q \in CPU PROVE run[q].pc = "idle" /\ run[q].conn \notin Conn
    OBVIOUS
  <2>1. run[q].pc = "idle"
    BY <1>0, <1>1 DEF RunPair, RunPairOK
  <2>2. run[q] = Idle
    BY <2>1 DEF TypeOK, RunState
  <2> QED
    BY <2>1, <2>2, NoneAssumption DEF Idle
<1>4. seen = {} /\ \A d \in Conn : request_map[d] = None
  BY <1>0, <1>1 DEF Unattached
<1>5. \A d \in Conn, k \in {"req", "rsp"}, m \in ReqNo :
         Pos(k, m) <= high[d] => Pos(k, m) <= high'[d]
  <2> SUFFICES ASSUME NEW d \in Conn, NEW k \in {"req", "rsp"}, NEW m \in ReqNo,
                      Pos(k, m) <= high[d]
               PROVE  Pos(k, m) <= high'[d]
    OBVIOUS
  <2>1. Pos(k, m) \in Int
    BY PosValue
  <2> QED
    BY <1>2, <2>1
<1>6. WireInv'
  <2> SUFFICES ASSUME NEW d \in Conn PROVE WireOK(d)'
    BY DEF WireInv
  <2>1. WireOK(d)
    BY <1>0 DEF WireInv
  <2>2. \A k \in {"req", "rsp"}, m \in ReqNo : <<k, d, m>> \in Passed' =>
           <<k, d, m>> \in Passed \/ (k = kind /\ d = c /\ m = n)
    BY <1>1 DEF Passed
  <2>3. \A k \in {"req", "rsp"}, m \in ReqNo : <<k, d, m>> \in Passed' => Pos(k, m) <= high'[d]
    BY <1>2, <1>5, <2>1, <2>2 DEF WireOK
  <2> QED
    BY <1>1, <1>5, <2>1, <2>3 DEF WireOK
<1>7. ConnInv'
  <2> SUFFICES ASSUME NEW d \in Conn PROVE ConnOK(d)'
    BY DEF ConnInv
  <2>1. OldOK(d)
    BY <1>0 DEF ConnInv, ConnOK
  <2>2. EntryPairOK(d)'
    BY <1>1, <1>4 DEF EntryPairOK
  <2>3. OldOK(d)'
    BY <1>1, <1>4, <1>5, <2>1, EmittedType DEF OldOK
  <2>4. SeenOK(d)'
    BY <1>1, <1>3, <1>4 DEF SeenOK, Kept
  <2> QED
    BY <2>2, <2>3, <2>4 DEF ConnOK
<1>8. RunPair'
  BY <1>1, <1>3 DEF RunPair
<1>9. FilterInv' /\ Unattached' /\ RecordsOK' /\ NoSilentLoss'
  BY <1>0, <1>1 DEF FilterInv, Unattached, RecordsOK, MatchedPairs, DurationIsDifference,
     ReportedOnce, NoSilentLoss
<1> QED
  BY <1>6, <1>7, <1>8, <1>9 DEF PairInv

LEMMA InitPair == Init => PairInv
<1> SUFFICES ASSUME Init PROVE PairInv
  OBVIOUS
<1>1. /\ \A p \in CPU : run[p].pc = "idle" /\ run[p].conn = None
      /\ \A c \in Conn : request_map[c] = None
      /\ emitted = << >> /\ seen = {} /\ unseen = {} /\ net = {} /\ filter_ip = {}
  BY ConstantsAssumption DEF Init, Idle
<1>2. FilterInv /\ Unattached /\ WireInv /\ RunPair
  BY <1>1 DEF FilterInv, Unattached, WireInv, WireOK, Passed, RunPair
<1>3. NoSilentLoss /\ RecordsOK
  BY <1>1 DEF NoSilentLoss, RecordsOK, MatchedPairs, DurationIsDifference, ReportedOnce
<1>4. ConnInv
  BY <1>1, NoneAssumption DEF ConnInv, ConnOK, EntryPairOK, OldOK, SeenOK, Kept
<1> QED
  BY <1>2, <1>3, <1>4 DEF PairInv

LEMMA NextPair ==
    ASSUME Serial = TRUE, Inv, FilterInv', [Next]_vars
    PROVE  PairInv'
<1>0. TypeOK /\ PairInv /\ WireInv
  BY DEF Inv, TypeInv, PairInv
<1>1. CASE \/ Attach \/ Tick \/ RingbufRead \/ UNCHANGED vars
           \/ \E s \in Sock : PutFilterIP(s) \/ DelFilterIP(s)
  <2>1. UNCHANGED <<request_map, elem, run, net, unseen, high, overtaken, emitted, seen, lost>>
    BY <1>1 DEF Attach, Tick, RingbufRead, PutFilterIP, DelFilterIP, vars, maps, wire, order,
       history
  <2>2. attached => attached'
    BY <1>1 DEF Attach, Tick, RingbufRead, PutFilterIP, DelFilterIP, vars
  <2>3. WireInv'
    BY <1>0, <2>1 DEF WireInv, WireOK, Passed
  <2> QED
    BY <1>0, <2>1, <2>2, <2>3, QuietPair
<1>2. ASSUME NEW c \in Conn, SendRequest(c) \/ \E n \in ReqNo : SendResponse(c, n)
      PROVE  PairInv'
  <2>1. UNCHANGED <<attached, request_map, elem, run, high, overtaken, emitted, seen, lost>>
    BY <1>2 DEF SendRequest, SendResponse, maps, order, history
  <2> QED
    BY <1>0, <1>2, <2>1, SendWire, QuietPair
<1>3. ASSUME NEW c \in Conn, NEW kind \in {"req", "rsp"}, NEW n \in ReqNo,
             PassUnseen(c, kind, n)
      PROVE  PairInv'
  BY <1>0, <1>3, UnseenPair
<1>4. ASSUME NEW p \in CPU, NEW c \in Conn, NEW kind \in {"req", "rsp"}, NEW n \in ReqNo,
             Receive(p, c, kind, n)
      PROVE  PairInv'
  BY <1>4, ReceiveInv DEF Inv
<1>5. ASSUME NEW p \in CPU, Step(p) PROVE PairInv'
  BY <1>5, StepInv DEF Inv
<1> QED
  BY <1>1, <1>2, <1>3, <1>4, <1>5 DEF Next

\* The inductive invariant.
LEMMA InvHolds ==
    ASSUME Serial = TRUE
    PROVE  Spec => []Inv
<1>1. Init => PairInv
  BY InitPair
<1>2. TypeInv /\ OwnInv /\ PairInv /\ FilterInv' /\ [Next]_vars => PairInv'
  <2> SUFFICES ASSUME TypeInv, OwnInv, PairInv, FilterInv', [Next]_vars PROVE PairInv'
    OBVIOUS
  <2>1. Inv
    BY DEF Inv
  <2> QED
    BY <2>1, NextPair
<1>3. Spec => [](TypeInv /\ OwnInv /\ PairInv)
  BY <1>1, <1>2, TypeInvHolds, OwnInvHolds, FilterInvHolds, PTL DEF Spec
<1> QED
  BY <1>3, PTL DEF Inv

-----------------------------------------------------------------------------
(* The theorems. *)

\* A record pairs a response with the very request it answers (MatchedPairs) as
\* long as the packets of its connection enter the filter in order, however often
\* each is retransmitted; out of order, it still has the connection of the entry
\* and the response that was filled in.
THEOREM MatchedPairsHolds ==
    ASSUME Serial = TRUE
    PROVE  Spec => []MatchedPairs
<1>1. Inv => MatchedPairs
  BY DEF Inv, PairInv, RecordsOK
<1> QED
  BY <1>1, InvHolds, PTL

\* While the packets of a connection come in order no request of it is reported
\* twice (ReportedOnce): a copy of the response finds the entry deleted, and a copy
\* of the request would have been overtaken by the response.
THEOREM ReportedOnceHolds ==
    ASSUME Serial = TRUE
    PROVE  Spec => []ReportedOnce
<1>1. Inv => ReportedOnce
  BY DEF Inv, PairInv, RecordsOK
<1> QED
  BY <1>1, InvHolds, PTL

\* The duration of a record is the time between its packets modulo the width of
\* the field (DurationIsDifference), in whatever order packets come: no response
\* is subtracted from a field that holds a difference already.
THEOREM DurationIsDifferenceHolds ==
    ASSUME Serial = TRUE
    PROVE  Spec => []DurationIsDifference
<1>1. Inv => DurationIsDifference
  BY DEF Inv, PairInv, RecordsOK
<1> QED
  BY <1>1, InvHolds, PTL

\* While the packets of a connection come in order and none is being filtered, its
\* entry in request_map is the latest packet (PendingIsLatest): no old entry waits
\* for a later response.
THEOREM PendingIsLatestHolds ==
    ASSUME Serial = TRUE
    PROVE  Spec => []PendingIsLatest
<1>1. Inv => PendingIsLatest
  <2> SUFFICES ASSUME Inv, NEW c \in Conn \ overtaken, Busy(c) = {}, request_map[c] # None
               PROVE  Pos("req", elem[request_map[c]].req) = high[c]
    BY DEF PendingIsLatest
  <2>1. EntryPairOK(c) /\ \A labels : NoRunAt(c, labels)
    BY DEF Inv, PairInv, ConnInv, ConnOK, NoRunAt, Busy
  <2> QED
    BY <2>1 DEF EntryPairOK
<1> QED
  BY <1>1, InvHolds, PTL

\* A request and its response that entered the filter in order are reported
\* unless request_map or the ring buffer was full (NoSilentLoss).
THEOREM NoSilentLossHolds ==
    ASSUME Serial = TRUE
    PROVE  Spec => []NoSilentLoss
<1>1. Inv => NoSilentLoss
  BY DEF Inv, PairInv
<1> QED
  BY <1>1, InvHolds, PTL

-----------------------------------------------------------------------------
(* The refinement of Pairing. *)

\* Two functions that differ in one place at most.
LEMMA DifferInOne ==
    ASSUME NEW S, NEW A, NEW B, A = [d \in S |-> A[d]], B = [d \in S |-> B[d]],
           NEW c \in S, \A d \in S \ {c} : B[d] = A[d]
    PROVE  /\ B = [A EXCEPT ![c] = B[c]]
           /\ B[c] = A[c] => B = A
  OBVIOUS

\* A step of a run changes the work of its own connection only.
LEMMA StepWorkElse ==
    ASSUME TypeInv, OwnInv, NEW p \in CPU, Step(p), NEW d \in Conn, d # run[p].conn
    PROVE  Work'[d] = Work[d]
<1>1. \A q \in CPU \ {p} : run'[q] = run[q]
  BY StepFrame
<1>2. run'[p].conn # d /\ run[p].conn # d
  BY StepRun, NoneAssumption DEF TypeInv, Idle
<1>3. {q \in Busy(d) : run[q].pc \in Working}' = {q \in Busy(d) : run[q].pc \in Working}
  BY <1>1, <1>2 DEF Busy
<1>4. \A q \in {q \in Busy(d) : run[q].pc \in Working} : run'[q] = run[q]
  BY <1>1, <1>2 DEF Busy
<1> QED
  BY <1>3, <1>4 DEF Work

\* The work of a connection is that of its only run ...
LEMMA StepWork ==
    ASSUME TypeInv, OwnInv, NEW p \in CPU, Step(p), NEW c, c = run[p].conn
    PROVE  /\ run[p].pc \in Working => Work[c] = {<<run[p].pkt.kind, run[p].pkt.n>>}
           /\ run[p].pc \notin Working => Work[c] = {}
<1>0. c \in Conn
  BY StepFrame
<1>1. \A q \in CPU \ {p} : run[q].conn # c
  BY StepFrame
<1>2. {q \in Busy(c) : run[q].pc \in Working} = IF run[p].pc \in Working THEN {p} ELSE {}
  BY <1>1 DEF Busy
<1> QED
  BY <1>0, <1>2 DEF Work

\* ... before the step and after it.
LEMMA StepWorkNext ==
    ASSUME TypeInv, OwnInv, NEW p \in CPU, Step(p), NEW c, c = run[p].conn
    PROVE  /\ run'[p].conn = c /\ run'[p].pc \in Working =>
                Work'[c] = {<<run'[p].pkt.kind, run'[p].pkt.n>>}
           /\ run'[p].pc \notin Working => Work'[c] = {}
<1>0. c \in Conn
  BY StepFrame
<1>1. \A q \in CPU \ {p} : run'[q].conn # c
  BY StepFrame
<1>2. {q \in Busy(c) : run[q].pc \in Working}'
        = IF run'[p].conn = c /\ run'[p].pc \in Working THEN {p} ELSE {}
  BY <1>1 DEF Busy
<1> QED
  BY <1>0, <1>2 DEF Work

\* A step of a run changes the open request of its own connection only.
LEMMA StepOpen ==
    ASSUME TypeInv, OwnInv, NEW p \in CPU, Step(p), NEW c, c = run[p].conn
    PROVE  /\ \A d \in Conn \ {c} : OpenRequest'[d] = OpenRequest[d]
           /\ Reported(c) <=> run[p].pc = "delete"
           /\ Reported(c)' <=> run'[p].conn = c /\ run'[p].pc = "delete"
<1>1. \A q \in CPU \ {p} : run'[q] = run[q] /\ run[q].conn # c
  BY StepFrame
<1>2. run'[p].conn \notin Conn \ {c}
  BY StepRun, NoneAssumption DEF TypeInv, Idle
<1>3. ASSUME NEW d \in Conn \ {c} PROVE OpenRequest'[d] = OpenRequest[d]
  <2>1. Reported(d)' <=> Reported(d)
    BY <1>1, <1>2 DEF Reported
  <2>2. /\ request_map'[d] = request_map[d]
        /\ request_map[d] # None => elem'[request_map[d]] = elem[request_map[d]]
    BY StepElse
  <2> QED
    BY <2>1, <2>2 DEF OpenRequest
<1> QED
  BY <1>1, <1>3 DEF Reported

\* The whole mapping follows from what it says of one connection.
LEMMA StepMapping ==
    ASSUME TypeInv, OwnInv, NEW p \in CPU, Step(p), NEW c, c = run[p].conn
    PROVE  /\ OpenRequest' = [OpenRequest EXCEPT ![c] = OpenRequest'[c]]
           /\ OpenRequest'[c] = OpenRequest[c] => OpenRequest' = OpenRequest
           /\ Work' = [Work EXCEPT ![c] = Work'[c]]
           /\ Work'[c] = Work[c] => Work' = Work
<1> DEFINE A == OpenRequest
           B == OpenRequest'
           V == Work
           W == Work'
<1>0. c \in Conn
  BY StepFrame
<1>1. \A d \in Conn \ {c} : B[d] = A[d]
  BY StepOpen
<1>w. \A d \in Conn \ {c} : W[d] = V[d]
  BY StepWorkElse
<1>2. A = [d \in Conn |-> A[d]] /\ B = [d \in Conn |-> B[d]]
  BY DEF OpenRequest
<1>3. V = [d \in Conn |-> V[d]] /\ W = [d \in Conn |-> W[d]]
  BY DEF Work
<1> HIDE DEF A, B, V, W
<1>4. B = [A EXCEPT ![c] = B[c]] /\ (B[c] = A[c] => B = A)
  BY <1>0, <1>1, <1>2, DifferInOne
<1>5. W = [V EXCEPT ![c] = W[c]] /\ (W[c] = V[c] => W = V)
  BY <1>0, <1>w, <1>3, DifferInOne
<1> QED
  BY <1>4, <1>5 DEF A, B, V, W

\* bpf_map_update_elem opens the request, or refuses it when the map is full.
LEMMA UpdateRefines ==
    ASSUME Inv, NEW p \in CPU, UpdateElem(p)
    PROVE  [Abstract!Next]_<<Work, OpenRequest, Reports>>
<1>1. PICK c, n : c = run[p].conn /\ n = run[p].pkt.n
  OBVIOUS
<1>s. Step(p) /\ run[p].pc = "update"
  BY DEF Step, UpdateElem
<1>2. /\ TypeInv /\ OwnInv /\ TypeOK /\ c \in Conn /\ c \in Key /\ run[p] \in RunState
      /\ run \in [CPU -> RunState \union {Idle}] /\ conn_key(run[p].pkt) = c
      /\ n \in ReqNo /\ RunPairOK(p)
  BY <1>1, <1>s, OwnFacts
<1>3. run'[p].pc = "return" /\ run[p].pkt.kind = "req"
  BY <1>2, <1>s, GotoRun DEF UpdateElem, RunPairOK
<1>4. ~ Reported(c) /\ ~ Reported(c)' /\ Work[c] = {<<"req", n>>} /\ Work'[c] = {}
  <2>1. ~ Reported(c) /\ ~ Reported(c)'
    BY <1>1, <1>2, <1>3, <1>s, StepOpen
  <2>2. Work[c] = {<<"req", n>>}
    BY <1>1, <1>2, <1>3, <1>s, StepWork DEF Working
  <2>3. Work'[c] = {}
    BY <1>1, <1>2, <1>3, <1>s, StepWorkNext DEF Working
  <2> QED
    BY <2>1, <2>2, <2>3
<1>5. UNCHANGED Reports /\ Abstract!Done(c, "req", n)
  <2>1. Reports' = Reports
    BY <1>1, UpdateOwn DEF Reports
  <2> QED
    BY <1>1, <1>2, <1>4, <1>s, <2>1, StepMapping DEF Abstract!Done
<1>6. CASE request_map[c] = None /\ UNCHANGED <<elem, request_map>>
  <2>1. OpenRequest[c] = 0 /\ OpenRequest'[c] = 0
    BY <1>2, <1>6 DEF OpenRequest
  <2>2. OpenRequest' = OpenRequest
    BY <1>1, <1>2, <1>s, <2>1, StepMapping
  <2> QED
    BY <1>2, <1>5, <2>1, <2>2 DEF Abstract!Next, Abstract!Refuse
<1>7. ASSUME NEW e \in Free,
             elem' = [elem EXCEPT ![e] =
                        [key |-> [src |-> run[p].pkt.src, dst |-> run[p].pkt.dst],
                         req |-> run[p].pkt.n, rsp |-> 0,
                         duration |-> run[p].duration, at |-> run[p].at]],
             request_map' = [request_map EXCEPT ![conn_key(run[p].pkt)] = e]
      PROVE  [Abstract!Next]_<<Work, OpenRequest, Reports>>
  <2>1. e \in Elem /\ e # None
    BY NoneAssumption DEF Free
  <2>2. request_map'[c] = e /\ elem'[e].req = n
    BY <1>1, <1>2, <1>7, <2>1 DEF TypeOK
  <2>3. OpenRequest'[c] = n
    BY <1>2, <1>4, <2>1, <2>2 DEF OpenRequest
  <2>4. OpenRequest' = [OpenRequest EXCEPT ![c] = n]
    BY <1>1, <1>2, <1>s, <2>3, StepMapping
  <2> QED
    BY <1>2, <1>5, <2>4 DEF Abstract!Next, Abstract!Open
<1> QED
  BY <1>1, <1>2, <1>6, <1>7 DEF UpdateElem

\* The reports in a sequence of records.
ReportsOf(s) ==
    [i \in DOMAIN s |-> [conn |-> s[i].conn, req |-> s[i].rec.req, rsp |-> s[i].rsp]]

\* A record more is a report more.
LEMMA ReportsAppend ==
    ASSUME NEW S, NEW s \in Seq(S), NEW out \in S
    PROVE  ReportsOf(Append(s, out))
             = Append(ReportsOf(s), [conn |-> out.conn, req |-> out.rec.req, rsp |-> out.rsp])
<1> DEFINE row(t) == [conn |-> t.conn, req |-> t.rec.req, rsp |-> t.rsp]
           T == {row(t) : t \in S}
           n == Len(s)
           a == Append(s, out)
<1>1. n \in Nat /\ DOMAIN s = 1 .. n /\ \A i \in 1 .. n : s[i] \in S
  OBVIOUS
<1>2. a \in Seq(S) /\ DOMAIN a = 1 .. n + 1 /\ a[n + 1] = out /\ \A i \in 1 .. n : a[i] = s[i]
  OBVIOUS
<1>3. ReportsOf(s) \in [1 .. n -> T]
  <2>1. ReportsOf(s) = [i \in 1 .. n |-> row(s[i])]
    BY <1>1 DEF ReportsOf
  <2>2. \A i \in 1 .. n : row(s[i]) \in T
    BY <1>1
  <2> HIDE DEF T, row
  <2> QED
    BY <2>1, <2>2
<1> HIDE DEF T, a, n
<1>4. ReportsOf(s) \in Seq(T) /\ Len(ReportsOf(s)) = n
  BY <1>1, <1>3
<1>5. row(out) \in T
  BY DEF T
<1> DEFINE b == Append(ReportsOf(s), row(out))
<1> HIDE DEF row
<1>6. b \in Seq(T) /\ Len(b) = n + 1 /\ DOMAIN b = 1 .. n + 1 /\ b[n + 1] = row(out)
      /\ \A i \in 1 .. n : b[i] = ReportsOf(s)[i]
  BY <1>1, <1>4, <1>5
<1> HIDE DEF b
<1>7. \A i \in 1 .. n + 1 : b[i] = row(a[i])
  <2>1. \A i \in 1 .. n : ReportsOf(s)[i] = row(s[i])
    BY <1>1 DEF ReportsOf, row
  <2> QED
    BY <1>1, <1>2, <1>6, <2>1
<1>8. b = [i \in 1 .. n + 1 |-> b[i]]
  BY <1>6, LenProperties
<1>9. ReportsOf(a) = [i \in 1 .. n + 1 |-> row(a[i])]
  BY <1>2 DEF ReportsOf, row
<1>10. ReportsOf(a) = b
  BY <1>7, <1>8, <1>9
<1> QED
  BY <1>10 DEF a, b, row

\* bpf_ringbuf_output reports the open request, or loses it to a full buffer;
\* the entry that is still in the map is not open any more.
LEMMA OutputRefines ==
    ASSUME Inv, NEW p \in CPU, RingbufOutput(p)
    PROVE  [Abstract!Next]_<<Work, OpenRequest, Reports>>
<1>1. PICK c, n, r : c = run[p].conn /\ n = run[p].pkt.n /\ r = elem[run[p].ptr]
  OBVIOUS
<1>s. Step(p) /\ run[p].pc = "output"
  BY DEF Step, RingbufOutput
<1>2. /\ TypeInv /\ OwnInv /\ c \in Conn /\ run[p] \in RunState
      /\ run \in [CPU -> RunState \union {Idle}] /\ n \in ReqNo /\ RunPairOK(p)
      /\ emitted \in Seq([rec : Record, conn : Conn, rsp : ReqNo, end : 0 .. MaxTime])
  BY <1>1, <1>s, OwnFacts DEF TypeOK
<1>3. run[p].ptr = request_map[c] /\ request_map[c] # None /\ r \in Record
  BY <1>1, OutputRecord
<1>4. /\ ~ Reported(c) /\ Reported(c)' /\ Work[c] = {<<"rsp", n>>} /\ Work'[c] = {}
      /\ UNCHANGED <<request_map, elem>>
  <2>1. run'[p].pc = "delete" /\ run'[p].conn = c /\ run[p].pkt.kind = "rsp"
    BY <1>1, <1>2, <1>s, GotoRun DEF RingbufOutput, RunPairOK, Answering
  <2>2. UNCHANGED <<request_map, elem>>
    BY DEF RingbufOutput
  <2> QED
    BY <1>1, <1>2, <1>s, <2>1, <2>2, StepOpen, StepWork, StepWorkNext DEF Working
<1>5. OpenRequest[c] = r.req /\ OpenRequest[c] # 0 /\ OpenRequest'[c] = 0
  <2>1. r.req \in ReqNo /\ 0 \notin ReqNo
    BY <1>3 DEF Record, ReqNo
  <2> QED
    BY <1>1, <1>2, <1>3, <1>4, <2>1 DEF OpenRequest
<1>6. OpenRequest' = [OpenRequest EXCEPT ![c] = 0] /\ Abstract!Done(c, "rsp", n)
  BY <1>1, <1>2, <1>4, <1>5, <1>s, StepMapping DEF Abstract!Done
<1>7. CASE emitted' = emitted
  <2>1. Reports' = Reports
    BY <1>7 DEF Reports
  <2> QED
    BY <1>2, <1>5, <1>6, <2>1 DEF Abstract!Next, Abstract!Lose
<1>8. ASSUME NEW out \in [rec : Record, conn : Conn, rsp : ReqNo, end : 0 .. MaxTime],
             emitted' = Append(emitted, out), out.conn = c, out.rec = r, out.rsp = n
      PROVE  [Abstract!Next]_<<Work, OpenRequest, Reports>>
  <2>1. Reports' = Append(Reports, [conn |-> c, req |-> OpenRequest[c], rsp |-> n])
    <3>1. Reports = ReportsOf(emitted) /\ Reports' = ReportsOf(Append(emitted, out))
      BY <1>8 DEF Reports, ReportsOf
    <3>2. PICK S : emitted \in Seq(S) /\ out \in S
      BY <1>2, <1>8
    <3>3. Reports' = Append(Reports, [conn |-> out.conn, req |-> out.rec.req, rsp |-> out.rsp])
      BY <3>1, <3>2, ReportsAppend
    <3> QED
      BY <1>5, <1>8, <3>3
  <2> QED
    BY <1>2, <1>5, <1>6, <2>1 DEF Abstract!Next, Abstract!Report
<1>9. PICK out : out = [rec |-> r, conn |-> c, rsp |-> n, end |-> run[p].at]
  OBVIOUS
<1>10. /\ out \in [rec : Record, conn : Conn, rsp : ReqNo, end : 0 .. MaxTime]
       /\ out.conn = c /\ out.rec = r /\ out.rsp = n
  <2>1. run[p].at \in 0 .. MaxTime
    BY <1>2 DEF RunState
  <2> QED
    BY <1>2, <1>3, <1>9, <2>1
<1>11. emitted' = emitted \/ emitted' = Append(emitted, out)
  BY <1>1, <1>9 DEF RingbufOutput
<1> QED
  BY <1>7, <1>8, <1>10, <1>11

\* bpf_map_lookup_elem: a response without a request is done with.
LEMMA LookupRefines ==
    ASSUME Inv, NEW p \in CPU, LookupElem(p)
    PROVE  [Abstract!Next]_<<Work, OpenRequest, Reports>>
<1>1. PICK c, n : c = run[p].conn /\ n = run[p].pkt.n
  OBVIOUS
<1>s. Step(p) /\ run[p].pc = "lookup"
  BY DEF Step, LookupElem
<1>2. /\ TypeInv /\ OwnInv /\ c \in Conn /\ n \in ReqNo /\ run[p] \in RunState
      /\ run \in [CPU -> RunState \union {Idle}] /\ conn_key(run[p].pkt) = c /\ RunPairOK(p)
  BY <1>1, <1>s, OwnFacts
<1>3. /\ run'[p].pc = IF request_map[c] = None THEN "return" ELSE "duration"
      /\ run'[p].conn = c /\ run'[p].pkt = run[p].pkt /\ run[p].pkt.kind = "rsp"
      /\ UNCHANGED <<request_map, elem, emitted>>
  BY <1>1, <1>2, <1>s DEF LookupElem, RunPairOK, Answering, maps, history
<1>4. /\ ~ Reported(c) /\ ~ Reported(c)' /\ Work[c] = {<<"rsp", n>>}
      /\ Work'[c] = IF request_map[c] = None THEN {} ELSE {<<"rsp", n>>}
  <2>1. ~ Reported(c) /\ ~ Reported(c)'
    BY <1>1, <1>2, <1>3, <1>s, StepOpen
  <2>2. Work[c] = {<<"rsp", n>>}
    BY <1>1, <1>2, <1>3, <1>s, StepWork DEF Working
  <2>3. Work'[c] = IF request_map[c] = None THEN {} ELSE {<<"rsp", n>>}
    BY <1>1, <1>2, <1>3, <1>s, StepWorkNext DEF Working
  <2> QED
    BY <2>1, <2>2, <2>3
<1>5. Reports' = Reports /\ OpenRequest'[c] = OpenRequest[c]
  BY <1>2, <1>3, <1>4 DEF Reports, OpenRequest
<1>6. OpenRequest' = OpenRequest
  BY <1>1, <1>2, <1>5, <1>s, StepMapping
<1>7. CASE request_map[c] = None
  <2>1. OpenRequest[c] = 0
    BY <1>2, <1>7 DEF OpenRequest
  <2>2. Abstract!Done(c, "rsp", n)
    BY <1>1, <1>2, <1>4, <1>7, <1>s, StepMapping DEF Abstract!Done
  <2> QED
    BY <1>2, <1>5, <1>6, <2>1, <2>2 DEF Abstract!Next, Abstract!Ignore
<1>8. CASE request_map[c] # None
  BY <1>1, <1>2, <1>4, <1>5, <1>6, <1>8, <1>s, StepMapping
<1> QED
  BY <1>7, <1>8

\* The other steps of a run are not seen by the reader of the ring buffer.
LEMMA HiddenRefines ==
    ASSUME Inv, NEW p \in CPU,
           ReadDuration(p) \/ FillResponse(p) \/ DeleteElem(p) \/ Return(p)
    PROVE  UNCHANGED <<Work, OpenRequest, Reports>>
<1>1. PICK c : c = run[p].conn
  OBVIOUS
<1>s. Step(p)
  BY DEF Step
<1>2. /\ TypeInv /\ OwnInv /\ TypeOK /\ c \in Conn /\ c \in Key /\ run[p] \in RunState
      /\ run \in [CPU -> RunState \union {Idle}] /\ conn_key(run[p].pkt) = c
  BY <1>1, <1>s, OwnFacts
<1>3. Reports' = Reports
  BY DEF ReadDuration, FillResponse, DeleteElem, Return, history, Reports
<1>4. SUFFICES OpenRequest'[c] = OpenRequest[c] /\ Work'[c] = Work[c]
  BY <1>1, <1>2, <1>3, <1>s, StepMapping
<1>5. CASE ReadDuration(p)
  <2>1. /\ run[p].pc = "duration" /\ run'[p].pc = "fill" /\ UNCHANGED <<request_map, elem>>
        /\ run'[p].conn = c /\ run'[p].pkt = run[p].pkt
    BY <1>1, <1>2, <1>5 DEF ReadDuration, maps
  <2>2. ~ Reported(c) /\ ~ Reported(c)'
    BY <1>1, <1>2, <1>s, <2>1, StepOpen
  <2>w. Work'[c] = Work[c]
    <3>1. Work[c] = {<<run[p].pkt.kind, run[p].pkt.n>>}
      BY <1>1, <1>2, <1>s, <2>1, StepWork DEF Working
    <3>2. Work'[c] = {<<run[p].pkt.kind, run[p].pkt.n>>}
      BY <1>1, <1>2, <1>s, <2>1, StepWorkNext DEF Working
    <3> QED
      BY <3>1, <3>2
  <2> QED
    BY <1>2, <2>1, <2>2, <2>w DEF OpenRequest
<1>6. CASE FillResponse(p)
  <2>1. /\ run[p].pc = "fill" /\ run'[p].pc = "output" /\ UNCHANGED request_map
        /\ run'[p].conn = c /\ run'[p].pkt = run[p].pkt
    BY <1>1, <1>2, <1>6, GotoRun DEF FillResponse
  <2>2. ~ Reported(c) /\ ~ Reported(c)'
    BY <1>1, <1>2, <1>s, <2>1, StepOpen
  <2>w. Work'[c] = Work[c]
    <3>1. Work[c] = {<<run[p].pkt.kind, run[p].pkt.n>>}
      BY <1>1, <1>2, <1>s, <2>1, StepWork DEF Working
    <3>2. Work'[c] = {<<run[p].pkt.kind, run[p].pkt.n>>}
      BY <1>1, <1>2, <1>s, <2>1, StepWorkNext DEF Working
    <3> QED
      BY <3>1, <3>2
  <2>3. run[p].ptr = request_map[c] /\ run[p].ptr \in Elem
    BY <1>1, <1>2, <2>1 DEF OwnInv, PointerIsEntry, TypeInv, PointerOK, HoldsPointer
  <2>4. elem'[run[p].ptr].req = elem[run[p].ptr].req
    BY <1>2, <1>6, <2>3 DEF FillResponse, TypeOK
  <2> QED
    BY <1>2, <2>1, <2>2, <2>3, <2>4, <2>w DEF OpenRequest
<1>7. CASE DeleteElem(p)
  <2>1. run[p].pc = "delete" /\ run'[p].pc = "return" /\ request_map'[c] = None
    BY <1>2, <1>7, GotoRun DEF DeleteElem, TypeOK
  <2>2. Reported(c)
    BY <1>1, <1>2, <1>s, <2>1, StepOpen
  <2>w. Work'[c] = Work[c]
    <3>1. Work[c] = {}
      BY <1>1, <1>2, <1>s, <2>1, StepWork DEF Working
    <3>2. Work'[c] = {}
      BY <1>1, <1>2, <1>s, <2>1, StepWorkNext DEF Working
    <3> QED
      BY <3>1, <3>2
  <2> QED
    BY <1>2, <2>1, <2>2, <2>w DEF OpenRequest
<1>8. CASE Return(p)
  <2>1. /\ run[p].pc = "return" /\ run'[p].pc = "idle" /\ UNCHANGED <<request_map, elem>>
    BY <1>2, <1>8 DEF Return, maps, Idle
  <2>2. ~ Reported(c) /\ ~ Reported(c)'
    BY <1>1, <1>2, <1>s, <2>1, StepOpen
  <2>w. Work'[c] = Work[c]
    <3>1. Work[c] = {}
      BY <1>1, <1>2, <1>s, <2>1, StepWork DEF Working
    <3>2. Work'[c] = {}
      BY <1>1, <1>2, <1>s, <2>1, StepWorkNext DEF Working
    <3> QED
      BY <3>1, <3>2
  <2> QED
    BY <1>2, <2>1, <2>2, <2>w DEF OpenRequest
<1> QED
  BY <1>5, <1>6, <1>7, <1>8

\* A packet that enters the filter is to be dealt with.
LEMMA ReceiveRefines ==
    ASSUME Serial = TRUE, Inv, NEW p \in CPU, NEW c \in Conn, NEW kind \in {"req", "rsp"},
           NEW n \in ReqNo, Receive(p, c, kind, n)
    PROVE  [Abstract!Next]_<<Work, OpenRequest, Reports>>
<1>0. TypeOK /\ FilterInv
  BY DEF Inv, TypeInv, PairInv
<1>1. UNCHANGED <<request_map, elem, emitted>> /\ run[p] = Idle /\ Busy(c) = {}
  BY DEF Receive, maps, history
<1>2. /\ \A q \in CPU \ {p} : run'[q] = run[q]
      /\ run'[p].pc = IF kind = "req" THEN "update" ELSE "lookup"
      /\ run'[p].conn = c /\ run'[p].pkt = Packet(kind, c, n)
  <2>1. Packet(kind, c, n).src \in Sock /\ Packet(kind, c, n).dst \in Sock
    BY PacketType
  <2>2. PassesFilter(filter_ip, SockIp[Packet(kind, c, n).src],
                     SockIp[Packet(kind, c, n).dst])
    BY <1>0, <2>1, FilterInvPasses
  <2> QED
    BY <1>0, <2>2 DEF Receive, TypeOK
<1>3. run[p].conn \notin Conn /\ run[p].pc # "delete" /\ run'[p].pc # "delete"
      /\ run'[p].pc \in Working
  BY <1>1, <1>2, NoneAssumption DEF Idle, Working
<1>4. OpenRequest' = OpenRequest /\ Reports' = Reports
  <2>1. \A d \in Conn : Reported(d)' <=> Reported(d)
    BY <1>2, <1>3 DEF Reported
  <2> QED
    BY <1>1, <2>1 DEF OpenRequest, Reports
<1>5. Work[c] = {} /\ Work'[c] = {<<kind, n>>}
  <2>1. {q \in Busy(c) : run[q].pc \in Working}' = {p}
    BY <1>1, <1>2, <1>3 DEF Busy
  <2>2. run'[p].pkt.kind = kind /\ run'[p].pkt.n = n
    BY <1>2 DEF Packet
  <2> QED
    BY <1>1, <2>1, <2>2 DEF Work
<1>6. ASSUME NEW d \in Conn \ {c} PROVE Work'[d] = Work[d]
  <2>1. {q \in Busy(d) : run[q].pc \in Working}' = {q \in Busy(d) : run[q].pc \in Working}
    BY <1>2, <1>3 DEF Busy
  <2>2. \A q \in {q \in Busy(d) : run[q].pc \in Working} : run'[q] = run[q]
    BY <1>2, <1>3 DEF Busy
  <2> QED
    BY <2>1, <2>2 DEF Work
<1>7. Work' = [Work EXCEPT ![c] = {<<kind, n>>}]
  <2> DEFINE V == Work
             W == Work'
  <2>1. V = [d \in Conn |-> V[d]] /\ W = [d \in Conn |-> W[d]]
    BY DEF Work
  <2>2. W[c] = {<<kind, n>>} /\ \A d \in Conn \ {c} : W[d] = V[d]
    BY <1>5, <1>6
  <2> HIDE DEF V, W
  <2>3. W = [V EXCEPT ![c] = {<<kind, n>>}]
    BY <2>1, <2>2, DifferInOne
  <2> QED
    BY <2>3 DEF V, W
<1>8. Abstract!Arrive(c, kind, n)
  BY <1>4, <1>5, <1>7 DEF Abstract!Arrive
<1> QED
  BY <1>8 DEF Abstract!Next

LEMMA NextRefines ==
    ASSUME Serial = TRUE, Inv, [Next]_vars
    PROVE  [Abstract!Next]_<<Work, OpenRequest, Reports>>
<1>0. TypeOK
  BY DEF Inv, TypeInv
<1>1. CASE Quiet
  <2>1. UNCHANGED <<request_map, elem, run, emitted>>
    BY <1>1 DEF Quiet
  <2>2. UNCHANGED <<Work, OpenRequest, Reports>>
    BY <2>1 DEF Work, Busy, OpenRequest, Reported, Reports
  <2> QED
    BY <2>2
<1>2. ASSUME NEW p \in CPU, NEW c \in Conn, NEW kind \in {"req", "rsp"}, NEW n \in ReqNo,
             Receive(p, c, kind, n)
      PROVE  [Abstract!Next]_<<Work, OpenRequest, Reports>>
  BY <1>2, ReceiveRefines
<1>3. ASSUME NEW p \in CPU, Step(p) PROVE [Abstract!Next]_<<Work, OpenRequest, Reports>>
  BY <1>3, UpdateRefines, LookupRefines, OutputRefines, HiddenRefines DEF Step
<1> QED
  BY <1>0, <1>1, <1>2, <1>3, NextCases

\* socket__filter_http implements Pairing (PairsInOneStep), in whatever order the
\* packets of a connection come: a request opens or is refused at
\* bpf_map_update_elem, a response is ignored at bpf_map_lookup_elem or closes the
\* open request, with or without a report, at bpf_ringbuf_output; no other helper
\* call of any CPU changes the open requests or the reports.
THEOREM PairsInOneStepHolds ==
    ASSUME Serial = TRUE
    PROVE  Spec => PairsInOneStep
<1>1. Init => Abstract!Init
  <2> SUFFICES ASSUME Init
               PROVE  Work = [c \in Conn |-> {}] /\ OpenRequest = [c \in Conn |-> 0]
                      /\ Reports = << >>
    BY DEF Abstract!Init
  <2>1. \A c \in Conn : request_map[c] = None /\ Busy(c) = {}
    BY ConstantsAssumption, NoneAssumption DEF Init, Busy, Idle
  <2>2. OpenRequest = [c \in Conn |-> 0] /\ Work = [c \in Conn |-> {}]
    BY <2>1 DEF OpenRequest, Work
  <2>3. Reports = << >>
    BY DEF Init, Reports
  <2> QED
    BY <2>2, <2>3
<1>2. Inv /\ [Next]_vars => [Abstract!Next]_<<Work, OpenRequest, Reports>>
  BY NextRefines
<1> QED
  BY <1>1, <1>2, InvHolds, PTL DEF Spec, PairsInOneStep, Abstract!Spec
=============================================================================
