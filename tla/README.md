# A TLA+ model of kubebpfbox

kubebpfbox is an agent that runs on every node of a Kubernetes cluster. eBPF
programs observe HTTP traffic, OOM kills and full accept queues in the kernel;
the agent attributes what they report to pods and services and writes it to
InfluxDB. This directory models the parts of the agent in which steps of
several actors meet and checks them with TLC on small instances. Every safety
property of a passing run, and the refinement of the socket filter, is proved
with TLAPS for every value of the constants; liveness is only model-checked.

## The system

| Part | State | Operations | Meets |
|---|---|---|---|
| Socket filter (`ebpf/http/http.c`) | maps `filter_ip`, `request_map`, ring buffer `packets` | one run per packet: filter test, parse, update, or lookup, fill, output, delete | runs on other CPUs; the agent through the maps |
| http plugin (`plugins/http/ebpf.go`) | raw socket, reader | `Load`, `WriteFilterIP`, `Registry`, `AddFilterIP`, `DeleteFilterIP`, read loop, `DecodeMapItem` | the ring buffer; the endpoint table; `Gather` |
| R.E.D. statistics (`plugins/http/http.go`) | `redMetric` by pod name | count a `Traffic`, report every minute | reader, ticker, main's channel |
| oomkill plugin (`ebpf/oomkill`, `plugins/oomkill`) | kprobe, ring buffer | probe, `Load`, read loop, `DecodeMapItem`, `Gather` | dying processes, `/proc`, pod table, main's channel |
| tcpsynbl plugin (`ebpf/tcpsynbl`, `plugins/tcpsynbl`) | two kprobes, ring buffer | the same | the accept queue of a socket, written on other CPUs; the rest as oomkill |
| Endpoint table (`internal/endpoint2pod`) | `Providers`, callback slices | add, delete, update an `Endpoints` object; `GetPodByEndpoint` | informer goroutine, http plugin |
| Informer handlers (`internal/k8s`) | the informers | `AddFunc`, `UpdateFunc`, `DeleteFunc` | API server through client-go |
| Pod table (`internal/pid2pod`) | `Pods` | add, delete, update; lookup by pid | pod informer, oomkill and tcpsynbl plugins |
| main (`main.go`) | channel of 1000 metrics | receive and write, stop on a signal | all plugins, the writer |
| InfluxDB writer (`internal/influxdb`) | `Points`, `mu` | `Write`, `Commit` every 3 s, `ClearPoints` | main, the server |
| Settings, logger | sections, log file | reload on a file change; `Fatalf` ends the process | everything |

What is hard to get right here: filter runs of several CPUs share the elements
of a map without a lock; packets come late, again, out of order or not at all and
clients give up; maps and buffers fill up and the results of the helpers are
ignored; the endpoint table is written and read by goroutines without a lock; a
watch breaks and is listed again in another order; an event names a process that
is dead when the agent asks for it; a queue is read without a lock just before it
grows; a mutex is held during a network write, so that a slow database stops the
stages one after the other. `PROJECT.json` lists these hazards with their lines.

What makes the parts correct:

- the filter pairs a response with the request it answers, reports it once, and
  mixes no connections (what of this holds, and when not, the runs say);
- the URL that is reported is the URL that was sent;
- the table resolves an endpoint to what the cluster says, never to a pod that
  is gone, and catches up after changes and crashes; the same for pods;
- an access is put down to a pod that owned the address then or later; an OOM
  report names the victim;
- a full accept queue is reported before it is far beyond its limit;
- an event is stored, in order, or dropped at a place that is known;
- a request is counted in exactly one minute.

## The modules

| Module | Models | Length of a step |
|---|---|---|
| `IpBytes` | `ipv4ToUint32`, `net.ParseIP` as used, `__check_target_ip`, the early return of the filter | pure operators on byte tuples |
| `HttpFilter` | `socket__filter_http` on several CPUs, the maps, the connections | one helper call, or the stores through a pointer |
| `Pairing` | what the filter promises: each packet is dealt with in one step (abstract) | one packet |
| `HttpFilterPairing` | the mapping under which `HttpFilter` implements `Pairing` | |
| `HttpFilterProofs` | theorems about `HttpFilter` that need no assumption on the order of the runs | |
| `HttpPairingProofs` | theorems about the pairing of requests and responses; `HttpFilter` implements `Pairing` | |
| `HttpParse` | `__is_http_request`, `__get_http_request_method_len`, `__load_url_to_map`, the decoding of method and URL | one chunk of 16 bytes |
| `HttpParseProofs` | theorems about `HttpParse` | |
| `Endpoint2Pod` | the endpoint table, the informer's handlers, `HttpEbpf.Start` up to the read loop | one entry of an object; one key; one callback registration |
| `Attribution` | `Endpoint2Pod` composed with the filter's output, the ring buffer and `DecodeMapItem` of the http plugin | one record; a step of `Endpoint2Pod` |
| `AttributionProofs` | theorems about `Endpoint2Pod` and `Attribution` | |
| `Pid2Pod` | the pod table, the pod informer's handlers | one event taken, one write of the table |
| `PodEvents` | `Pid2Pod` composed with processes, the oomkill kprobe, both event plugins' read loops and their lookups in `/proc` and the table | one helper's output; one lookup |
| `PodEventsProofs` | theorems about `Pid2Pod` and `PodEvents` | |
| `TcpSynBacklog` | `do_entry`, `do_entry_v6` on several CPUs against the kernel's accept queue | one read of a field |
| `TcpSynBacklogProofs` | theorems about `TcpSynBacklog` | |
| `MetricPipeline` | ring buffer, `Start`, `Gather`, channel, main, writer | one receive, send, lock or commit |
| `MetricPipelineProofs` | theorems about `MetricPipeline` | |
| `RedMetric` | the select loop of the http plugin's `Gather` | one case of the select, one entry of the range |
| `RedMetricProofs` | theorems about `RedMetric` | |
| `MC...` | the instances TLC checks | |

### HttpFilter

`request_map` maps a four-tuple to an element of a preallocated pool and `elem`
holds the contents of the elements, so that a pointer a run holds keeps pointing
to an element that was deleted and given to another key, as in the kernel's hash
table. `run[p]` is what CPU `p` does: the pc names the next helper call of
`socket__filter_http`. A run takes these steps: `Receive` (header parsing, the
filter test, for a request the time stamp), then `UpdateElem`; or `LookupElem`,
`ReadDuration`, `FillResponse`, `RingbufOutput`, `DeleteElem`; and `Return`. The
two lookups in `filter_ip` are one step, and so are the five stores of
`FillResponse`. `filter_ip` has no bound in the model: every key the agent
writes is the same one, so the 300 entries of the map are never used up. Packets
that are not HTTP change nothing and are left out.

A request is its number on the connection; `url`, `method` and sizes are copied
from one packet together, so the number tells where they came from. Time counts
in ticks and the `__u32` field `duration` wraps at `DurationMod`.

The connections are external: HTTP/1.1 over TCP without pipelining, which the
project's `README.md:99` excludes. What an end has sent stays in `net`: a copy of
it may reach the bridge at any time, any number of times (`MaxPackets`), in any
order, or never. So packets are retransmitted early and late, overtake each other
and are lost, also behind the bridge: a packet that was filtered may come again
because it, or the answer to it, was lost on its way to the receiver. A server
answers a request that has passed the bridge, a client sends the next one when
the response has passed, or gives up on it and uses the four-tuple again
(`Abandons`). Packets pass unseen before the filter is attached.

Two history variables tell what the filter can and cannot get right. `high` is
the place of the latest packet of a connection at the bridge in the order request
1, response 1, request 2, ...; a connection is `overtaken` once a packet of it
enters the filter after a later one. The filter cannot tell such a packet from a
new one, so `MatchedPairs`, `ReportedOnce`, `PendingIsLatest` and `NoSilentLoss`
are stated for the connections that are not overtaken; a packet that comes again
before any later one does not make a connection overtaken. `MapWellFormed`,
`DurationIsDifference`, the refinement and the first two conjuncts of
`MatchedPairs` have no such condition.

`Serial` is a constant: two packets of one connection are never filtered at the
same time. The code does not enforce it. A client that waits and a server that
answers take turns, so it holds unless a packet is sent again while its copy, or
the answer to it, is being filtered on another CPU. The properties that need it
say so below; `http_matched` has it off and shows what happens then.

`HttpFilterPairing` shows that `HttpFilter` implements `Pairing`: the packet of a
run is to be dealt with (`work`) until its request is stored, its lookup finds
nothing or its record is output; the open request of a connection is the entry of
`request_map` until it is output; the log is what was output.

### HttpParse

A byte of the packet is its offset, so a copied byte tells where it came from.
The request line is method, space, URL, end, and bytes after it. The URL is
copied by turns of `LoadChunk`; a load beyond the end of the packet fails.

### Endpoint2Pod

The API server, the reflector and its queue are external: an object changes, an
event is queued, a watch may break, and a list queues all objects and tombstones
for those that are gone (`Listed`). The events of one object stay in order; the
order between two objects is left open, because a list brings the objects in any
order and client-go's DeltaFIFO hands on the events of one object together, past
earlier events of others. `TakeEvent` hands an event to the handlers,
`BeginEntry` starts the write of an entry, `DeleteEntry` and `AddEntry` end it
and call the callbacks. While a write is going on, another goroutine that reads
or walks the map makes the Go runtime end the process (`ConcurrentMapAccess`);
tombstones and addresses without `TargetRef` panic. `restartPolicy: Always` in
`deploy/agent/daemonset.yaml` justifies `Restart`. `WriteFilterIP`,
`RegistryAdd`, `RegistryDelete` are the start of the http plugin, which
interleaves with the handlers. `claimed` remembers which services have listed an
endpoint since the agent started: an endpoint two of them listed may lose its
entry, and the agreement with the cluster is stated for the others.

### Attribution

A record is output when an access is answered (`Access`), waits in the ring
buffer and is resolved when it is decoded. Addresses and ports are tuples of
bytes: the header's order, the little-endian read of the record, `intToIP` and
`Ntohs` are modelled as what they do to the bytes. The record carries history:
the pods that owned its endpoint since the access, and whether anything has
happened in between.

### Pid2Pod and PodEvents

The informer hands on pods by name, the table keeps them by UID. A pod deleted
and created again under its name while the watch was broken is one update, and
`updatePod` never removes the old UID (`replaced`). The handlers of different
pods touch different entries, so one queue is enough.

`PodEvents` adds processes with pids that are used again. A process is the
number of its start, and so is its name, so that a name tells whose it is. The
kprobe of oomkill copies pid and name before the process dies; an event of
tcpsynbl has only the pid of the socket's owner, which may have ended.
`getCommByPid`, `lookupIdByPid` and the access to `Pods` are steps of their own,
and processes end and start in between. A failed read in the probe and a full
ring buffer leave no trace. An id is a string of digits with a separator:
`lookupIdByPid` finds `_` in the name of a control group, `Pods` is keyed with
`-`.

### TcpSynBacklog

`run[p]` is the handshake CPU `p` works on. The probe reads the limit
(`ReadMax`), the length and tests it (`ReadAck`), follows the pointers to the
owner (`ReadOwner`) and outputs (`RingbufOutput`). Then the kernel tests the
queue itself (`Drop`, `Admit`) and adds the connection (`Add`); the application
accepts at any time. The kernel makes the same test when the first SYN of a
handshake arrives and drops it at a full queue; no probe runs then and no variable
changes, so this is no action, and no property counts drops. A client of IPv4 at a
socket of IPv6 runs both probes. All reads of fields of a live socket succeed; a
chain of pointers that ends early counts as no owner. `warned` remembers that the
queue was reported since it was last below the limit.

### MetricPipeline

Each stage holds at most one metric in hand (`reader`, `gather`, `main`), the
channel at most `CHAN_CAP`. A failed load or start ends the process for
oomkill and tcpsynbl (`Fatalf`) and leaves a dead or deaf http plugin. A commit
holds the mutex from `CommitBegin` to `CommitOK` or `CommitFails`; a failed one
may have been stored. The http plugin's own minute reports
are modelled in `RedMetric`, not here.

### RedMetric

`Receive` counts and then waits for the send of the traffic metric; `TakeTick`
starts a range over the map, `Report` sends and deletes one entry. A duration is
the kernel's number of nanoseconds. `float32` rounds it to 24 bits as
`ebpf.go:229` does; `Ms` is the whole expression up to `int(m.Duration)`: the
division by 1000 * 1000, whose result is rounded to 24 bits again, and the
truncation. `MCRedMetric` compares `Ms` with values of the expression in IEEE single
precision, among them 16999999 ns, which become 17 ms, and 1077000000 ns, which
become 1076.
Two history variables add up, per pod name, what was received (`got`) and what
the reports said (`sent`).

## The runs

| Run | Config | Bounds | Shows |
|---|---|---|---|
| `http_sequences` | `HttpSequences.cfg` | 1 connection, 2 requests, 4 packets in the filter, ring of 1, 1 CPU, 3 instants, duration modulo 2 | in order: responses are paired with their requests, once, none is missed, the entry left is the latest packet; in any order: durations are differences modulo the width, and the filter implements `Pairing` |
| `http_full` | `HttpFull.cfg` | 2 connections, 1 request and 3 packets each, map of 1 entry, 2 elements, ring of 1, 2 CPUs | nothing is lost but at a full map or ring; entries mix no connections |
| `http_matched` | `HttpMatched.cfg` | 2 connections, 2 requests and 4 packets each, 2 CPUs, clients wait, not `Serial` | **violated**: `AlwaysMatched` |
| `parse_url` | `ParseUrl.cfg` | 6 methods, lengths 0-34, 192-198, 255-257, 3 endings | only URL bytes are copied, without holes, inside the buffer; short URLs exactly |
| `parse_long_url` | `ParseLongUrl.cfg` | the same | **violated**: `UrlExact` |
| `endpoints` | `Endpoints.cfg` | 2 services with 2 objects each, 2 addresses, 2 changes, 1 broken watch, 1 race | no stale attribution; the table agrees with the cluster, and converges |
| `attribution` | `Attribution.cfg` | 2 services, 2 addresses, 2 changes, 1 broken watch, ring of 1 | no access is put down to an earlier owner; a settled one to the right pod |
| `endpoints_shared` | `EndpointsShared.cfg` | 1 change | **violated**: `MatchedWhenQuiescent` |
| `pipeline` | `Pipeline.cfg` | 2 plugins, 2 and 1 events, ring 1, channel 1, 2 failures | nothing lost inside, order, bounded duplicates, events stored, signal served |
| `pod_events` | `PodEvents.cfg` | 1 name, 2 UIDs (1 burstable), 3 changes, 1 broken watch, 1 race, 1 pid used twice, 1 event | the table covers the node; a leaked UID was replaced; reports name the victim; events are reported |
| `backlog` | `Backlog.cfg` | 2 CPUs, limits 0, 1 and 2, queue up to 6, ring of 2 | a full queue is reported in time |
| `red` | `Red.cfg` | 3 pods, two of one name, 3 requests of each name, durations of 500000 and 16999999 ns | counts conserved, no division by zero, truncation and rounding bounded, entries reported |

The bounds are enough for the cases that matter: every stage is smaller than
what is sent through it, so that it is full in some states; two requests are what
an old entry needs to be taken for a later request, and four packets are both
exchanges, or one of them with every packet twice, or packets that come again in
the place of others that are lost; three instants make the duration wrap; two
services over two addresses are enough for
an address to be shared and to move; three changes of one name are a pod, its
end and its successor, and two processes of one pid a victim and its successor;
one event is enough because a plugin decodes one at a time and its buffer's
bound is checked in `pipeline` and `backlog`; six connections are more than
limit and CPUs together; the URL lengths lie on both sides of the
first and second chunk boundary, of the 196 bytes that sixteen turns reach, and
of the buffer's 256; one of the two durations is rounded over a whole millisecond.
CPUs and elements are symmetric; no run with a liveness property uses symmetry
(the refinement of `http_sequences` is a safety property, and `Pairing` knows
neither CPUs nor elements). Runs of `Endpoint2Pod`, `Attribution`, `PodEvents`,
`MetricPipeline` and `HttpParse` allow the model to stop where bounds end or the
process has exited.

What the bounds leave out: in `pipeline` the number of failures is bounded, so
commits succeed in the end, and so is the number of events, so the channel is
contended but not full for ever; in `red` traffic stops. That the select does not
pass a case over for ever is there the fairness that is stated, not something a
run exercises. `NothingLost` counts what an ended or deaf process holds as on its
way.

Each property of a passing run has a mutant, an operator named after the
definition it changes with a suffix, marked `Mutant:` in a comment.

### What the violated runs show

- `http_matched`: `docs/http.md:25` says that matching is guaranteed by the
  four-tuple. In the trace two copies of a response are filtered at the same time.
  Both runs look up the entry; one outputs and deletes it, a request of another
  connection takes its element, and the other run outputs that request
  (`http.c:305-319`). With `Serial = TRUE` in the same configuration the property
  is violated as well, by a response that TCP sends again: request 1 and its
  response are filtered, request 2 is stored, and response 1 comes again and is
  paired with request 2. The code pairs a response with whatever its four-tuple
  has in `request_map`; the queue the document describes would do the same.
- `parse_long_url`: 16 bytes are loaded per turn, the offset advances by 12.
- `endpoints_shared`: two services list one pod; a change of one removes the
  table's only entry for the endpoint.

### Observations without a run

Read off while modelling; the passing properties state what does hold.

- `duration` wraps after 4.29 s (`DurationIsDifference` is modulo the width).
- `docs/http.md:36` and the comments `http.c:204` and `:250` say that only packets
  of the addresses in `filter_ip` are looked at. Every key is 0, because
  `ipv4ToUint32` reads the first four bytes of a 16-byte address, and
  `__check_target_ip` is inverted, so every packet passes. The two mistakes cancel
  out: correcting one alone hides traffic. An endpoint added between
  `WriteFilterIP` and `Registry` is never written to `filter_ip`, and a key is
  deleted with the first of the endpoints of its address; neither has an effect
  while no key has one.
- A request that comes again after its response was filtered, because the response
  was lost behind the bridge, is stored again and, with the response sent again,
  reported a second time; such connections are `overtaken`.
- The filter knows no pipelining: a second request replaces the first. The
  project's `README.md:99` says so, `docs/http.md:25` describes a queue.
- `updateEndpoints` removes endpoints that do not change for a moment.
- Points carry no time (`influxdb.go:42`; `Metric.Ts` is never set), so points
  with equal tags in one batch, as of two equal requests on a connection within
  three seconds, overwrite each other in the database.
- Two services that list one endpoint, or an address that moves between
  services, may leave it without an entry, because the events of two objects are
  handled in any order; `AgreedWhenQuiescent` leaves such endpoints out.
- An address without `TargetRef` makes the agent panic again after every
  restart for as long as it is listed; `Converges` assumes that it goes away.
- `updatePod` leaves the UID of a pod that was replaced under its name
  (`pid2pod.go:95`); only a restart removes it (`GoneOnlyIfReplaced`).
- A pid is never resolved to a pod: the control group's id has `_` where the
  table's has `-` (`pid2pod.go:48`), a container's id is compared with and
  without `containerd://`, and only burstable pods match the pattern. The
  project's `README.md:14` marks the association as unfinished. When it is
  finished, `OomNamesVictim` is what a pid that was used again will break.
- The name in a tcpsynbl report is that of whoever has the pid when the event is
  decoded, or empty.
- Two CPUs that read a queue of one below the limit output nothing and add their
  connections. The queue is then beyond the limit, and the next SYN is dropped
  where no probe is, before there is a warning. `README.md:15` speaks of every
  overflow; `WarnedInTime` says how far the queue gets.
- A socket without `F_SETOWN` or with a backlog of 0 is never reported, although
  `README.md:15` speaks of every overflow; an IPv4 client at an IPv6 socket is
  reported twice.
- A record is resolved when it is decoded, so an access may be put down to a later
  owner of its address (`NeverEarlierOwner` says never to an earlier one).
- RED entries are keyed by pod name without name space (`http.go:48`), and their
  `ServiceName` is the name space (`http.go:58`).

### Fairness

- `PodEvents`: weak fairness of the handler goroutine, the relist, the restart and
  each plugin's decoding; changes, races, processes and events are not fair.
- `Endpoint2Pod`: weak fairness of the handler goroutine, the plugin's start,
  the reflector's relist and the kubelet's restart; all four are retried for as
  long as they can be done. Nothing is assumed of changes, crashes, broken
  watches.
- `MetricPipeline`: weak fairness of goroutines that wait for nothing shared;
  strong fairness where several compete: Go's mutex hands over to a waiter
  that is starved, a select picks at random among its ready cases, blocked
  senders on a channel are served in order. A commit ends (the client has a
  timeout). Events, signals and failures are not fair.
- `RedMetric`: the same for the select; sends end because main goes on
  receiving (`pipeline`).
- `HttpFilter`, `HttpParse`, `Attribution` and `TcpSynBacklog` have safety
  properties only.

## The proofs

The theorems hold for every value of the constants: any number of CPUs,
connections, plugins, services, addresses, pods, names and requests, any
capacity and any bound. They use the `ASSUME`s of the modules that declare the
constants, which TLC evaluates on each instance. Each proof module first gives
lemmas about the operators, then the parts of the inductive invariant, then one
step per action, and last the theorems. The inductive invariants of the pairing
and of both tables were checked with TLC before they were proved.

### Socket filter

| Module | Theorem | States | Assumes besides |
|---|---|---|---|
| `HttpFilterProofs` | `TypeOKHolds` | `TypeOK` | |
| | `MapWellFormedHolds` | `MapWellFormed` | |
| `HttpPairingProofs` | `MatchedPairsHolds` | `MatchedPairs` | `Serial` |
| | `ReportedOnceHolds` | `ReportedOnce` | `Serial` |
| | `DurationIsDifferenceHolds` | `DurationIsDifference` | `Serial` |
| | `PendingIsLatestHolds` | `PendingIsLatest` | `Serial` |
| | `NoSilentLossHolds` | `NoSilentLoss` | `Serial` |
| | `PairsInOneStepHolds` | the refinement `PairsInOneStep` | `Serial` |

The invariants: `FilterInv`: the only key of `filter_ip` is that of 0.0.0.0, so
that a run never returns early and a packet that was filtered was dealt with.
`TypeInv`: types; a run that dereferences holds an element; an element in the map
or held is filled. `MapInv`: a run's packet belongs to its connection, so the key
computed from it is the connection; entries are well formed. `OwnInv`: besides,
with `Serial`, one run per connection, and the pointer of a run is the entry of
its connection, because only a run of the same connection can replace or delete
it; without `Serial` this is false (run `http_matched`). Lemmas state once what each
step does to `run` and to the map (`StepRun`, `StepMap`, ...).

The pairing needs `PairInv`, which is about the order of packets. `WireInv`: no
packet that has passed is later than `high`, and a response exists only after its
request has passed. `RunPair`: unless the connection is overtaken the packet of
its run is the latest one; and what each helper call leaves for the next ones, the
duration computed, the response filled in, the pair output or counted as lost
before the entry is deleted. `ConnInv` has three parts for each connection. The
entry is the latest packet unless a newer request is about to replace it or its
own response is being handled (`EntryPairOK`): this is why a response that comes
in order finds its own request. The records are of requests before the entry
(`OldOK`): this is why none is reported twice. And a request that was filtered is
in the map or told of until a later packet than its response comes by (`SeenOK`),
which `NoSilentLoss` needs. The properties alone are not inductive: they say
nothing of the entry while a run is between two helper calls. The duration wraps
like the clock it was taken from (`ModSub`). The refinement goes action by action:
`Receive` is `Arrive`; an update is `Open`, or `Refuse` at a full map; a lookup
that finds nothing is `Ignore`; output is `Report`, or `Lose` at a full ring
buffer; everything else is a stutter.

### Request line

`HttpParseProofs` proves `TypeOK`, `OnlyUrlBytes`, `NoHole` and `ShortUrlExact`
for URLs and packets of any length (`TypeOKHolds` and so on). The invariant ties
the loop together: while it goes on it has met no end of the URL, so that it
reads from inside the URL (`Reading`), although the offset it reads from and the
one it writes to advance by different steps; and the first turn is the last one
for a URL that ends in it (`FirstChunk`). The six methods and their lengths are
definitions, and a lemma (`MethodFacts`) compares the parser's codes and lengths
with them.

### Endpoint table and attribution

| Theorem | States |
|---|---|
| `TypeOKHolds` | `TypeOK` |
| `NoStaleProviderHolds` | `NoStaleProvider` |
| `AgreedWhenQuiescentHolds` | `AgreedWhenQuiescent` |
| `NeverEarlierOwnerHolds` | `NeverEarlierOwner` |
| `SettledAttributedHolds` | `SettledAttributed` |

The first three are about `Spec`, the others about `AttrSpec`. `Flying(s)` are the
versions of an object the handlers may still be given: the cluster's, the one
handed on last, those queued. `ClaimOK` says that the service is a claimant of
all their endpoints, `StoreOK` that the indexer is ahead of the handlers by the
events queued, `WorkerOK` that all new entries are still to be added as long as
old ones are left to delete. `Resolved` is the heart of the agreement: an entry
handed on, of an endpoint no other service has listed, is in `Providers` or still
to be added. It survives a deletion because only a claimant deletes the
endpoint's entry, and the only claimant still has to add it again. It is also
where two services break the agreement.

A record that waits (`RecordsOK`) has a destination whose bytes lead back to its
endpoint (`LookupFinds`, for every address and port). If every event was handled
at the access, all versions in flight and the table know no pods of the endpoint
but the owners since (`FreshOK`); this is what `NeverEarlierOwner` needs to be
inductive, because the pod that will be found is not in the table yet when the
access is answered. Assumed of the constants besides types: an object lists an
endpoint once, and addresses differ in a byte.

### Pod table and event plugins

`PodEventsProofs` proves `TypeOK`, `CoveredWhenQuiescent`, `GoneOnlyIfReplaced` and
`OomNamesVictim`. A UID belongs to one name for ever (`OneName`), and what is said
of a pod later is the same once it has a node (`InTime`), so that handlers of
different names never touch one entry; with `StoreOK`, `WorkerOK` and `TableOK`, as
for the endpoints, the table is what the handlers know but for the event at hand
and what was replaced. `Name` is assumed to be finite, because a list puts its
objects in an order. For the reports, the name the probe copied travels with the
event (`NamedOK`). That no report blames another's pod follows here from the fact
that no id of the two sides ever matches (`NoPodFound`); it has to be proved anew
when the code resolves pids.

### Pipeline

`MetricPipelineProofs` proves `TypeOK`, `NothingLost`, `InOrder` and
`BoundedDuplicates`. A plugin's events are on a line: database, batch, main,
channel, `Gather`, reader, ring buffer. `LineInv` says that every event made is
either dropped or on the line (`AccountOK`), and that everything in one stage is
older than everything behind it (`OrderOK`), from which each move keeps the order
of the line. `StoredInv` counts the copies of a metric: no more than one plus the
commits that were wrong about their failure, and one less while it is in the
batch.

### Accept queue

`TcpSynBacklogProofs` proves `TypeOK` and `WarnedInTime` for every finite set of
CPUs, every limit and every ring buffer.

`Inv` is types; that a run's copy of the limit is the limit and a run outputs
only for an owner (`ReadInv`); and `RoomInv`: without a warning,
the length of the queue and the number of CPUs past their probe are together
less than the limit and the number of CPUs. `WarnedInTime` alone is not
inductive, because it does not count the connections that were let pass and are
not in the queue yet. A CPU passes its probe without a warning only with a queue
below the limit, and then all CPUs together have room. The
cardinalities of `Passed` before and after a step come from
`FiniteSetTheorems`.

### R.E.D. statistics

`RedMetricProofs` proves `TypeOK`, `CountsConserved` and `DurationWithinMs` for any
response times of 32 bits. `Kept` holds for each pod name on its own: an
entry is its name's, the counters sent and in the map agree with what was
received, and the durations are off by at most a millisecond and what is rounded
per request. `MsFacts` bounds the rounding: half the spacing of the float32 values
at the largest duration is 128 ns, at its quotient 244 ns.
`TypeOK` needs the counts, because an entry is bounded by what was received.

### Only model-checked

The liveness properties `Converges`, `PodsConverge`, `EventReported`,
`EventuallyStored`, `SignalStops` and `ReportedEventually`: the prover has no rules
for fairness.

## Not modelled

- The settings: they are read while the agent starts; what the file watcher
  writes into them later is read by nobody.
- `Unload` and the stopper channels: nothing in the agent closes a reader or
  sends on a stopper.
- Logging, formatting, the float arithmetic of the rates, the fields `pages`,
  `message` and the trigger of an OOM event, which are copied.
- The headers in `ebpf/include` (`vmlinux.h`, `bpf_helper_defs.h` and the other
  headers of libbpf): 117,000 lines of vendored declarations of the kernel's
  types and helpers, which have no behaviour to model. They are nearly all the
  lines of C in the repository; of the three eBPF programs nothing that changes
  state is left out.
- Generated loaders, dashboards, scripts.

## Plan

1. Done: `HttpFilter` with its first theorems, `HttpParse`, `Endpoint2Pod`,
   `MetricPipeline`, `RedMetric`; then `Pairing` and its refinement,
   `Attribution`, `Pid2Pod`, `PodEvents`, `TcpSynBacklog` with its theorems.
2. Done: theorems for every safety property of a passing run and for the
   refinement.
3. A clock in `RedMetric` for the length of a window that was served late.
4. `Converges` and `PodsConverge` for more changes and services than one run can
   check, by their ranking: the events queued, then the entries left to write.
