# TLA+ models of the FONVPN tunnel

This directory holds TLA+ specifications of the part of the app that carries the
traffic of a VPN session: the packet tunnel extension (`src/PacketTunnel`), the
interface that hands packets to tun2socks (`src/PacketProcessor/TunnelInterface.m`) and
tun2socks itself (`src/PacketProcessor/tun2socks-iOS`, BadVPN on lwIP). Each module names
the functions it stands for; `PROJECT.json` gives the lines of every definition.

In the paths below, `t2s/` is `src/PacketProcessor/tun2socks-iOS/`.

## 1. Inventory

How a packet travels:

    system -> packetFlow -> TunnelInterface --TCP--> pipe -> BTap -> lwIP -> tcp_client
                                 |                                             |
                                 +--UDP--> GCDAsyncUdpSocket          BSocksClient -> BConnection
                                                                               |
                                                     local SOCKS port of overtls / Shadowsocks

Four kinds of thread take part: the queue of the extension, GCD queues of the UDP
socket, threads of the proxies, and the one thread of tun2socks, which runs a reactor.
On that thread nothing is preempted, yet callbacks run inside callbacks
(`SYNC_COMMIT`), and any handler may free objects that others still hold.

| Component (source) | State | Operations | Interacts by |
|---|---|---|---|
| TCP client relay (`t2s/tun2socks/tun2socks.c`) | `struct tcp_client`: two closed flags, `buf`, `socks_recv_buf` and three counters, the pcb | accept, recv, sent and err callbacks; SOCKS events; send and receive done; murder | callbacks of lwIP, jobs of the reactor, `BSocksClient` |
| lwIP TCP (`t2s/lwip`) | `tcp_pcb`: state, callbacks, window, queues | `tcp_input`, `tcp_write`, `tcp_recved`, `tcp_close`, `tcp_abort` | calls the relay, is called by it while it does |
| SOCKS client (`t2s/socksclient/BSocksClient.c`) | `state`, the I/O objects, one reallocated buffer, the receive counts | Init, Free, connector, send, receive and connection handlers | `BConnector`, `BConnection`, reports to the relay, which frees it in the handler |
| Connections on the reactor (`t2s/system/BConnection_unix.c`, `BReactor_badvpn.c`) | `wait_events`, busy states, limits, `kevent_results`, back pointers | start, try, wait, finish an operation; dispatch; remove a descriptor | kqueue; jobs |
| Loop of the reactor (`t2s/base/BPending.c`, `BReactor_badvpn.c`, `BTime.c`) | a linked list threaded through the jobs; a tree of timers, a list of those that have expired; the events of one `kevent()` | Init, Set, Unset, Free, ExecuteJob, Synchronize; set and remove timers; Exec, Quit | all of the above |
| Tunnel pipe (`TunnelInterface.m`, `t2s/tuntap/BTap.m`) | a pipe with frames of a length and a packet | blocking write, two non-blocking reads | two threads |
| UDP relay (`TunnelInterface.m`) | `_udpSession`, a dictionary behind a concurrent queue | send, remember the sender, answer | four queues |
| Packet tunnel provider (`PacketTunnelProvider.m`, `ProxyManager.m`) | two stored completions, ports, an observer | start, wait for two proxies, apply settings, stop from three sides, end | threads of the proxies, the system, a notification from tun2socks |
| Fair queue (`t2s/flow/PacketPassFairQueue.c`) | virtual times of flows, a tree of the queued ones | Init and Free of a flow, send, schedule, done | one output shared by the flows of the gateway's client and of its server |
| UDP gateway client (`t2s/udpgw_client/UdpGwClient.c`, `SocksUdpGwClient.c`) | connections by number, the least recently used first; buffers; a connector; the SOCKS client | submit, receive, keepalive, connect and disconnect, reconnect timer | dormant: the app configures no gateway (`tun2socks.c:552`) |
| UDP gateway server (`t2s/udpgw/udpgw.c`) | clients, their connections with sockets and queue flows, those that wait to be freed | accept, receive, answer, close, free | compiled in, called by nothing in the app |
| VPN manager and services of the app (`src/MainApp`) | system preferences, requests | start and stop the tunnel, web service, pings | NetworkExtension, HTTP |
| Vendored: Privoxy, pcre (`src/Library`), overtls (a submodule) | | | called once to start, once to stop |

What is hard to get right here, and what makes each component correct:

- **Relay.** Either side may close first, at any time, with data on its way to the other;
  lwIP keeps a block after `tcp_close`; a callback that runs jobs may find its client
  freed; the flow control of three parties (window, buffer, send queue) must fit together.
  Correct: no callback into a freed client, no refused segment, counters that agree with
  lwIP's, both byte streams in order, nothing forgotten, every half-closed client freed.
- **SOCKS client.** Answers in pieces, I/O objects that change hands twice, a `Free` that
  goes by the state alone, sizes that come from the server. Correct: I/O as the state says,
  messages within the buffer, UP only when earned, not one byte of the stream consumed.
- **Connections.** Events that were returned before their descriptor was removed; jobs before
  events; a limit that keeps one connection from starving the others. Correct: a busy
  operation is registered, no event of a removed descriptor is dispatched, a turn ends.
- **Loop of the reactor.** Nested loops and intrusive lists; timers that are set again or
  removed while they wait to be dispatched; a clock that is put forward and back. Correct:
  list well formed, marks nested, `SYNC_COMMIT` runs what the callback has set, all of it and
  nothing else; no timer early or lost while the clock is left alone, and each one fires.
- **Pipe.** Partial writes of one side against the reads of the other. Correct: frames
  intact, no false error.
- **UDP.** Entry made later than the datagram is sent, on another thread. Correct: an
  answer reaches its asker.
- **Fair queue.** Times that would overflow and are moved back while a tree is ordered by
  them; idle flows with old times. Correct: no flow ahead of another by more than a packet
  unless it came back with an old time, the order kept, no flow left waiting.
- **UDP gateway.** Numbers given to other addresses while packets under them are in buffers, on
  the link and being sent; a link that either end loses first. Correct: both ends agree whose
  a number is, a packet outlives its connection, the link comes back and buffers drain.
- **Provider.** Flags set by foreign threads and cleared during set-up; completions that
  are owed. Correct: each start and each stop answered, a tunnel that can be ended.

`PROJECT.json` lists 40 hazards at their lines, with the properties that watch over each.

## 2. Plan

Order of work, the most important behaviour first:

1. `LwipPcb`, `TcpClient` with `ByteChannel`: the relay and its promise. *Done; all its
   safety properties and the refinement proved.*
2. `BSocksClient` with `SocksSession`: the handshake and its promise. *Done; safety and
   refinement proved.*
3. `BPending` and on it `Reactor`: jobs, the nested loop, timers and the outer loop. *Done;
   safety proved.*
4. `TunnelPipe` and `TunnelUdp`, composed by `TunnelInterface`; `TunnelProvider`: the
   extension around tun2socks. *Done; safety of all three proved.*
5. `BConnection`: connections, limits and events on the reactor. *Done; safety proved.*
6. `PacketPassFairQueue`: the queue of the gateway. *Done; safety proved.*
7. `UdpGwClient` and `UdpGwServer`, composed by `Gateway`: both programs and the links
   between them. *Done; safety proved.*
8. What a next step would take up: the path observer of the provider; the framing of
   `PacketProtoDecoder`; what the gateway promises as an abstract specification, and that it
   is implemented.

Composition: `TcpClient` extends `LwipPcb` (a pcb is a value, its functions operators) and
instantiates `ByteChannel` twice; `BSocksClient` instantiates `SocksSession`. `Reactor`
extends `BPending` by the outer loop, `TunnelInterface` joins `TunnelPipe` and `TunnelUdp` by
the one queue that feeds them both, and `Gateway` joins `UdpGwClient` and `UdpGwServer` by
links that fail. The relay
sees its SOCKS client as phases and operations, which is what `SocksSession` and the
`OneOperation` and `BusyIsArmed` parts of `Operations` of `BConnection` promise; it sees the job queue
as "jobs set by the callback run before it returns", which is what `SyncRunsAll` and
`WellNested` of `Reactor` promise. The gateway sees its fair queues as "any flow that has a
packet may be next", which `PacketPassFairQueue` refines by an order.

## 3. Modules and how they correspond to the code

Definitions carry the names of the functions they model. Operators whose name ends in a
word after an underscore that is no function of the code (`tcp_recved_Whole`) are faulty
variants: each stands for a plausible bug, and a property is only kept if one of them
breaks it. No specification uses them.

**`LwipPcb`** - a pcb as a record: state, which callbacks are installed, receive window,
bytes queued and not acknowledged, and `acked`, the number of them the last ACK was for, which
stays in the block until another ACK is looked at. `tcp_close`, `tcp_abort`, `tcp_recved`,
`tcp_write`, `tcp_receive` map a pcb to a pcb. The states after a close are one, `CLOSING`: the block is
alive, but not the application's. Sequence numbers, retransmission and timers are left out;
`TcpInput` may deliver any segment that fits the window, in order.

**`TcpClient`** - one client at a time; a closed one is followed by another in the same
memory, which keeps old values in the fields that `listener_accept_func` does not set. Bytes
are numbered, so that order and loss are visible. `frame` is the lwIP callback suspended
in `SYNC_COMMIT`, `killed` its dead variable, `input` the callbacks that lwIP still owes for
the segment. Jobs (`"job"`) run inside a frame, operations that wait for a descriptor
(`"wait"`) only when the reactor is quiet. A write may take any part of the buffer, a read
may deliver any amount; `tcp_write` may queue nothing, `tcp_close` may fail, the peer may
reset, and an accepted connection may find no memory for a client (`listener_accept_func_fails`
stands for each of the three ways to `ERR_MEM`).
A segment whose ACK lwIP does not look at - a reset out of the window, a SYN, a segment without
ACK - makes it report the last acknowledgement again (`TcpInputNoAck`); `repeated` is history:
the bytes reported so. `terminate` may come at any time; what follows is `client_murder`.

**`ByteChannel`** - what a direction promises: bytes in order, without gap or repetition, a
bounded queue, open then draining then closed. `UpwardChannel` and `DownwardChannel` are
refinements of it under the mappings at the end of `TcpClient`.

**`BSocksClient`** - the handshake by message lengths: the content of a message is its
length and, for answers, what they grant. Sending is `PacketStreamSender`, which sends in
pieces; receiving counts as `recv_handler_done` does. `con` says which I/O objects exist;
`"broken"` would be a free of objects that do not. Errors: no memory, no connection, refused
methods, refused requests, a lost connection. The owner may free the client between any
two handlers, which is what `BSocksClient_Free` is.

**`SocksSession`** - what the owner is promised: opened, then up or failed, each reported
once; nothing after a failure or a free.

**`BPending`** - the list of jobs as a sequence, handlers as a stack of frames. A handler may
set, unset, free and synchronise in any order; `Synchronize` is the nested loop.
`since` is history: the jobs set since the mark and not run.

**`Reactor`** - `BReactor_Exec` and `wait_for_events` around it: jobs, then timers that have
expired, then events, then sleep. `left` is what the clock says is left to a timer, `really`
what is left by real time; `Adjust` puts the clock forward or back, since `BTime.c` asks for
the monotonic clock and reads `CALENDAR_CLOCK` (`BTime.h:95` warns that timers will be
confused by clock changes). A sleep may be interrupted, return events early, or run out its
timeout, after which `move_first_timers` does not look at the clock again. Any handler may
set or remove any timer, also one that waits to be dispatched. Which descriptor an event is
for is the matter of `BConnection`.

**`TunnelPipe`** - bytes of frames in a bounded pipe. A frame longer than `PIPE_BUF` is
written in parts when there is no room for all of it; the reader asks for two bytes, then for
the length it has read. A reader that has lost its place may read any length.

**`TunnelUdp`** - the dictionary, the blocks on its queue, the delegate that waits in
`dispatch_sync`, the main queue.

**`TunnelInterface`** - `processPackets` as a whole: it reads a batch, handles one packet
after the other on one queue, by `TunnelPipe` or by `TunnelUdp`, and asks for the next batch
when it is through. A write that blocks on the full pipe holds up the UDP packets behind it.

**`TunnelProvider`** - how far the start has come, which proxy is awaited, what each thread
that stops the tunnel has still to do (`stopper`: keep the completion, set `quitting`, set
`exiting`), and how far `tun2socks_main` has come. The steps of `terminate` are separate
because they run on a foreign thread; so are the places where `tun2socks_main` clears the
same flags. Starting the thread of tun2socks (`SettingsApplied`) and calling the completion of
the start (`StartCompletion`) are two steps, since that thread may run, and even end the process,
between them.

**`BConnection`** - descriptors of connectors and connections, the filters registered with
the kernel, the array one `kevent()` has returned with the position in it, the back pointer
of each descriptor, the pending jobs, the operation in each direction and the count of its
limit. `DeviceHandler` stands for the handlers of all other descriptors: it may open a
connection, free one, or start operations. An event of kqueue is one filter (`READ` or
`WRITE`), so the branches of `connection_fd_handler` for errors and hang-ups cannot be
reached in the app's build (`BADVPN_USE_KEVENT`) and are left out, together with `recv.job`,
which only they set.

**`PacketPassFairQueue`** - flows that come and go, their virtual times, the packet the output
has, the job that schedules the next. Unsigned times wrap at `Word`, as `subtract_flow_times`
and the sum of a time and a packet do; the tree of the queued flows is a set ordered by time,
ties by an arbitrary choice (the code takes addresses). Freeing a queue and its flows in one
go is `PrepareFree`. Cancelling is left out: no caller enables it.

**`UdpGwClient`** - connections in the order of use, each a number, a pair of addresses and a
buffer; the flow whose packet the connector has; the state of the SOCKS client. The first
packet of a connection is sent by a job that `connection_init` sets and that runs before
anything else, jobs being last in, first out, so it is part of that operation. `lost` is
history: a packet with `REBIND` has been dropped for want of buffer.

**`UdpGwServer`** - clients with their connections, the connections that wait for their packet
to be sent, the answer that is being sent. `asked` is history: the pairs of addresses a socket
has sent for. The branch without `BADVPN_SOCKS_UDP_RELAY` is modelled, which is defined
nowhere. Left out: failures of `malloc`, the array of local ports (off by default), the
replacement of DNS addresses.

**`Gateway`** - both with the links between them: a link carries packets in order, fails at
any time, and each end hears of it on its own, so that the client may open the next link while
the server still has the last one. The framing of packets on the stream (`PacketProto`) is not
modelled: a packet is one element. An answer of an old connection that is on its way when its
number goes to another local endpoint with the same remote one is taken for an answer to the
new one; the protocol cannot tell them apart, so no property says that it is not.

`MC...` modules extend a module and define what its configuration needs.

## 4. Runs

Passing runs:

| Run | Shows | Bounds |
|---|---|---|
| `tcp_client` | ownership of the pcb, flow control, no forgotten operation, no overtaken data, both channels, every half-closed client freed | buffers of 2, 2 and 3 bytes; 3 bytes from the application and 4 from the server per connection, 2 bytes reported again; any number of connections |
| `socks_client` | I/O matches the state, messages fit, UP is earned, nothing of the stream lost; implements the session; ends | five lists of methods: none, one, two, an empty name, a password too long |
| `reactor` | list, marks, synchronisation; no timer early, late or lost but for changes of the clock; timers fire | two jobs, two marks, three handlers inside each other, two timers of 1 and 2 ticks, one event per call, the clock put forward and back by 1 |
| `tunnel_interface` | frames intact and all received while no write is split; answers go to the last sender known and are written; the loop goes on | seven packets, four of them TCP of 1 to 3 bytes, in batches of up to 3, a pipe of 6, `PIPE_BUF` 3, two local and two remote endpoints, two answers |
| `provider` | every start and stop answered, a stop that reaches the reactor ends the tunnel, no tunnel unheard | two stops from the app, one from the system |
| `connection` | no operation forgotten or left over, removed events cleared, limits, turns end | two connections and the device, limit 2 (as in the code), three events per call |
| `fair_queue` | no wrong wrap, flows at most a packet apart (but for one with a time from before the queue was idle), the order kept, no flow left waiting | three flows, packets of 0 and 1 byte, packet weight 1, a greatest time of 5, words of 8 values |
| `gateway` | one connection per number and per pair of addresses, both ends agree whose a number is, packets outlive connections, the link comes back, buffers drain | three pairs of addresses, two numbers, one place at the server for one client with one connection, buffers and links of one packet, three datagrams, one answer, two failures |

Why the bounds are enough. In `tcp_client` a receive buffer larger than the send buffer
forces partial queueing, four bytes from the server make two reads whose data is in flight at
once, and three bytes from the application fill its window and reopen it; the code's
behaviour depends on "empty, partly full, full", which all occur, and the main invariants
are proved for all sizes. In `socks_client` the messages have their real lengths. Two
jobs and two marks give every relative order of a job and two nested marks, two timers of
different length one that expires while the other runs, waits or is set again. The pipe holds
two or three frames at most, so each relative place of reader and writer occurs, frames above and
below `PIPE_BUF` among them. For `connection`, two clients are one to be freed by the
handler of the other, and three results hold both events of one and one of the other. In
`fair_queue` the times are moved back after every few packets, and three flows are one that
sends, one that is queued and one that is idle. In `gateway` three pairs of addresses for two
numbers reuse a number, two of them have the same remote address, and one place at the
server means that the old connection must give way and the old link be gone. Two bytes
reported again are one full send buffer, or one byte twice. The sizes in the
app are `TCP_WND` 4096, `TCP_SND_BUF` 8192, a receive buffer of 2048, MTU 1500, 64 results of
one `kevent()`; the gateway has 256 connections with 8 packets each at the client, 3 clients
and a buffer of one packet at the server.

The type invariant of a module is an invariant of a run where it says more than types (the
times of `fair_queue` wrap); those of `TcpClient`, `BSocksClient`, `TunnelProvider`, `Reactor`
and `BConnection` are proved. Some properties are conjunctions of parts that belong together and have a theorem or a
faulty variant each: `Channels` both directions of the relay, `Operations` what a connection,
its jobs and the kernel hold of an operation, `WellNested` list, marks and what lies between.

Runs that end in a violation, each of one property that the code, or a comment, states and
the program does not keep (section 7): `tcp_client_repeated`, `tcp_client_abrt`, `pipe_error`,
`connection_stale`.

`CHECK_DEADLOCK FALSE` is given where the system really may come to rest: the provider's
process ends, and `connection` stops at a
stale dispatch, after which the code's behaviour is undefined.

## 5. Fairness

- `TcpClient`: the reactor runs pending jobs and finishes callbacks, and takes down clients
  after its loop (weak fairness). Of the peers it is assumed that a handshake that may go
  on does, that a busy send ends or fails and that data in flight is acknowledged or the
  connection reset (strong fairness: these are retried and timed out by kernels, while
  other events may come between). Nothing is assumed of reads: a server need not answer.
- `BSocksClient`: handlers that are owed run, and the server goes on answering. The code has
  no time limit of its own, so without this nothing could be promised; a hazard says so.
- `BConnection`: jobs run and returned events are dispatched. Nothing is assumed of
  `kevent()`.
- `Reactor`: time passes, the loop goes on while there is anything to do, and a timeout that
  has run out ends the sleep. Nothing is assumed of events or of the handlers' choices;
  `TimersFire` supposes that handlers come to an end with their jobs.
- `TunnelInterface`: the queue of `processPackets`, the thread of tun2socks, the concurrent
  queue and the main queue run; the system completes a read that is asked for while it has
  packets.
- `PacketPassFairQueue`: the output reports that a packet has been sent, and the scheduling
  job runs. Nothing is assumed of who sends.
- `Gateway`: both programs send, receive and schedule; the reconnect timer runs out, a link
  that is gone is noticed at both ends (the server's disconnect timer sees to it), and a
  connection that can be made is. Nothing is assumed of applications and remote hosts, and
  the network stops failing only because failures are bounded.
- `TunnelProvider`: threads run, `dispatch_group_wait` keeps its time limit, the system
  answers `setTunnelNetworkSettings`. A proxy need never call back; nobody need ask to stop.

## 6. Proofs

All proofs hold for every value of the constants, under the assumptions named in the
modules (sizes are positive naturals; method lists and traffic are sequences of what they
consist of; `Assertions` is a Boolean; the output's MTU fits the times of the fair queue; jobs,
marks and the event of the loop are different things). Every invariant, every action property
and every refinement that a passing run checks is proved.

**`TcpClient_proofs`**: `TypeOK`, `PcbOwned`, `WindowFits`, `PendingIsUnacked`. None is
inductive. `WindowFits` needs that the callback lwIP is about to make is for a client that
is there (`JobsInFrame`); `PendingIsUnacked` needs that the sent callback is installed when
SOCKS comes up and nothing is queued before (`SentInstalled`); that needs `socks_up` to
follow the phase of the SOCKS client (`SocksOwned`); and type correctness of the
counters needs that a read has room (`RecvBufBounded`). `IInv` is their conjunction. The
proof has one lemma per action; `client_socks_recv_send_out`, used by two of them, has a
lemma of its own on what it does to the counters (`SendOutEffect`).

It goes on with `NoForgottenWork`, `NoLimbo`, `DrainComplete`. On top of `IInv` the first two
are inductive together (`WInv`, with `ReadInProgress` apart): a side that is closed leaves the
other with something that will wake it, and that is what no handler may take away.
`DrainComplete` follows from the counters of `PendingIsUnacked` at the one step that closes
after draining. `PendingIsUnacked` is proved with the error in it: the counter is what is not
acknowledged less `repeated`, so that it is exact while that is 0. What of the other three
rests on the counter is proved for that case, and does not hold after a repeated report
(section 7); the rest of them, and the refinement below, holds in either case. Most actions
leave what is in flight or about to be reported as it is (`FlightKept`), which settles that part.

The last part is the refinement: every behaviour of the relay is one of `ByteChannel` in both
directions, for all buffer sizes. `CInv` adds what the counters of bytes stand for
(`UpCounted`: read from the application = passed to SOCKS and held in `buf`; `DownCounted`
likewise). Most steps do no more to a direction than to close an end (`UpEnds`, `DownEnds`);
the others, receive, send done, receive done and sent, move bytes, and `SendOutChannels` is
the loop that hands them to `tcp_write`.

**`BSocksClient_proofs`**: the type invariant, the four safety invariants, and that every
behaviour is one of `SocksSession`. `IInv` adds to the checked invariants where in the
server's answers each state stands (`Counted`: bytes read and bytes answered differ by what
is still awaited) and what has been granted by then (`Earned`). The refinement goes by the
actions: `connector_handler`, sends and partial answers stutter or fail, the last answer
is `Up`, `connection_handler` is `Fail` or `Closed`.

**`TunnelProvider_proofs`**: the type invariant, `TunnelIsWatched`, `StopIsAnswered`. The
argument is the order of the steps: a stopping thread has left a suffix of its list
(`StepsInOrder`), the system's completion is kept before its stop takes effect and called
when tun2socks has ended (`Kept`), tun2socks runs only in a tunnel that is up, a tunnel that is
up has its observer (`Heard`), and the start completion is called at most once (`StartOnce`).

**`TunnelInterface_proofs`**: `AnswerToLastSender`, for any endpoints, traffic, batches and
sizes of the pipe. What a lookup is going to find is not in `_udpSession` yet but in the blocks
before it, so the invariant says of every lookup in the queue, and of the newest entry of every
remote endpoint, what it is going to find (`WillSuit`), and the proof shows that running
the first block, adding one, or sending a datagram keeps it. `FramesIntact`, for any lengths of
packets and any `PIPE_BUF`: `PipeInv` says of every byte in the pipe that its frame goes on
behind it to the end, where the next one begins (`GoesOn`), and where in the frame the reader
stands. That has to be said of every byte since the reader takes the header before the rest;
lemmas show that taking bytes from the front (`FramedSuffix`) and adding a whole frame
(`FramedAppend`) keep it, so that both reads find all they ask for.

**`PacketPassFairQueue_proofs`**: `TypeOK` (no time exceeds the maximum, whatever wraps on the
way), `LeastFirst`, `LagBounded`, `OrderKept`, for any number of flows, MTU, weight and
width of the words. `LagBounded` exempts stale flows, those that still have a time from before
the queue was last idle: the code lets such a flow be further ahead. `IInv` adds that the flow that sends is due before those in the tree
(`Chosen`), that something is under way while a flow is queued (`Conserving`), and
that no flow but a stale one is more than a packet ahead of the current time (`Fresh`).

**`Reactor_proofs`**: the type invariant, `WellNested`, `SyncRunsAll`, `TimersKeepTime`, for any
jobs, marks, depth, timers and changes of the clock. All that matters of the list of jobs is
what is in it and what stands before what, so a first part says how prepending, removing and
taking the head change these two (`WithFirst`, `LessOne`), and the rest never looks at a
position. `QInv`: every frame but the innermost waits in `BReactor_Synchronize` for its mark
(`Waits`), and the list and the frames agree on marks, their order and what has been set since
(`Marking`). It follows that there is always a mark to find, so that `Synchronize` has a job to
run, and that nothing stands before the mark when it returns. `TInv` relates three clocks: what
is left to a timer by the calendar, by real time, and of the timeout of `kevent()`; they differ
by no more than the clock has been put forward and back (`KeptTime`, `SleepsRight`,
`ExpiredRight`).

**`BConnection_proofs`**: the type invariant, `Operations`, `RemovedIsCleared`, `EventIsHeeded`,
for any number of descriptors, results of `kevent()` and limit. The functions of the module are
called by jobs and by the handlers of events, and one after the other within these, so the
invariant is two predicates of a list of jobs and a place in the results (`Good`, `Events`),
and each function is shown once to bring the next state to them. `Good`: a direction with a job is
not busy and has one job only (`OneJob`), the kernel has been asked about exactly what is busy
(`Armed`). `Events`: a descriptor points to an event of its own still to come, and to the only
one if there is one (`Pointed`), which is why removing it clears that event; what an event to
come is for still waits and has not been tried in this turn (`Untried`), which is why no limit
forbids it.

**`Gateway_proofs`**: `NumbersDistinct`, `PacketOutlivesConnection` and `SocketsOwned`, for any
addresses, numbers of connections and clients, sizes of buffers and links. For the client the invariant adds
that the flow that sends has a packet (`SendingHasPacket`), without which the buffer that is
shortened when it is done might be empty; lemmas on lists say that what is moved to the end
or added keeps its number to itself. For the server `OneBusy` says that at most one connection
is busy, that it is either in the list or waiting to be freed and never both, and that the
packet being sent is the first of its buffer; every operation on a client keeps it
(`CloseGood`, `InitGood`, `MovedGood`, ...). Server and client meet in `LinkInv`: what is on
the way up has been sent by the client.

`SocketsOwned` spans both programs and what is on the way between them. Of the packets of one
number in a buffer or on a link four things matter: which pairs of addresses they name before
the number changes hands (`Before`), which since it last has (`After`), whether it does
(`Rebinds`), and that the pair changes with a `REBIND` only (`Steady`); lemmas say what adding a
packet and taking the first do to the four. `Owned`, inductive as long as no `REBIND` has been
dropped, says that a socket has sent for one pair and that what is on its way names the same
until it closes the socket (`Own`); that the buffer of each connection goes on where the link
ends and ends with the pair the connection has (`Ready`, `Fits`); and that a socket which is not
about to be closed has a connection whose buffer goes on with its pair (`Matches`). A packet
that the client sends goes from the front of a buffer to the end of the link and changes
nothing of this (`SentCarries`); a packet the server reads finds its own socket, whose pair is
the packet's, or opens one (`ReceiveSockets`); when the link is lost, what was on it is
forgotten on one side only, which is why the claim about sockets of other clients is about
their own link alone.

Only model-checked, being out of the prover's reach: all liveness properties (`HalfClosedIsFreed`,
`HandshakeEnds`, `TimersFire`, `AllReceived`, `LoopGoesOn`, `AnswersAreWritten`,
`StartIsAnswered`, `StopEndsTunnel`, `TurnEnds`, `NoStarvation`, `LinkComesBack`,
`BuffersDrain`), since they rest on fairness and ENABLED. Two more
limits shape the modules: induction over data cannot be used, so what folds over a list
compute is not proved, and no module that is proved about declares a RECURSIVE operator.

## 7. Findings

- **ERR_ABRT after an orderly close** (`tcp_client_abrt`). `listener_accept_func`, when a job run
  by its `SYNC_COMMIT` finds the SOCKS connection failed (the trace of the run), and likewise
  `client_recv_func` and `client_sent_func`, return `ERR_ABRT` after `client_free_client`, which
  normally ends in `tcp_close`. lwIP asks that it be returned after `tcp_abort` only; it drops the rest of
  the segment of a block that is alive.
- **An acknowledgement reported twice** (`tcp_client_repeated`). `tcp_input` calls the sent
  callback whenever `pcb->acked` is above 0, but only the code that looks at an ACK sets it. After
  a segment that is left before that (a reset out of the window, a SYN, no ACK) the old value is
  reported again, against `ASSERT(len <= client->socks_recv_tcp_pending)`, which only prints.
  The counter is then too low for the rest of the connection: a client may wait for a sent
  callback that never comes, one whose SOCKS side is gone may never be freed, or be closed
  before its data is acknowledged. `NoForgottenWork`, `NoLimbo`, `DrainComplete` and
  `HalfClosedIsFreed` say which parts are without that only while `repeated = 0`.
- **A full pipe ends the tunnel** (`pipe_error`). The reader takes a second read shorter
  than the frame as a device error, yet a blocked writer leaves just that.
- **Two events, one pointer** (`connection_stale`). A connection that waits to send and to
  receive gets two events from one `kevent()`; its descriptor remembers the place of one. If
  the handler of the first frees the connection, the reactor dispatches the second, against
  `ASSERT(bfd->active)`. `RemovedIsCleared` states what does hold: every other
  event of a removed descriptor is cleared.

Met on the way, without a run of its own: a profile without password calls the completion of
the start with port 0 and no error (`ProxyManager.m:163`), against
`NSAssert(self->_socksProxyPort > 0)` (`PacketTunnelProvider.m:190`); a Debug build ends with an
exception, which is how the run `provider` has it, and a Release build, which leaves the
assertion out, starts tun2socks with port 0.

Likewise, the timers go by the calendar's clock although
`BTime.c` asks for the monotonic one, so that a timer fires early by what the clock is put
forward and late by what it is put back; `TimersKeepTime` is stated with these two terms.

## 8. Not modelled, and why

- Hazards without a property, noted in `PROJECT.json`: a stop before `BReactor_Init` is
  lost (nothing in the source promises otherwise, so `StopEndsTunnel` is stated for the
  time after it); the race for `_pendingStopCompletion` in the last moment of the process;
  a profile without password; `_lastPath`; the growth of `_udpSession`; a server that never answers the handshake.
- `BListener`, `BDatagram`, signals, other polling back ends: not in the app's build
  or used by the gateway's server only, where they are a step of the network.
- Of the gateway: failures of `malloc`, the framing of `PacketProtoDecoder`, the array of local
  ports, DNS addresses.
- Lists and trees of `t2s/structure`: macros with assertions of their own; sequences and sets
  stand for them.
- Segments, retransmission, IP, pbufs: vendored lwIP, whose behaviour towards the relay is
  the environment of `TcpClient`. Privoxy, pcre and overtls: vendored, seen as the callbacks
  of the proxies.
- Configuration files, resolver and reachability checks: single calls without state.
- The app: user interface, web service, purchases, pings; the VPN manager, whose state is
  what NetworkExtension reports and saves, and that is not in the source.
- Most of the repository's lines are vendored code that the tunnel only starts (Privoxy, pcre,
  the rest of lwIP, generated headers), so that the share of lines the modules stand for is
  small although the tunnel's own logic is covered.
