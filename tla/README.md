# Verification of the user-space TCP/IP stack

TLA+ specifications of the stack in `src/tcp_ip_stack/`, TLC configurations that
model-check them, and TLAPS proofs of the results that hold for every size. All
line numbers below refer to files of `src/tcp_ip_stack/` unless another directory is
named.

## 1. The system

One DPDK *lcore* runs the whole stack in a polling loop (`l2fwd_main_loop`,
main.c): take packets from the card (`etherin.c`, `ip.c`, `tcp_in.c`), tick the
timers (`timer.c`), take messages of the applications
(`check_socket_out_queue`, socket_interface.c), push one packet towards the card
(`CheckEtherOutRing`, etherout.c). Applications run on other lcores and threads
and call the socket interface; the command line server is a thread of its own.
The stack and the applications share the tcb table, the rings and message pool,
and per tcb a mutex with a condition variable.

| Component | State | Operations | Talks to | What makes it correct |
|---|---|---|---|---|
| Send window and timer (`tcp_windows.c`, `tcp_out.c`, `timer.c`) | `next_seq`, list of unacknowledged pairs, `Last`, `rto_timer` | `sendtcpdata`, `PushDataToSendWindow`, `AdjustSendWindow`, `DoRtoTimer`, `GetFirstUnAckedPacket` | network, socket rings, IP output | no byte released before the peer has it; timer on exactly while data is outstanding; asserts hold; everything is delivered in the end |
| Receive window (`tcp_windows.c`, `tcp_states.c`) | list of out-of-order pairs, `CurrentSequenceNumber`, `ack`, `need_ack_now` | `PushData`, `AdjustPair`, `PushDataInQueue`, `GetData` | network, ring to the socket | the application reads the peer's stream; what is acknowledged was received; asserts hold |
| Listen queue and accept (`tcp_states.c`, `socket_interface.c`) | ring of slots, front, rare, `WaitingOnAccept`, condition variable | `tcp_listen`, `tcp_syn_rcv`, `socket_accept` | lcore with application threads | accepted once and in order; no accept ahead of the handshakes while wakeups are signals; a signalled thread finds a connection |
| Tcb table and states (`tcp_tcb.c`, `tcp_states.c`, `tcp_in.c`) | `tcbs`, `Ntcb`, `IdentifierCount`, ring names, state of each tcb | `alloc_tcb`, `findtcb`, `get_tcb_by_identifier`, `remove_tcb`, the handlers `tcpswitch[]` | all threads | unique and stable identifiers; one tcb per connection; freed only after the FIN |
| IP and Ethernet output (`ip.c`, `etherout.c`, `main.c`) | ring to Ethernet, packet pool and reference counts, header bits `udata64` | `ip_out`, `EnqueueMBuf`, `CheckEtherOutRing`, `ether_out`, `send_packet_out` | send window, ARP list, card | reference counts exact; each header once per frame; packets go back to the pool |
| Socket message rings (`socket_interface.c`) | shared message pool, two rings per tcb, `need_ack_now` | `socket_send`, `socket_close`, `socket_read`, `check_socket_out_queue`, `PushDataInQueue` | application threads with lcore | no message lost to the pool; the answer leaves in order and to its end |
| Download server (`sample_program/.../filedownloadserver.c`) | a thread per connection | `sample1`, `DoRespond`, `respond` | socket interface | a send that fails is repeated; the answer ends with the FIN |
| Active open (`socket_interface.c`, `tcp_states.c`, `tcp_out.c`) | ports, addresses, `SrcPorts`, condition variable | `socket_connect`, `sendsyn`, `tcp_syn_sent` | application threads with lcore | SYN carries the right ports; distinct source ports; the caller is woken |
| ARP and interfaces (`arp.c`, `ether.c`, `etherin.c`) | ARP list, interface list | `add_mac`, `get_mac`, `arp_in`, `send_arp`, `send_arp_reply`, `AddInterface` | lcore with CLI thread | what was learned stays known; what was configured is hosted |
| Command line server (`cli_server.c`) | connection, `client_message` | `cli_server_init`, `perform_command`, `add_ip`, `show_arps` | ARP list, interfaces, client | the command that was typed is the one performed; each is answered |
| Counters, logger, debug | counters, log | - | - | output only |
| Ports and `main` | DPDK set-up | initialisation | - | external library |
| Test programs | - | clients of the socket interface | - | show how the interface is called |
| Bridge copy (`src/tcp_ip_bridge/`) | tcb table, one slot for the next connection, list and array of received data | as above, older; `AddData`, `socket_read_nonblock`, `DoWork` | peers, threads of its example server | each connection accepted once; numbers without holes; data in order |
| Stand-alone CLI (`src/cli/`) | - | kernel sockets | command line server | client.c types the commands |

What is hard here: two threads inside `alloc_tcb`; a pointer from a look-up used
after the lcore freed the tcb; a signal sent before anybody waits; segments and
acknowledgements lost, repeated, cut and reordered; a timer that fires while the
packet is still queued; a packet shared by three owners; rings and pools that
are full; lists two threads append to; buffers that keep the text of the last
command; memory read after it was freed; sequence numbers compared as plain
`uint32_t`. `PROJECT.json` lists
each hazard at its line with the properties that watch it.

## 2. Modules

### ByteChannel (abstract)
One direction of a connection as the applications see it: two counters, bytes
written and bytes delivered; delivery is in order, without gap or repetition,
and does not stop while bytes are outstanding.

### HeldChannel (abstract)
A byte channel whose sender keeps a copy of every byte: a copy is given up only after its byte was
delivered, the oldest first, and is never taken back. It extends ByteChannel by `released`, the first
position of which a copy is held.

### SendWindow
| Specification | Code |
|---|---|
| `SendDataMsg`, `SendData`, `PushDataToSendWindow` | `check_socket_out_queue` on a data message, `sendtcpdata`, tcp_windows.c 302-345 |
| `SocketCloseMsg`, `SendFin` | `SOCKET_CLOSE` message; `sendtcpdata` with FIN: a number, no pair |
| `AckArrives`, `AdjustSendWindow`, `RetirePairs` | `tcp_in` on an ACK; tcp_windows.c 229-300 |
| `DoRtoTimer` (`RtoTick`, `RetransmitHead`) | timer.c 56-97, `GetFirstUnAckedPacket`, `RetransmitPacket` |
| `LoseSegment`, `LoseAck`, `PeerReceives` | the network and a peer that acknowledges what it has without a gap |

All stack actions run on one lcore, so a handler is one step. Sequence numbers
are taken modulo `SeqSpace` and compared as the code does, by `<=`; history
variables hold stream positions that never wrap. `window` is the list from
`Head`; `lastEnd` stands for `Last`, which the code keeps separately and could
let dangle. The asserts set `aborted`. `CurrentSize`, a count of the bytes in the
window, is left out: nothing reads it. The module implements `HeldChannel` (`ImplementsChannel`): the copies
held are the bytes from the first pair of the window on (`ReleasedEnd`), so that what `AdjustSendWindow` pops,
by the numbers in the pairs and in the acknowledgement, is compared with what the peer has.

### RecvWindow
`Arrive` is `tcp_in` on one segment in the states a connection passes through
after the handshake: `tcp_established`, `tcp_fin2`, `tcp_closed`. `PushData` is
tcp_windows.c 346-: out-of-window and duplicate tests, `AdjustPair` (`InsertPair`
then `Merge`, the one pass the code makes, with the assert and the NULL link it
can follow), then `PushDataInQueue`/`GetData`, which hand at most one pair to the
ring. The asserts of `GetData` are all there (`GetDataFails`: 151, 163, 171, 177). The one at 171 wants the new bytes
of a pair to be fewer than the 1000 of the buffer that `PushDataInQueue` provides (114, 118), so a
segment that brings 1000 or more ends the process (`TooLong`), in order or not; the history variable `oversized`
remembers that one came (`Overflows`). Neither the SYN (tcp_out.c:291) nor the SYN|ACK
(`sendtcpdata`, 159) carries an MSS option, so that a peer which keeps to the default of 536 bytes sends none, but nothing in the stack enforces it, and the model does not assume it: it assumes `MaxLen < CurrentSize`
(4000, while a frame carries at most 1460) only. `rte_mempool_get` may find the message pool empty for
whatever is to be handed over, after which the code writes to NULL (121, 125); `poolEmpty` remembers that. `SendAckNow` is the part of `check_socket_out_queue` that acknowledges later;
`SocketRead` is the application. A segment is a range of the stream; any
range of what was sent may arrive at any time and any number of times. `inOrder`
remembers whether a segment ever came ahead of a missing one, `beyond` whether one ended `CurrentSize` or more
beyond the first queued pair (`FarBeyond`), which is what the test at 346 lets through behind a gap. Read as the far end of a
stream, `readPos` behind `sndNxt` implements the safety of `ByteChannel` (`ReadsChannel`).

### AcceptQueue
`tcp_listen` and `tcp_syn_rcv` on the lcore; `CheckWaiting`, `StartWaiting`,
`TakeConnection` are the three parts of `socket_accept` (unlocked test of the
flag; lock and wait; woken, take the oldest). A critical section is one step.
`SpuriousWakeup` is what POSIX allows `pthread_cond_wait` to do; the code calls
it without a loop.

### TcbTable
`alloc_tcb` is four steps per thread (`ReadCount`, `StoreCount`, `CreateRings`,
`LinkTcb`), because the increment of `IdentifierCount` is outside the mutex.
`tcp_in` finds the tcb and runs its handler (`tcpswitch`); `tcp_listen` continues
after its `alloc_tcb`. Applications `socket_open`, `socket_bind`, accept, and use a
connection in two steps, `LookUp` and `UseTcb`, with the lcore free to remove the
tcb between them. Addresses are indices into `heap`, so that freed memory can be
told from a live tcb; `remove_tcb` leaves a NULL slot, which the second loop of
`findtcb` does not test for (`FollowsNull`). Ring names are never given back: DPDK
rings are not freed, and `rte_ring_create` fails for a name that exists.

### EtherOut
The mbuf between its owners: `Send` (`get_mbuf`, `sendtcpdata`, `ip_out`),
`AdjustSendWindow` (release), `RtoExpires` (`DoRtoTimer` on the mbuf: mark the
headers it seems to have, take a reference, send again), `CheckEtherOutRing`
(address look-up, prepend or reuse the Ethernet header, card), `TransmitDone` (the
card), `LearnMac` (`ip_in` adds the address). When a packet has more Ethernet
headers than its bits say, `CheckEtherOutRing` reads the address from other bytes;
the model then takes either answer of `get_mac`. `leaked` counts references that the code drops: an
unknown address, a full ring.

### Connect
`socket_connect` in an application thread is one action per shared access:
`LoadPort` and `StorePort` (`SrcPorts++` without a lock), `EnqueueOpen` (a message from the shared pool,
or the write to the NULL of an empty one, 319-323, which ends the process: `poolEmpty`), the
assignments to the tcb (`SetRemote`, `SetLocal`, `SetSeq`), the wait. The lcore
takes the message (`HandleOpen`: `sendsyn` with the fields as they are) and handles an
answer (`tcp_in`: `findtcb`, then `tcp_syn_sent`, or `tcp_closed` for a tcb whose
SYN was not sent). The address that `tcp_syn_sent` stores is byte-swapped
(tcp_states.c:27), after which `findtcb` no longer finds the tcb; the model keeps this
as the value `"swapped"`. The branch for a full ring (325-328) is left out: the ring belongs to the tcb that was just
opened, holds 1023 messages, and CONNECTION_OPEN is the first; the caller, which would go on to wait,
does not get there.

### SocketRings
The two rings of each tcb and the message pool they share. Application side: the
threads of the download server, `sample1` (one per accepted connection) and `Thread`,
which reads (`socket_read`, `ReadDone`), decides (`ParseRequest`) and answers (`GetMessage`,
`socket_send`, the same two steps for `socket_close`). Stack side: `PushDataInQueue` with
`GetForSegment`, `DiscardSegment`, and `check_socket_out_queue`, which takes a message,
acts (`AckLeaves` for the postponed acknowledgement) and gives it back (`PutMessage`).
Getting a message and putting it into a ring are two steps, because the pool and
the rings are shared without a lock. Writing to the NULL that an empty pool returns, following
the tcb that `remove_tcb` freed and comparing a NULL word of `strtok` set `fault` and end the
process. `Answer` is the abstract specification: what a download consists of.
FIN_2 and CLOSED differ only in what they answer to the peer and are one state,
`"closing"`, here.

### Neighbours
`add_mac` as the code has it: walk, link, fill, three steps (`add_mac`, `LinkEntry`,
`FillEntry`) of either thread, so that the other thread may walk in between. `Network` is
`ether_in`: ARP requests (answered if `IsHosted`), ARP replies, IP packets that are learned
from. `Server` and `Client` are the command line: `AcceptClient` (once: the code never
accepts another), `ClientSends`, the `recv` that leaves older text behind what it wrote
(`Written`, `EndsAtItsLength`), `perform_command`, `ReplyReady`, `WriteReply`. Uninitialised memory (a
linked entry before it is filled, the hardware address of an interface) has the value `JUNK`, nobody's
address. `raced` and `garbled` are history: which entries a race may have dropped, and whether
a command ran on into older text. A walk is one step: entries are never removed,
so a walk sees what one look at the list sees. `heap` numbers the entries in the order of their
allocation; `Reached`, the entries a walk passes, is a recursive function over these numbers, because
an entry is only ever linked behind an older one. The module has names of its own
(`NeighboursSpec`, `NeighboursTypeOK`, ...), so that one proof module can extend it and EtherOut.

### BridgeConn
The whole of the older stack with its example server: `tcp_in` and the states, the
tcb table whose slots are never used again, the receive window with its merge
(`AdjustPair`) and `GetData`, the output functions as the numbers they take and send,
`check_socket_out_queue`, and the threads (`socket_accept` with its condition variable and its
one slot `newpTcbOnAccept`, `DoWork` with `socket_send`, `socket_read_nonblock`, `socket_close`). `GetData`
returns a length out of memory it has freed: the model takes any outcome, right,
zero or wild. `sendtcpdata` and the like are called without a prototype, so that
pointers pass through `int` in some places; the model is of a build whose pointers fit.
`gaps`, `got`, `missed` are history: holes in the numbers sent, segments in order so far, connections
that lost their wakeup.

How the modules fit: SendWindow and RecvWindow are the two halves of one
connection; TcbTable creates, finds and frees the tcbs they live in; AcceptQueue
and Connect are the two ways to one; SocketRings feeds SendWindow and empties
RecvWindow; EtherOut carries what SendWindow sends, to the addresses Neighbours
knows. BridgeConn is a stack of its own, with all of these in one module. Each module keeps of its neighbours only what it reads.

## 3. Runs

| Run | Result | Shows |
|---|---|---|
| `SendWindow_window` | pass | list, `Last`, timer and asserts agree (`WindowSound`), no byte forgotten; implements `HeldChannel`: a byte leaves the window only after the peer has it, and all are delivered; the window drains |
| `SendWindow_lateSend` | violation of `NoAbort` | data sent after `socket_close` fails the assert at tcp_windows.c:329 |
| `RecvWindow_stream` | pass | the application reads the stream, no byte twice; in any order of arrival (`AnyOrderService`) the queue ascends beyond what was delivered, `GetData` fails exactly on a segment with as many new bytes as its buffer or more, `AdjustPair` only after a segment ended far beyond the queue, and nothing is delivered past the end of the number space; while segments come in order (`InOrderService`) the ACK is exact, nothing waits, the reader catches up, and the process ends only on such a segment or an empty message pool; once one is queued ahead of a gap, the gap stays open (`GapStaysOpen`) |
| `RecvWindow_ackHole` | violation of `AckOnlyReceived` | a segment beyond a gap gets missing bytes acknowledged (comment at tcp_windows.c:109) |
| `AcceptQueue_accept` | pass | FIFO and shape of the ring; asserts hold and accept stays behind the handshakes while wakeups are signals; a signalled thread returns |
| `AcceptQueue_lostSignal` | violation of `WaiterServed` | handshake completed before the thread waits: it waits for ever |
| `TcbTable_threads` | pass | identifiers and connections unique in the table, removal only after the FIN, faults only after a removal, no identifier goes from one tcb to another |
| `EtherOut_wire` | pass | reference counts, headers, release of packets |
| `Connect_open` | pass | distinct ports and every answer to its own tcb, complete SYNs, return only when connected, the waiting thread is woken; the process ends only on an empty message pool |
| `SocketRings_server` | pass | no message lost to the pool, the answer in order with every chunk once, every download comes to its end |
| `Neighbours_threads` | pass | what was learned stays, the first answer for an address wins, what was configured is hosted and nothing else is, commands are answered |
| `BridgeConn_server` | pass | each connection accepted once unless its wakeup was lost, one tcb per peer, numbers without hole or overlap, data in order, every thread served |

The runs that find a violation document behaviour of the code. The passing runs
state what remains true with it, with the condition in the property
(`inOrder =>`, `~spurious =>`, `~doubled =>`, `~overlap =>`, `~garbled =>`, the sets `raced` and `missed`).

Four more disagreements came out of the modelling and have no run of their own:
an acknowledgement of new data does not restart the timer, which the RFC text at
tcp_windows.c:225 asks for; a repeated segment beyond a gap fails the assert at
tcp_windows.c:75 (in RecvWindow it sets `aborted`; `AbortsNamed` says when); the missing segment in front of a queued pair is dropped by
the test that tcp_windows.c:346 calls "out of receive window size", although it is inside
the window (`GapStaysOpen` shows that the gap never closes); a reset establishes a connection that is being opened, in spite of
the comment at tcp_states.c:20 (in Connect, `AnswerArrives` with any answer).

### Bounds
- `SendWindow_window`: 3 bytes in messages of 1 or 2, timeout of 1 tick, 16 sequence numbers. Up to three pairs
  are outstanding, so the head, an inner pair and `Last` are different; an
  acknowledgement can cover none, a part of a pair, one, several or all. The stream does not wrap here: past the wrap the
  plain comparison at tcp_windows.c:265 is wrong, which the hazard list records.
- `RecvWindow_stream`: 6 bytes, segments of up to 3, a buffer of 3, a ring of 2 messages, a window size of
  4: enough for a gap with two queued pairs, covering, overlapping and repeated segments, a ring that
  overflows, a segment as long as the buffer (in order, overlapping and behind a gap), an empty pool in front of any
  delivery, and a segment far enough beyond a gap for its copy to fail the assert at 75. `Isn = 57` of 64 numbers: the last byte
  reaches the end of the number space, where delivery stops (`AtWrap`, `StopsAtWrap`): past it `PushData` drops
  each segment as a duplicate (350). `EventuallyRead` therefore ends there, and says so. Since the stream is finite,
  a reader that catches up reads every byte. `RecvWindow_ackHole` needs 4 bytes far from the wrap.
- `AcceptQueue_accept`: 2 threads, 4 connections, 3 slots (2 usable): the indices wrap
  and the queue fills with a connection left over.
- `TcbTable_threads`: 2 application threads and the lcore, 2 clients, 3 slots, queue of 1:
  all three threads can be in `alloc_tcb`, the table and the queue can be full, a
  removed tcb leaves a hole before, between and after others.
- `EtherOut_wire`: 3 packets, a ring of 2, a card that takes 1: pool, ring and card
  each run full. `MaxLeak` and `MaxEthers` stop sending again a packet that has already lost a reference
  or carries two Ethernet headers; both happen once before.
- `Connect_open`: 2 threads, so that every pair of steps of two calls and of the lcore can meet; the
  16-bit wrap of `SrcPorts` is out of reach by assumption.

- `SocketRings_server`: 2 connections, 3 messages, rings of 2, a file of 2 chunks, 3 segments:
  a ring is full while the other connection needs messages, the pool is
  empty at each of its three users, a send fails and is repeated. The code has 1023 or
  1024 entries per ring and 10024 messages; the per-core cache of the pool is left
  out.
- `Neighbours_threads`: the address of main, one peer with 2 hardware addresses and a longer
  text, 2 learned entries and 2 commands: both threads are in `add_mac` at once in
  every order, an address is added twice and answered for by two entries,
  a short command follows a long one, the list outgrows the buffer of showarp.
- `BridgeConn_server`: 2 peers of which `Busy` may send 4 packets (counted until the
  connection closes) and the other one, 3 slots, 2 segments and a FIN, a window of 3
  bytes, 1 spurious wakeup: gaps and overlaps, padding taken for data, a window that overruns, both
  sides closing, a connection closed and opened again, a full table.

Deadlock is not checked: after an assert the process is gone, and a finite
stream, a finite set of connections or an idle application lets the system rest.

### Fairness
- `SendWindow`: weak on `DoRtoTimer`, since the main loop calls `DoTimer` in every turn;
  strong on the arrival of each segment and acknowledgement: a network that does
  not lose the same packet every time. Nothing is assumed of the application.
- `RecvWindow`: weak on the arrival of the next missing bytes (the peer sends them
  again) and on the application's read.
- `AcceptQueue`: weak on each thread's own steps. No client completes a handshake because of fairness.
- `EtherOut`: weak on `CheckEtherOutRing` (main loop) and on the card.
- `Connect`: weak on the lcore taking each message and packet and on the peer's answer.
  Packets may still be lost; `ConnectReturns` names that case.
- `SocketRings`: weak on the lcore's steps and on each thread: the loop never blocks, and
  the threads are scheduled. Neither accepting nor the peers are assumed to go on.
- `Neighbours`: weak on the server's thread and on each thread's own `add_mac`. Nothing
  is assumed of the network or the operator.
- `BridgeConn`: weak on `socket_accept` with its return, on the lcore and on the threads.
- `TcbTable`: safety only.

## 4. Proofs

`SendWindowProofs` holds for every `SeqSpace`, `Rto`, `MaxLen` and
`StreamBound` under two hypotheses: `NoWrap`, the connection sends less than one
turn of the sequence numbers, and `StopsAtClose`, no data after `socket_close`
(which `SendWindow_lateSend` shows to be needed). The invariant `IInv` joins the
checked ones with what makes them inductive: `Numbering` (a number is its
position), `FinLast` (only the FIN is sent after the data), `PeerBehind` (no
acknowledgement ahead of the peer, no peer ahead of the sender; without it an
acknowledgement could release a byte the peer lacks). From it follow `TypeOK`,
`WindowSound` and `HeldUntilReceived`. That the system implements the safety part of `HeldChannel`
needs more of the list: `PairsInStream`, inductive on top of `IInv`, says that the pairs lie in the stream one
behind the other, and `AckReleases` that what an acknowledgement pops moves the first position held
forward and not beyond what the peer has: the pop compares numbers, the conclusion is about
bytes, and the two meet in `Numbering` and `PeerBehind`.

`AcceptQueueProofs` needs no hypothesis. `IInv` adds `EveryHandshakeQueued`: the
connections ever queued are those whose handshake is under way or complete. With
`AcceptNotAhead` it shows that a thread woken by a signal finds a connection in
the ring, and so that the asserts of `socket_accept` hold; `Offset`, the distance
of a slot from `rare`, turns the wrap of the two indices into arithmetic.

Proved of AcceptQueue: `TypeOK`, `RingInOrder`, `SignalsSuffice`.

`TcbTableProofs`: any finite set of applications and clients, any table, queue and number of
identifiers that do not run out (`TableAssumption`, which also keeps the names of threads,
clients and `None` apart). The checked invariants alone are not inductive, since the
identifier of a tcb is fixed three steps before it is in the table. `AllocationApart` says
that a thread in `alloc_tcb` works on a tcb of its own, still without port and client, whose
identifier is the one in its register; `NamesApart`, that the tcbs whose rings exist have
distinct names, because `rte_ring_create` refuses a name that exists: this, and not the
counter, is what makes identifiers unique. `SynInHand` and `ConnectionsApart` keep one tcb
per connection while `tcp_listen` is inside `alloc_tcb`; `StatesMeaning` and `SlotsApart` tie a
state to its past and a hole to a removal; `QueueCovers`, that every half-open connection and every
unanswered signal has a place in the listen queue, and `HandedOut`, that what an application
holds was in the table once, leave `NULL` only after a removal. `IdentifierStable` lets an identifier change its
meaning in two ways only: to `NULL`, and from `NULL` to a tcb when no freed one had it; from one live tcb to
another it never goes. Proved: `TypeOK`,
`TableUnique`, `RemovalsJustified`, and the action property `IdentifierStable`, whose step uses
the invariant before and after.

`ConnectProofs`: any number of threads below the wrap of `SrcPorts` (`ConnectAssumption`).
`FieldsByStep` says which fields of the tcb `socket_connect` has set where it is, `OpenedOnce` that
the lcore takes its message once, `PacketsOfSender` that what is on the wire
came from a tcb that sent it with the port it keeps; `CountersApart`, for calls that
do not overlap, counts the threads past the increment, so that every port given out is below the
next one. Proved: `TypeOK`, `PortsApart`, `SynComplete`, `ConnectedOnReturn`.

`EtherOutProofs`: any set of packets, any size of ring and card, and for every value of the
two bounds on packets sent again. `RefsExact` is inductive together with `WindowOnce`, a packet
is in the send window at most once; `HeadersOnce` needs the meaning of `udata64`
(`MarksMeaning`), that a packet never sent again is in the ring at most once and without Ethernet
header (`FirstTimeOnce`), and, as long as none was sent again while still in the ring, that
this holds of all (`RingOnce`). Lemmas on `Count`, the number of places of a packet in
a sequence, carry the reference counts through `Append`, `Tail` and the release of a prefix.
Proved: `TypeOK`, `RefsExact`, `HeadersOnce`.

The second half of `EtherOutProofs`, which extends Neighbours too, is about the ARP list, for any
addresses and texts and any number of entries and commands; the only assumption is
`NeighboursAssumption`, which keeps the values apart that the code tells apart. The inductive
invariant `ListInv` has seven parts: `ListTypes`; `Upward`, every link goes to a younger
entry, so that a walk ends; `AddsAddresses`, what a thread inside `add_mac` adds; `DroppedByRace`, an entry that
no walk reaches was dropped by two threads linking behind the same one; `EndKnown`, the entry
a thread will link behind is the end of the list, unless the other thread moved the end on, and that
is such a race; `FillsItsOwn`, the entry a thread fills is its own and still junk; `HeardFiled`, each
address heard has an entry, on the list or dropped from it. `Remembered` and `AddedAnswered` follow, the second with what the
server knows of the command it answers (`ServerTypes`, `LastAddedHosted`). The look-ups
return the first entry a walk meets. The lemmas on `Reached` (a walk goes on, is the least set closed under
`next`, passes entries in the order of their allocation, and keeps what it met when an entry is
linked) take the place of an induction along the list: each looks at a least counterexample. `FirstAnswerStays` is
proved as an action property from them, and `KnownStaysKnown`, that an address once answered for is
answered for ever after, is what EtherOut's `known` takes for granted.
Proved: `NeighboursTypeOK`, `Remembered`, `AddedAnswered`, `FirstAnswerStays`.

`SocketRingsProofs`: any finite set of connections, any pool, ring and number of chunks
(`RingsAssumption`). `PoolExact` counts places: each slot of a ring and each hand is a place, and every
step moves one message between a place and the pool; its lemmas say that a ring that
grows or shrinks by one gains or loses exactly one. For the order of the answer,
`SentIsBegun` says that what left and what is still in the ring are together what
the thread has sent where it is (`Begun`), with `PlanOfThread` and `LostTried`, what it
has decided and what it has given up. `ReplyInOrder` follows, since `Begun` is a prefix of
`Answer`. Proved: `TypeOK`, `PoolExact`, `ReplyInOrder`.

`RecvWindowProofs`: streams, segments, buffers and rings of any length, under `NotLast`: the first byte of the
stream does not have the number 0, with which the assert at 151 fails at once. The stream may pass the end of the number
space: `SegmentSound` shows that a segment which reaches it is a duplicate to `PushData`, so that everything queued or delivered
lies before it. `InStream` says that every queued pair is a part of the stream the peer has sent,
with the number of its position (`SoundPairs`), and that neither `CurrentSeq` nor `ack` is ahead of
the peer; `RingFollows`, the part of `StreamIntegrity` about the ring, adds that no message
reaches beyond `CurrentSeq`. Of the merge only this is needed, and proved by lemmas: `InsertPair` adds the new
pair and nothing else, and what `Merge` returns is a part of the list it got, not empty
unless an assert fails. So `StreamIntegrity` does not depend on which pairs the pass deletes. For
`InOrderService` the list has one pair, which the pass keeps.

What holds in any order of arrival needs the pass itself. `InsertPairShape` says where the new pair
goes, `MergeShape` that `Merge` takes the pairs it keeps in their order, and all of them; both pick from a
`CHOOSE`, whose witness is found as the least of a set of numbers. That the recursion of `Kept` has a
solution is shown in `KeptRule` by a least counterexample, as there is no induction theorem to cite.
`PassesTheTest` is the heart: what the first test of `PushData` lets through ends before the queue or
starts behind its first pair, because `MaxLen < CurrentSize`. With `QueueWaits`, inductive on top of
`IInv`, only the new segment can be ready (`OnlyTheNewIsReady`): so `GetData` fails exactly when that segment
brings more than the buffer takes (`GetDataHolds`, `FailsIfTooLong`), one
delivery per arrival is enough, and the first pair of a queue never leaves it. The last is a theorem
about a fault: it is why `EventuallyRead` promises nothing after a segment overtook a missing one. The
assert of the merge (75) and the NULL link (102) can be reached: a repeated segment far enough beyond a gap fails the assert.
`PairsApart` shows that this is the only way: as long as no segment ended `CurrentSize` beyond the first queued pair,
each one let through goes in front of the queue with a gap (`InsertedApart`), and a list with gaps
is merged without a failure and without a deletion (`ApartMerges`).
Proved: `TypeOK`, `StreamIntegrity`, `InOrderService`, `AnyOrderService` (`QueueWaits`,
`GetDataServes`, `AbortsNamed`, `StopsAtWrap`), `GapStaysOpen` and, step by step, `ReadsChannel`.

The type invariants of RecvWindow and Connect, and `ReadsChannel`, are theorems that no run repeats:
the constants of `RecvWindow_stream` and `Connect_open` satisfy what they assume.

`BridgeConnProofs`: any set of peers, any table, window, number of packets and of spurious wakeups
(`BridgeConnAssumption`). `UnusedSlots` says that the slot the next SYN takes is as in the
beginning, `NextToAccept` that what wakes the accepting thread is a connection without thread,
unless the wakeup is spurious, `ReadBehind` that threads have not read more than
arrived in order. Proved: `TypeOK`, `AcceptedOnce`, `SentInSequence`, `InOrderStream`.

In each module TLC checked the strengthened invariant on the instance of the run before it was proved.

Only model-checked:
- all liveness: `WindowDrains`, `EventuallyRead`, `WaiterServed`, `Released`, `ConnectReturns`,
  `ReplyCompletes`, `WokenReturns`, `ConnectionsServed`, `CommandServed`, and the fair part of
  `HeldChannel`. Fairness and `ENABLED` are beyond the prover.

## 5. Not modelled, and why

- The wire format, checksums and options: data the properties do not depend on.
- `FreeWindow` (tcp_windows.c 360-) and other functions that nothing calls.
- The loss of a SYN|ACK or FIN: they never enter the send window; see the hazards.
- Counters, logger, debug output, DPDK initialisation, the test programs and
  `src/cli/server.c`: no protocol state.
- In `src/tcp_ip_bridge`: resets, which change nothing, the limits of its rings and pool
  (1024, against 10 connections), and its ARP list and command line, an earlier form of those in
  Neighbours.
- Sequence numbers past their wrap in SendWindow: the comparisons of the code are wrong there
  (see the hazards). RecvWindow's stream does reach the end of the numbers (`StopsAtWrap`).
- What comes after `tcp_syn_sent` swapped the address (tcp_states.c:30): no packet finds the tcb.
- The ring from Ethernet to IP: it is created and never used.

## 6. Plan

The components are modelled, and every safety invariant and action property of the passing runs is
proved; of `ImplementsChannel` it is the safety part. What is left:

1. A composition, SendWindow behind the rings of SocketRings refining `ByteChannel` end to end: it
   needs a byte stream through both modules; the states of the two multiply, and the
   parts are checked separately now.
