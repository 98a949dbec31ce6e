# Verification of avim

avim is an instant-messaging library in C++ (`libavproto`), with a console demo and a Qt window
on top of it. A node (`avkernel`) has interfaces to routers (`avif`, implemented by `avjackif` over
TCP), a routing table, a store of trusted public keys, and one `io_service` on which coroutines read,
write, send and receive packets. This directory holds TLA+ models of that code, the TLC runs that
check them on small instances, and theorems that TLAPS proves for every value of the constants.

## Inventory

| Part | State | Operations | Interacts with |
|---|---|---|---|
| `async_coro_queue` (`src/async_coro_queue.hpp`) | `m_list`, `m_handlers`, `m_wait_handlers` | `async_pop`, `async_wait`, `push`, `cancele`, `clear` | posts handlers to the `io_service`; is every `_write_queue` and `m_recv_buffer` |
| routing table (`avkernel.cpp`) | `m_avifs`, `m_routes` | `add_interface`, `add_route`, `remove_interface`, `select_route` | called at login, by every send and forward, and when a reader ends |
| public key store (`avkernel.cpp`) | `trusted_pubkey` | `add_RSA_pubkey`, `find_RSA_pubkey`, `purge_RSA_pubkey` | reception adds, sends find, `timer2` purges |
| `avkernel` | waiting list, timers, `m_recv_buffer`, `m_quitting` | `async_sendto`, `async_recvfrom`, `interface_runner`, `interface_writer`, `process_recived_packet`, ticks | all of the above |
| `avif` | `quitting`, `_write_queue` | `async_read_packet`, `async_write_packet` | type-erases an interface implementation |
| `avjackif` | socket, addresses, key, certificate | `async_handshake`, `handshake`, read and write of packets, `get_ifname` | `serialization`, the router |
| `serialization` | none | `encode`, `decode` | `avjackif` |
| RSA helpers (`avproto.hpp`) | none | encryption and decryption by chunks | sends and reception |
| C interface (`avC_stub.cpp`) | the singleton kernel, service and thread | `av_start`, `av_stop`, `connect_to_avrouter`, `av_sendto`, `av_recvfrom` | `avkernel`, `avjackif` |
| demo, gui | | login, send, receive loop | `avkernel`, `avjackif` |
| logging (`logging.hpp`) | open files, last name and day | `open`, `write`, `logger_writer` | included by `serialization.cpp`, whose three `LOG_ERR` are all that logs |

What is hard in it: coroutines are suspended in the middle of a send and resumed from inside the
handler of a packet or of a timer, while the list they are in is being walked; a key may be stored,
purged and stored again while sends wait for it; an interface may leave while sends hold a pointer to
it and packets are in its queue; the answer to a request races its timeout. Between nodes, keys change
without anybody being told, and packets may go in circles. Around the kernel, threads wait on condition
variables that may have been notified already, and on an `io_service` nobody runs. PROJECT.json lists the
hazards, each at its line, with the properties that would catch it going wrong.

What makes the parts correct:

- queue: its assertions hold; it is first-in first-out; every handler runs once; no value and handler
  wait for each other;
- table: a route always leads to an interface that is there; the cheapest route is chosen; an
  interface leaves with all its routes;
- keys: the key found is the newest; a purge drops what has expired (but for the entries its loop
  skips) and nothing else;
- kernel: every send is notified exactly once, in the end; an answer that came is not lost to a timeout
  or a purge; no wakeup is lost; packets stay in order and go out once; the writer of a broken interface
  ends;
- network: what is delivered is what was sent; nothing is lost or doubled unless something fails; every
  packet comes to an end;
- clients: the kernel is started once and deleted when nobody uses it; a call returns, with the result
  of its own operation;
- logger: the newest files stay, the others go, and every line is in the file of its day.

## Modules

| Module | What it is |
|---|---|
| `Fifo` | abstract: what a queue promises |
| `CoroQueue` | `async_coro_queue`, an action for each call and one for the `io_service` |
| `Routing` | abstract: interfaces and routes as two sets |
| `RouteTable`, `MCRouteTable` | `m_avifs` and `m_routes` as map and sorted vector, with login and removal |
| `PubkeyStore` | `trusted_pubkey`, the purge loop entry by entry |
| `JackLink`, `MCJackLink` | `avjackif`: handshake and framing over a stream that breaks, with `encode` and `decode` |
| `AvKernel`, `MCKernel` | the kernel: interfaces, sends, reception, waiting list, writers, timers |
| `Network`, `MCNetwork` | several nodes and the packets between them: key exchange, encryption in chunks, forwarding, time to live, restarts |
| `Clients` | the blocking calls, the C interface and the window, as threads against that of the `io_service` |
| `Logger` | `auto_logger_file` and `logger_writer` |
| `CoroQueueProofs`, `RouteTableProofs`, `PubkeyStoreProofs`, `JackLinkProofs`, `AvKernelProofs`, `NetworkProofs`, `ClientsProofs`, `LoggerProofs` | the theorems about the module of the name |

`CoroQueue` and the packets read through `JackLink` implement `Fifo` (properties `ImplementsFifo`). That
of the queue is why `AvKernel` may take a write
queue as a sequence. `RouteTable` and `AvKernel` both implement `Routing` (`ImplementsRouting`): the
kernel may therefore treat the table as a set of routes, choosing among the matching ones of the
smallest metric. `AvKernel` abstracts the key store to the set of addresses with a key; `PubkeyStore`
has what is inside. `Network` composes nodes: a link is a `Fifo`, as `CoroQueue` and `JackLink` show, and
a handler of a node with the pass that follows it is one step, as `AvKernel` lets nothing happen in
between. `Clients` takes from `AvKernel` that a send ends or is dropped with its interface (`SendEnds`). Operators whose comment begins with "Mutant:" are plausible bugs: they are used
nowhere, and each of the checked properties is violated when the definition after it is replaced by it.

### How the state and the actions correspond to the code

*CoroQueue.* `mList`, `mHandlers`, `mWaitHandlers` are the members; a handler is the number of the
call that passed it. `ready` is the queue of the `io_service`, to which `post` appends. `pushed`,
`handed`, `got` and the counters are history.

*RouteTable.* `Login` is the expression `async_handshake && add_interface && add_route` of the demo
and of the C interface, with the names `get_ifname` returns at each call. `boost::sort` is not stable,
so any order of equal metrics is allowed. `EraseRoutes` is the `remove_if` of `remove_interface`: the
routes of other names (`Others`), in their order (`InOrder`).

*PubkeyStore.* A key is its `valid_until`. `iter` is the iterator of `purge_RSA_pubkey`. After
`erase(iter++)` the loop increments again; from `end()` that is undefined. The model takes the outcomes
of the `std::map` of libstdc++: the increment of `end()` leads to one of the remaining entries, and when
the map has become empty it does not return (`stuck`).

*JackLink.* The stream is a sequence of cells, each the four bytes of a length or a piece of a name or
body. An error in the handshake throws, for its `yield_context` has no error code; an error in
`async_read_packet` is not looked at, so that `l` is then any value (`Garbage`), the rest of the buffer
is zeros, and a packet cut inside a field may parse (`Damaged`). The `BOOST_ASSERT`s of `decode` are taken
as in a release build, where it returns null. The router is external and follows the
protocol.

*AvKernel.* An action is what the single thread does between two yields. `boost::asio::spawn` and a
resumed coroutine run inside the handler that starts them, so that reading a packet, handling it and
starting the pass over the waiting list (`BOOST_SCOPE_EXIT_ALL`) are one action, and each resumed
coroutine of the pass is one more; `pass` lets nothing else in between.

| Code | Actions |
|---|---|
| `add_interface`, `add_route` | `AddInterface`, `AddRoute` |
| `interface_runner` without a packet, `cancele`, `remove_interface` | `ReadFail` |
| `async_sendto_op` up to its first yield | `SendNoRoute`, `SendKnown`, `SendAsk` |
| its loop, resumed | `ResumeSend`, `ResumeAsk`, `ResumeGiveUp`, within `WakeWaiter` (after a packet) or `ExpireWaiter` (`timer1_tick`) |
| `process_recived_packet` | `RecvAsk`, `RecvReply`, `RecvData`, `Forward`, `Drop` |
| `async_recvfrom_op` | `RecvFrom` |
| `interface_writer` | `WriterStart`, `WriteDone`, `WriterBreak` |
| `timer1_tick`, `timer2_tick` | `Tick`, `PurgeTick` |
| `~avkernel` | `Destroy` |

A use of an `avif` pointer after its interface was removed is undefined: the model lets the process
crash (`fault = "dangling"`) or lets the packet go into a queue nobody reads (`pc = "lost"`). A packet
decrypted with the wrong key makes OpenSSL return -1, and `append` of -1 bytes throws through the
`io_service` (`fault = "badkey"`). `PurgeTick` may drop the keys of any addresses, which includes
whatever the purge of `PubkeyStore` does when it returns. `timer1_tick` compares
deadlines with `local_time`, from which they were taken: it jumps both ways, so that a tick may find any of
the waiting sends late (`Tick`), and an entry appended during the pass of a tick late at once
(`ResumeAsk`); how long a send waits is therefore no promise of the code, and none is checked. The `assert`
of `add_route` is taken as in a release build: a route over an unknown interface is refused.
Interfaces keep their name, as the kernel takes them to; `RouteTable` has the run with names that change.

*Network.* `Send` is `async_sendto_op` up to its first yield, `Expire` a tick of `timer1`, and `RecvAsk`,
`RecvReply`, `RecvData`, `RecvBad`, `Forward` and `Drop` are `process_recived_packet` with the sends it
resumes. The entries that `Expire` finds expired are any of the waiting ones: their deadlines were taken
from local time, which jumps. The loops that take entries out of a list are `At` and `Without`: the entries
at the positions where the condition holds, in their order (`Ordered`). Addresses are modelled as the code converts them: a string is a name alone, a
name with a domain, or one with a resource; parsing gives a name alone the default domain, so that
formatting does not give back what was parsed. A ciphertext is a sequence of cells that know their key,
half of the key, chunk and place: `Encrypt` and `Decrypt` cut texts as the loops of `avproto.hpp` do, and
a block that is not one of the key's makes OpenSSL return -1, `append` throw and the process end
(`RecvBad`). A node restarts with a new key and no stored keys; a link breaks for ever, with what was on
it.

*Clients.* `pc` is where a thread is in a call; `calls` has the coroutine each call has spawned; `ec` is
the variable in its frame. The handler is two statements, `ec = _ec` and `notify_all()`, with the
threads running in between; a notification reaches only a thread that waits. When the frame has gone
(after a spurious wakeup) the handler writes to what is there now, which may end the process
(`fault = "stack"`). `AvStart` is `call_once`; `AvStop` stops and joins, `Delete` deletes; later uses are
undefined (`fault = "deleted"`). `connect_to_avrouter` never calls `set_pki`, so that `jackif_login` takes
the address of an interface that has none (`fault = "null"`). The coroutine of a send ends, or its
interface quits while the data is in the write queue and it is never resumed (`SendDropped`). In the window, `handshake()` waits for a
coroutine of an `io_service` that only the waiting thread would run. A missing key file or a failing
connect ends the process (`fault = "exit"`).

*Logger.* A date is a number, and so is the name of its file. `MakeFilename` compares the day of the
month only; `WriteNew` opens a file, puts it into the list whether that worked or not, and closes and
removes the first of the list when there are too many, which is the new one when the clock has gone back.
A removal that fails is printed and forgotten: the file stays, its entry does not (`stuck` remembers it).
Files outlive a restart, the list does not.

## Runs

| Run | Checks | Bounds |
|---|---|---|
| `queue` | assertions, nothing lost, each handler once, first-in first-out, delivery | 3 pushes of 2 values, 3 pops, 2 waits, 2 cancels: every mix of sleeping, served and canceled handlers, and lists of three |
| `routes` | `RouteTable`, names that stay | 3 interfaces, 4 routes, 2 metrics, 2 patterns: equal metrics, several routes of one interface |
| `routes_jack` | finding `LoginIsRouted` | 1 interface |
| `keys` | `PubkeyStore` | 3 addresses, 2 keys each, 5 points in time: first, middle and last entry erased, the only one erased |
| `link` | `JackLink` | 3 packets of 1 or 2 cells, a break at any cell |
| `kernel_live` | waiting list, order, answers against timeouts and purges; every send ends unless its interface does, and then the writer ends | 1 interface that may break, 2 sends to one peer, 2 answers, any number of ticks and purges |
| `kernel_routes` | table, wakeups, queues, data written once | 2 interfaces that break, 2 routes, 6 kinds of packet, 2 packets, destruction |
| `kernel_dangling` | finding `InterfaceStillThere` | 1 send |
| `net` | `Network` | 3 nodes in a row with keys of 3, 4 and 3 cells (padding 1), three plans of 2 or 3 sends, texts of 0 to 4 bytes, time to live 3, 2 asks, 2 faults |
| `clients` | `Clients` | 2 threads besides that of the `io_service`, 3 calls, 1 spurious wakeup, each of the three programs |
| `window` | finding `WindowReceives` | as `clients` |
| `logger` | `Logger` | 2 files, months of 3 days, 6 days, 5 lines, 2 starts, files that cannot be opened or removed |

The bounds are on calls, packets and the clock; every guard that has one names it. Two sends to
one peer wait in one list, and one that asked again is behind the other; two packets let an answer be
followed by another after a purge. In `net`, the texts of 3 and 4 bytes are a multiple of
the chunk of one key and not of the other; the plans have two sends one way and one the other, so that
keys are learned by an answer and from data; a send to nobody, which the router and a user send to each
other until it dies; and the same user addressed in three ways. Two faults let an ask expire and its peer
restart before the answer. In `clients`, two threads and three calls let `av_start` be raced, `av_stop` be
called twice and a call be reused after a spurious wakeup. In `logger`, two files and six days let the
rotation remove files in and out of order and let a month go by. Deadlock is not checked
where the callers may simply stop calling.

### Fairness

`CoroQueue`: weak fairness of `RunReady`, for the `io_service` runs what was posted. `JackLink`: weak
fairness of the client's steps, for asio completes a read when its bytes are there or the connection is
broken. `Network`: weak fairness of the reception of packets, over all links together, for the loops of
writers and readers go on as long as the connection lasts. `Clients`: weak fairness of each thread that
is inside a call and of the `io_service`'s thread, for the operating system schedules them; sends end
unless they are dropped with their interface, `recvfrom` need not. `Logger` has no liveness. `AvKernel`: weak
fairness of the steps of a pass, which are one handler's; strong fairness of the steps of
each writer and, for each send, of a tick that finds it late (`Overdue`): `timer1` is armed again at every
tick, and local time, set back as it may be, goes on and comes to every deadline. It is strong because the `io_service` runs ready handlers in the order they became ready and none is
passed over for ever, although passes of other handlers disable them for a moment; a write ends because
TCP either sends or fails. Nothing is assumed about callers, peers or the network.

## Findings

Three are runs that TLC must find violated; PROJECT.json quotes the lines.

- `avjackif::get_ifname` returns a new name at every call: `add_interface` returns false, no route is
  added (`routes_jack`).
- A send that waited for a key uses a pointer to an interface that may be gone (`kernel_dangling`).
- The window's receiving thread waits in `handshake()` for a coroutine of the `io_service` it would run
  itself a few lines later: it never comes to receive (`window`).

The others are steps of the models, and the properties say exactly how far the code's promise goes:

- `purge_RSA_pubkey` skips the entry after an erased one: an expired key survives a purge, but only
  there (`PurgeMissesOnlyNext`); with a single entry the loop may never end (`stuck`).
- Above the last statement of `async_sendto_op`, `handler(ec)`, a comment asks why it is never reached
  ("FIXME 这里为何调用不到", `avkernel.cpp:479`). The models give three answers. With `avjackif` no route is ever
  added (`routes_jack`), so that every send leaves earlier, with `network_unreachable`. A send whose packet is
  in the write queue when the reader of its interface fails is never resumed, for the writer leaves its loop
  and nobody empties the queue; the same holds for one that was queued through a dangling pointer. And in the
  window nobody runs the `io_service`. `SendEnds` shows that there is nothing else: with an interface that is
  routed to, and a process and kernel that live on, every send's handler is called, but for the sends of an
  interface that is quitting.
- A write that fails is reported to the sender as a success (`WriteDone` with `ok` false), the error
  code being local to `async_write_packet`. What holds is the converse, that data on the wire is of a send
  that is told success, and is there once (`WrittenOnce`).
- A packet for another interface's address is decrypted with the wrong key (`fault = "badkey"`).
- A send to an address with a resource, or to a name without its domain, is never answered in its eyes:
  only sends to the very string of a certificate get through (`SentOnlyToCertified`).
- After a peer has restarted with a new key, what is sent to it ends its process: `DeliveredIntact`
  excepts receivers that have restarted. The stored key is not compared with the one a packet brings (a
  TODO in `process_recived_packet`).
- `sendto` may wait for ever (its handler notified before it waited, or its interface quit), or return
  success for a send that failed (a spurious wakeup): the exceptions of `CallsReturn` and `ReportsOwnResult`.
- `connect_to_avrouter` never returns (`StartCoroutine`).
- After exactly a month without a line, the log goes on in the file of a month ago (`FileOfDay`); when
  the clock goes back the logger may remove the file it has just opened, and the line with it
  (`LastLineStored`); a file whose removal failed stays for good unless its date comes back (`KeepsNewest`).

## Theorems

`AvKernelProofs` proves, for any sets of interfaces, routes, sends and packets satisfying
`KernelAssumption`, that `Spec` implies the invariants `TypeOK`, `RoutesBacked`, `NoLostWakeup`,
`WaitersMatchSends`, `QueuedOnce` and `NotifiedOnce`, and that it implements `Routing`
(`KernelImplementsRouting`). The argument is one inductive invariant, `IInv`, the conjunction of these
and of four parts they need:

- `WriterInv`: a writer inside a write has its packet at the head of its queue, for `WriteDone` takes
  that head; an interface that is quitting was added, so that `AddInterface` does not start it again
  (`RoutesBacked`);
- `WaitInv`: a waiting send has its target and interface and has asked between one and three times, for
  `QueuedOnce` when it is resumed;
- `NumberInv`: the entries' places are before `nextNo`, for `WaitersMatchSends`;
- `IdleInv`: a send that has not started has no interface and has not asked, for `WaitInv`.

`AnswersCount` proves the action property `AnswerCounts` from it: by `NoLostWakeup` a send whose key is
stored waits only within the pass after the packet that brought the key, and in that pass no timer ticks,
no key is purged, and what resumes the send finds the key. It does not depend on how deadlines run.

There is one lemma per action. The invariant was model-checked before it was proved.

`InOrder` and `WrittenOnce` rest on a second one, `OrderInv`, proved on top of `IInv`. A send passes
through the waiting list, the write queue and the wire, and it is overtaken if any two neighbours of these
places are out of order: so there is one part for each pair of places (`WaitOrder`, `QueueWaitOrder`,
`QueueOrder`, `WireQueueOrder`, `WireOrder`), for two sends to one target whose first ask was answered,
`IssuedInv`, that what has started was issued, and `WireInv` and `WrittenInv`, that
what is on the wire is of ended sends and there once. A send that asks again goes to the end of the list,
which is why the promise is made for first asks only.

`CoroQueueProofs` proves `TypeOK`, `SleepersMeanEmpty`, `NothingLost`, `NoIdleMatch`, `EachHandlerOnce`
and `ImplementsFifo` of the queue, for any values and any bounds on the calls. Its invariant adds
`PopsCounted`: every pop was served, was canceled or sleeps; `NoIdleMatch` follows from it with the other
two. The refinement needs `BoundInOrder`: the values handed out and not yet received are in the completions
that are posted, each in one, in order. Without it a step of the `io_service` could give a handler a value
that is not the next one.

`RouteTableProofs` proves `TypeOK` for any interfaces and names, and `SelectsCheapest`, `LoginIsRouted` and
`ImplementsRouting` for interfaces that keep their name (`~ FreshNames`; with `avjackif::get_ifname` they
are false, as the run `routes_jack` shows). The invariant has the vector sorted (`Sorted`), so that the
first match is the cheapest, each interface under its own name, and a route of its own for each of them
(`NamesInv`). `boost::sort` and `remove_if` are permutations and selections of positions; that an
injection of the positions misses none (`OntoItself`) is what keeps a route from being lost.

`PubkeyStoreProofs` proves `TypeOK`, `FindsNewest`, `PurgeKeepsValid` and `PurgeMissesOnlyNext` for any
addresses, lifetimes and clock. `SortedInv`, that each vector has its newest key first, is why the purge
may cut a vector at its first expired key; `EntryInv`, that an address without keys has no entry, is why
`find_RSA_pubkey` may take the front. `PurgeInv` says how far a purge has come: either the entries before
the iterator are dealt with and none behind it is erased, or all are dealt with and an iterator beyond
`end()` has led back into the map.

`JackLinkProofs` proves `TypeOK`, `HandshakeSound`, `DamagedOnce` and `ImplementsFifo` for any bodies,
any number of packets and a break at any cell. Its lemma `DecodeEncode` says that `decode` undoes `encode`
for every message, `DecodeCut` what `decode` makes of a frame that was cut. The center of the invariant is
`StreamInv`: the cells in the stream, with the length already read into `l`, are the frames of exactly the
messages that were sent and not yet read, in order, the last one possibly cut when the connection is
broken (`InFrame`); once a broken stream is drained nothing is claimed of `l`. The other parts say that
what was returned is what was sent at that place, or damaged and the last (`GotInv`), that the router
follows the protocol (`SentInv`), and what was written and answered in each phase (`OutInv`, `PhaseInv`).

`NetworkProofs` proves `TypeOK`, `DeliveredIntact` and `SentOnlyToCertified` for any nodes, certificates,
links, routes, sizes of keys (larger than the padding), plans of sends and number of faults, and
`SentIsSomewhere` for those whose routes lead somewhere. Beyond `NetworkAssumption` (which has among it
that a node's routes are a list, and that the mark for "no send" is no send) it takes that the mark for a
failed decryption is no ciphertext (`NoTextAssumption`).
The invariant has, besides the types and `SentOnlyToCertified`:

- `LinkInv`: every packet on a link is `Genuine`, from the node its source names, with a key that node has
  had; data is the text of its send, addressed to the node whose certificate has the string it was sent to,
  and encrypted for a key of that node. Nothing less lets the receiver be sure of what it decrypts;
- `KeyInv`: a key a node has stored is one its owner has had, and kept for the owner's name (`Trusted`);
  packets bring keys and keys make packets, so that the two parts need each other;
- `WaitInv`: the sends in a node's list are its own and wait, for what a pass resumes;
- `GotInv`: what was received is what was sent, by whom it says, for the receiver's name.

That decryption undoes encryption is `DecryptEncrypted`, for any size of key and any text, the empty one
and multiples of the chunk included: a text's chunks put together are the text (`FlattenChunks`), and
cutting a ciphertext at the key's size gives back the blocks it was made of (`ChunksOfBlocks`). Putting
together is a recursive function of the library; the proof gives a solution of its equation and shows by
least counterexample that there is no other (`FlattenSolves`). Every finite set of positions can be put in
order (`CanBeOrdered`), so that `At` picks what it says.

`SentIsSomewhere` is no fact of the code alone: two routers that take each other for the way to a third
node would pass its packets back and forth until they die, and `select_route` does nothing against it. The
theorem `NothingIsLost` therefore has the hypothesis `RoutesLead`, on the constants only: there is a number
of hops between any two nodes, at most the time to live, such that whenever a node has a route to
another, the neighbour is nearer and has a route itself. That is what an administrator of the routers has
to see to; TLC evaluates it on the topology of `net` (`MCRoutesLead`). The invariant `PlaceInv` says, as
long as nothing has failed (`Calm`):

- `WayInv`: data on a link has more time to live than there are hops left, and the node it comes to is
  its target or has a route; other packets are of no send. So data is never dropped, and a forwarded
  packet is on its way again (`DataGoesOn`);
- `OnceInv`: a send is in a waiting list once, else a pass would send its data twice;
- `RoutedInv`: a send that waits has a route, else what it sends when it is resumed would go nowhere;
- `InOnePlace`: data that was sent is in exactly one place, and what was not sent is in none, which is
  what makes its first place the only one.

A pass over the waiting list writes several packets on several links at once, in one step with the packet
that is forwarded. `PushedPlaces` says where each of them comes to be, `SpotsOne` and `SpotsNone` what this
does to the places of a send, `SpotsTail` what reading the head of a link does; `HandledPlaces` puts them
together for every kind of packet, and `ArrivesOnce` has the reception, where the place on the link
becomes one in the buffer.

`ClientsProofs` proves `StartedOnReturn`, `NoHandlerAfterDelete`, `ReportsOwnResult` and, as the theorem
behind the finding of the run `window`, that the window's `io_service` never runs (`WindowServesNobody`), for any set of threads, number of calls and of spurious wakeups. `OnceInv` is what
`call_once` and `av_stop` leave behind: at most one thread creates, and until it is done there is no thread
of the `io_service`. `HandlerInv`: handlers run only while that thread does. `FrameInv` and `ResultInv`: a
thread is in a call of its own, and the variable in its frame is still the initial one, or what the handler
wrote, or the frame has gone. `WokenInv`: who was woken and not by chance was woken after the handler wrote.

`LoggerProofs` proves `TypeOK`, `FileOfDay`, `LastLineStored` and `KeepsNewest` of the logger, for any
number of files, length of a month and clock. `FileOfDay` needs that the last name is that of the last day
(`NameOfDay`), and that two dates with the same day of the month are equal or a month apart
(`SameDayOfMonth`, from division with remainder); `LastLineStored` holds after every step whatever was
before. `KeepsNewest` is inductive on top of these: a new name either leaves the number of newer names of
every listed one below the limit, or pushes exactly one over it, and that one is the first of the list
(`NewestUp`, `NewestCount`, `Rotation`). A file that is left is one that was not removed when it was
pushed out.

Where an argument needs induction on a number (the least date of a list, the first expired key of a
vector) it takes the least counterexample, from the well-foundedness of `<` on the natural numbers. Each
inductive invariant was model-checked before it was proved. The assumptions are those on the constants,
named in each module and evaluated by its runs.

The types of `AvKernel`, `CoroQueue`, `Logger` and `Clients` (there as `Types`), and `RoutesBacked`,
`NotifiedOnce` and `NoIdleMatch`, are proved and are in no run's list.

Only model-checked: liveness (`Delivered`, `SendEnds`, `WriterExits`, `ReaderEnds`, `PacketsDie`,
`CallsReturn`), which is beyond the prover.

## Not modelled

The cryptography itself, the contents of certificates, the console output, the Qt widgets, the command
line of the demo, `root_ca`, `avim.hpp` (declared only), the messages of `avim_proto` (a submodule) and
the vendored protobuf. Of `async_coro_queue`, the pops with a timeout, which nothing calls and which do
not compile (they call a `shared_ptr` as a function), and `clear`, which a `std::queue` has no member for.
(The model also shows that `cancele` wakes the handlers of `async_wait` only when a handler of `async_pop`
sleeps with them; nothing in the repository calls `async_wait`.) Whether the future `boost::async` returns joins when it is dropped depends on
Boost's configuration and is left open: the window's button is taken to return at once. The window's
receive loop is never reached.

## Plan

Every invariant and action property that a passing run checks is also proved; liveness stays with TLC.
The hazards without a property are those whose step is in a model and whose property would only restate
it, or which the code makes no promise about; PROJECT.json says which for each.
