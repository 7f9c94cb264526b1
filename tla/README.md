# A verification development of the EAGine message bus

The repository holds OGLplus (wrappers of OpenGL, EGL and OpenAL) and EAGine, a
set of libraries whose core with logic of its own is the **message bus**:
endpoints exchange messages through routers over in-process, local or network
connections, and services, blob transfers and remote calls are built on top of
it. This directory contains TLA+ modules that model that core, TLC
configurations that check them on small instances, and proofs that TLAPS checks
for every value of the constants.

All paths below are relative to the repository's root. `MB` stands for
`src/include/eagine/message_bus`, `MBI` for `src/implement/eagine/message_bus`.

## 1. Inventory

### 1.1 Parts of the message bus

| part | state | operations | interacts with |
|---|---|---|---|
| in-process connections, `MB/direct.hpp`, `double_buffer.hpp` | shared `direct_connection_state`: a mutex, the atomic flag `_client_connected`, a double buffer of messages per direction; `_is_usable` of the server side; the list of new connections of a `direct_connection_address` | `send`, `fetch_messages`, construction and destruction of either side, `is_usable`, `connect`, `process_all` | two threads: an endpoint and the router that adopts the connection |
| message storage, `MB/message.hpp`, `MBI/message.inl` | queues of stored or serialized messages with their age; a packing of several messages into a block | `push`, `fetch_all`, `cleanup`, `pack_into`, priority queues | every connection; endpoints |
| router: connections and ids, `MBI/router.inl` | `_acceptors`, `_pending`, `_nodes`, `_id_sequence` and its range | `_handle_accept`, `_handle_pending`, `_assign_id`, `_remove_timeouted`, `_remove_disconnected` | connections; id protocol with endpoints and other routers |
| router: routing | `_endpoint_idx`, `_recently_disconnected`, per-node block and allow lists, hop counts | `_route_messages`, `_do_route_message`, `_handle_special` | all nodes of a tree of routers |
| parent router link | `confirmed_id`, a timeout | `update`, `fetch_messages`, `send`, `announce_id` | the router above |
| endpoint, `MBI/endpoint.inl` | `_endpoint_id`, `_no_id_timeout`, outbox, incoming queues, its connection | `update`, `post`, `say_bye`, `finish`, handling of special messages | one connection; subscribers |
| blob transfer, `MBI/blobs.inl` | lists of outgoing and incoming blobs with the parts still to be sent or already stored | `push_outgoing`, `process_outgoing`, `process_incoming`, `process_resend`, `update`, `fetch_all`, `handle_complete`, `cancel_incoming` | endpoints, the router, resource transfer |
| calls, `MB/invoker.hpp`, `skeleton.hpp`, `future.hpp` | promises by call number; pending calls of a skeleton | `invoke_on`, `fulfill`, `enqueue`, `handle_one` | endpoints; the workshop |
| workshop, `src/include/eagine/workshop.hpp` | a queue of work units, a condition variable, worker threads, a shutdown flag | `enqueue`, `_fetch`, `_employ`, `wait_until_idle`, `shutdown` | asynchronous skeletons |
| bridge, `MBI/bridge.inl` | two double buffers between a router connection and a pair of streams, a condition variable, one thread that writes and one that reads | `update`, `_forward_messages`, `send_output`, `recv_input`, `say_bye` | a router, another bridge over a pipe |
| network connections, `MB/asio.hpp` | outgoing and incoming storages of serialized messages, the block that is written, with a bit per message in it | `send`, `do_start_send`, `do_start_receive`, their completion handlers, the connector's `update` | sockets; message storage |
| sudoku helpers, `MB/service/sudoku.hpp` | the solver's boards by key, pending queries, helpers that are ready; the tiling; per helper a backlog of boards | `update`, `enqueue`, `handle_response`, `handle_timeouted`, `pending_done`, `reset`; a helper's `add_board`, `update` | endpoints; broadcasts; any number of helper programs |
| message queues, `MB/posix_mqueue.hpp` | named queues, a connection request per client | `connect`, `accept`, `send`, `receive` | the operating system |
| certificates, `MBI/context.inl`, `verification.hpp` | certificates and nonces per node | exchange and verification | OpenSSL |
| tracker, `MBI/remote_node.inl`, `service/tracker.hpp` | what is known of nodes, hosts and instances, with expiry | message handlers, `update` | discovery services |
| services, `MB/service/*.hpp` | pings under way, file transfers, pending queries, a distributed search | handlers, `update` | endpoints, blobs, calls |
| wiring: registry, actors, connection set-up | configuration | construction | all of the above |
| memory allocators, `eagine/memory/stack_alloc.hpp` | `_pos`, `_min`, `_dif` and a byte before each block | `allocate`, `deallocate` | users; `fallback_alloc.hpp` |

The remaining directories (graphics wrappers and framework, ECS containers,
serialization, value trees, logging, applications and examples) are
listed in `PROJECT.json` with the reason why they are not modelled: they are
thin or generated wrappers, I/O, conversions, or sequential containers.

### 1.2 What is hard in this code

- **Two threads and two buffers.** A connection is a pair of buffers that change
  roles while one side runs its handler without the mutex, and a flag that is
  tested outside it.
- **Ids before identity.** A router keeps a connection *pending* until it knows
  the id of the other side. Requests, assignments, announcements and
  confirmations overlap with repeated requests, crashes, restarts and timeouts.
- **Routing with incomplete knowledge.** Routers learn where endpoints are from
  the messages they forward; meanwhile endpoints move, messages are flooded,
  retried, and limited by a hop count and an age.
- **Fragments.** They arrive in any order, repeatedly, or not at all, and resend
  requests race with what is still being sent.
- **Calls.** Timeouts race with answers, and worker threads hold plain pointers
  into a map from which another thread erases; workers and clients of the
  workshop share one condition variable.
- **Blocks and sockets.** Messages are packed into blocks, removed by position
  when a write completes, and sent again when the connection broke meanwhile.
- **Two processes and six threads.** A bridge waits for a notification without a
  predicate, reads more than there is, and ends a second after it says bye.
- **A search without acknowledgements.** Boards are sent to helpers that may be
  gone, answers come late or twice, a tile depends on its neighbours'.

The list `hazards` of `PROJECT.json` names the lines where each of these bites,
with the properties that guard it or the reason why none does; section 6 lists
those that are left out there.

### 1.3 What makes each part correct

- connections: each direction is a channel that neither loses nor duplicates;
  a closed side is noticed, a living one never taken for closed.
- ids: no two nodes ever hold the same id; who is adopted stays so until it
  leaves; whoever connects is adopted.
- routing: what is said arrives, once, and only where it should; indices point
  to where an endpoint is; nothing circulates for ever.
- blobs: what a receiver gets is what was sent, once unless the bus repeats its beginning.
- calls: each is settled once, with its own result, and none is forgotten; who
  waits for the workshop returns.
- network connections: a channel until the connection breaks; then only what was
  being written comes again; only smaller messages, or those behind one that its handler
  refused, overtake.
- bridges: what goes in on one side comes out on the other in order, once, but for
  what a bridge that ends leaves behind.
- search: no branch is lost that the bus did not lose, tiles fit, and the search ends.
- stack allocator: no byte is given out twice, and what was returned, in whatever
  order, is available again.

## 2. Modules and how they correspond to the code

`PROJECT.json` maps each definition to the lines it was translated from.
Variables carry the name of the member they stand for, without its underscore.

| module | models | composition |
|---|---|---|
| `MessageChannel` | what a connection promises: an abstract channel, ordered or not | instantiated by `DirectConnection` |
| `DirectConnection` | `direct.hpp` with `double_buffer.hpp` and `message_storage::fetch_all` | refines `MessageChannel` in both directions |
| `DirectConnection_proofs` | proofs about the former | extends it |
| `RouterIds` | endpoints and subordinate routers acquiring ids from one router | its links are queues, as `DirectConnection` provides |
| `RouterIds_proofs` | proofs about the former | extends it |
| `RouterRouting` | a tree of routers forwarding messages | assumes adopted nodes, as `RouterIds` provides |
| `RouterRouting_proofs` | proofs about the former | extends it |
| `Selection` | what loops over lists select: elements at some places, the first of some | extended by `BlobTransfer` and `StreamConnection` |
| `BlobTransfer` | a sender and receivers of blobs | assumes a bus that may lose, repeat and reorder |
| `AsyncCalls` | invokers, an asynchronous skeleton, a workshop | assumes a bus that may lose and reorder |
| `AsyncCalls_proofs` | proofs about the former | extends it |
| `StreamConnection` | a stream connection: packing, writing, reading, breaking, connecting again | refines `MessageChannel` until it breaks |
| `Transfer_proofs` | proofs about `StreamConnection` and `BlobTransfer` | extends both |
| `BridgeRelay` | one direction of a pair of bridges | its connections are queues, as the connection modules provide |
| `BridgeRelay_proofs` | proofs about the former | extends it |
| `SudokuSearch` | the distributed search, its solver, tiling and helpers | a bus that keeps the order or not, a constant |
| `SudokuSearch_proofs` | proofs about the former | extends it |
| `StackAllocator` | the stack allocator: blocks of a buffer, returned in any order | |
| `StackAllocator_proofs` | proofs about the former | extends it |
| `MC...` | instances for TLC | extend the modules |

Modules contain operators `Dev_X`. They are not part of the model: each is a
plausible mistake in the code that `X` stands for, and with it one of the
properties fails (`mutants` of `PROJECT.json`). They document what each property
is able to detect.

**DirectConnection.** Steps are the critical sections of the mutex and the
accesses to the atomic flag. `Push` is `send`; `Swap` the swap under the mutex
that begins `fetch_messages`; `Accept` and `Keep` the handler taking or refusing
one message of the front buffer, without the mutex; `ServerTestFlag` and
`ServerSend` the two halves of `send_to_client`, between which the client may go
away; `ServerFetched` and `ServerReadFlag` the end of a fetch, which overwrites
`_is_usable`; `ServerGiveUp` the router's maintenance that drops an unusable
node. Messages are numbered in the order sent; their contents do not matter.

**RouterIds.** One router thread whose program counter `step` goes through
`router::update`: maintenance, the pending connections one by one (`idx`, with
the local variable `guess` = `maybe_router`), the loop of `_assign_id` (each
iteration a step, because whether it ends is a property), `_handle_accept`, and
one fetch per node. Endpoints and subordinate routers run in between: they
connect, ask or announce when their timeout expires, receive, say bye-bye, or
crash with a part of what they sent lost. A subordinate router also forwards the
bye-byes of its own nodes (`ForwardBye`, at most `MaxByes` under way), at any time:
for the router above they are bye-byes that come through that node, and
mark it unless it may be a router (`Marks`). Of messages only those of this
protocol are kept, and of a batch that a fetch handles all the messages are
taken together, as the code does. A restarted endpoint is a second connection
with the same id (`Replaces`). `MaxAsks` bounds how often each node's timeout expires.

**RouterRouting.** `Route` is one iteration of the handler of `_route_messages`:
the special message's effect on the index, the choice of where to send it, and
whether the message is removed or refused and kept. Time is abstracted: a
refused message may become too old at any time, an entry of
`_recently_disconnected` may expire at any time, an index entry is outdated only
for an endpoint that is off (one that is connected says more often than every 60
seconds that it is alive).

**BlobTransfer.** `Merge` is the common algorithm of `merge_fragment` and
`merge_resend_request`, with the set of offsets that the former writes;
`MergeStep` is what their loop does with one part that is there already. Of the
contents a receiver stores the model notes from which blob each byte came, so
that "intact" can be said. `ProcessOutgoing` sends one fragment of each blob;
`ProcessIncoming` merges a fragment into the blob that `Target` finds; `RequestResend`
is the resend part of `update`, with the request that the code computes, which
covers only what follows the first part. Time limits (`ExpireOutgoing`,
`Cancel`) may be over at any time. The bus loses messages (`Lose`: too old,
`router.inl:1095`, or with a connection) and delivers some twice (`Duplicate`: routers
flood what has an unknown target, `router.inl:1041`, and a block that was cut off is
written again, `asio.hpp:350`). A history, `doubled`, says which those were.

**AsyncCalls.** An invoker's promises by number, the requests and answers under
way, the skeleton's map by number, the queue of the workshop, and per worker
whether it is about to fetch, asleep on the condition variable, working, or
about to deliver; a thread in `wait_until_idle`, which `notify_one` may wake in
place of a worker, and `shutdown`. Sections under the workshop's mutex are one step. The flag
`finished` is read without the mutex, a data race: the skeleton may see an old
value, so `HandleOne` may answer any finished call, not only the first. The
model assumes that a worker's result is visible when its flag is, as it is on
the x86 builds that the repository targets. How many calls each invoker makes
(`Quota`) and the losses are bounds.

**StreamConnection.** A message is its number and its serialized size; a block
is the sequence of those that `pack_into` puts into it, `sending` the bits that
`cleanup` uses when the write completes. `Break` leaves any part of what was on
the wire to the reader, down to a part of a message, whose size is then clamped
to what there is (`CutShort`); what was being written is noted in `retried`. Each
connection that the acceptor makes has an inbox of its own, which may still be
fetched when the next connection is there. The chain of handlers of one socket is
sequential, so each completion is one step. The handler of `fetch_messages` takes
messages or refuses them (`Fetch`, `Refuse`): `fetch_all` keeps what was refused in
`_unpacked` and goes on with what is behind it, and calls the handler with it again
at the next fetch or after the next block. `Fetch` is one message that is taken, at
whatever position, all before it being refused; a history, `refused`, notes them.

**BridgeRelay.** The main thread of each bridge repeats `update` in the order of
the code: forward what the connection has (`Forward`), notify the output thread
(`Notify`), and, when it is to end, `SayBye`; then a second passes (`Slept`)
whatever the other threads do in it, and what the connection has is forwarded, the output
thread notified (`NotifyLast`) and the process ended (`End`), with as many more
rounds of `update` between as the second of `finish` allows. The output thread is
`Swap` (wait returns and the buffers are swapped, under the mutex), `Write` (each
line, without it) and `Wait`: a notification while it writes is lost, since the wait has
no predicate. `RecvInput` is `recv_input` with what `scan_until` needs: the reads are of
whole steps, and block until there are enough bytes or the input ends. Either bridge
may end at any time, because of a signal, a shutdown request, an idle connection or a
stream that is not good (`SayBye`, `FarDone`), or be killed (`Crash`, `FarCrash`); the far
one must when its input ends. It sleeps, fetches and forwards in the same way.

**SudokuSearch.** A board is an abstract value; what a board's alternatives are,
and which board a tile starts with given its neighbours, are constants, related
by the two assumptions that the algorithm relies on (the search is well
founded, and a start is never solved). `SendBoard` is one board sent to one
helper, `HandleResponse` one alternative, `TooLate` one board expanded by the
solver, `HelperUpdate` one board processed by a helper. That "done" comes after
the alternatives of its query (`LastOf`) is so inside a process; over a network
connection a smaller message may overtake (see `StreamConnection`), and the
constant `Ordered` says which. Any messages may be lost, each on its own: routers drop
what is too old (`TooOld`), and a helper's connection or the solver's may break
(`Crash`, `ConnectionLost`). A message may come twice (`Take`). When the solver's connection
works again, so does the solver, which has its id, but nobody announces that id on the new
connection (`endpoint.inl:401-431`), so that the router does not adopt it and passes
nothing on any more (`attached`, `Passed`). A helper that ended may be started again. The
history `lost` says which alternatives the bus lost, and `strayed` which of them, or of
those that were overtaken, were missing when the done of their query was handled.

**StackAllocator.** `Allocate` is `stack_byte_allocator::allocate` with the
`allocate` of `base_stack_allocator` in it (`Grow`), `Deallocate` likewise; the
branches of the latter are `MinAfter`, `DifAfter` and `PosAfter`, one per number
that it changes. `mem` is what the buffer holds, since `deallocate` reads from the
byte before a block where its memory begins; users may write whatever they like into
their blocks, which 0 stands for. A block knows its padding as history only.

## 3. Runs

Every run explores the complete state space of its instance.

| run | instance | shows |
|---|---|---|
| `direct` | 3 messages per direction, a handler that may refuse, fairness | both directions implement `MessageChannel` (`EachDirectionIsChannel`); `UnusableMeansGone`, `OnlyLateMessagesLost`, `EventuallyHandled`, `DisconnectNoticed` |
| `router_dynamic` | 2 endpoints, one of which asks twice, and a subordinate router that forwards bye-byes, pending timeouts, 5 ids | `TypeOK`, `IdsUnique`, `NodeHoldsItsId`, `NodesKept` |
| `router_restart` | one dynamic endpoint and two runs of a preconfigured one, each of which asks once, fairness | `EndpointsAreLeaves`, `EventuallyAdopted` |
| `router_exhausted` | 2 dynamic endpoints and a router whose id follows the range, a range with one id to give, fairness | `StuckOnlyIfExhausted` |
| `routing` | 3 routers, 2 endpoints, one of which may leave once, 3 messages, fairness | `AtMostOnce`, `IndexTowardsHome`, `EventuallyDelivered` while nobody left; `ByeForgotten`, `EventuallyQuiet` |
| `blob_transfer` | 1 blob of 4 fragments, 2 fragments and 1 request under way, 1 loss, 1 second delivery, fairness | `BlobInv` (types, and the parts of `PartsExact`), `FetchedIntact`, `FetchedOnce`, `EventuallyFetched` |
| `blob_mixed` | 2 blobs of 2 fragments with the same message type, no loss | violates `FetchedIntact`, see section 5 |
| `async_calls` | 2 invokers with 2 and 1 calls, 2 workers, a client that waits, shutdown, 1 loss, fairness | `WorkAlive`, `OutcomeRight`, `EventuallyResolved`, `WaitersReturn` |
| `sudoku` | 2 tiles, 7 boards, 1 helper, 2 queries under way, 1 fault (crash, losses, second copy, broken connection or reset), ordered connections, fairness | `NoBranchLost`, `TilesFit`, `EventuallyIdle`, `EventuallyTiled` |
| `stream` | 3 messages of 3 sizes, blocks of 5, 3 bits, 1 break, a handler that refuses, fairness | `StreamInv` (types, and `OvertakenOnlyBySmaller`), `DuplicatesOnlyRetried`, `ChannelUntilBreak`, `EventuallyReceived` |
| `bridge` | 3 messages, lines shorter and longer than a read, the end or a crash of either bridge at any time, fairness | `RelayInv` (types, and `RelayedInOrder`), `EventuallyRelayed`, `ByeHeeded` |
| `stack_alloc` | a buffer of 10 bytes, blocks of 0, 1 and 3 bytes with alignments 1 and 4, 4 at a time | `BlocksApart`, `Accounting`, `AllReturned` |

**Why the bounds are enough.**
*Connections*: two messages are needed to see an order and a third to be in the
buffer that is not handled; the proofs of section 4 hold for any number.
*Ids*: the hazards are pairs (two nodes and one id, two pending connections in
one pass, one run and the next), so two or three connections suffice; that one
endpoint asks twice makes requests overlap with answers and gives batches with two
requests, which cancel each other. It does so in `router_dynamic`; in `router_restart`
it asks once. There a bound of two would make a pair of requests that cancel each other
the last ones, where the code asks again until it is answered; and that its requests do
not come in pairs for ever follows from their timing, not from any fairness, so that
`EventuallyAdopted` says nothing about overlapping requests. One forwarded bye-bye under way is enough to mark a node. The range is 5 so that it does not
wrap, and 2 where it must.
*Routing*: three routers are a tree with siblings, so messages go up, down and
across; the hop limit 4 is the length of the longest way plus one, small enough
to be reached by a message that goes in circles (64 in the code). With three
messages one may be learnt from, one be under way and one be said afterwards.
*Blobs*: four fragments, of which two may be under way, with the second copy
of one of them, make done parts that have holes, that touch on both sides, and that
overlap with repeated ones; a copy may come after its blob was fetched.
*Calls*: two invokers whose first calls have the same number, one of them with a
second call, so that one promise can be late when another is answered; two
workers give a sleeper besides a busy one, and the waiting client a second
sleeper that a notification may go to instead.
*Search*: the first tile has one solution at once and one further down, so that a
late or lost answer changes the branch that wins, and only one of them allows the
second tile; one helper that may crash, be cut off or be outpaced by a reset
races with the solver in every way that a second one could, since helpers share
nothing. One fault may lose any set of messages, or repeat one. A helper that is busy takes no second board (`BacklogMax` 0), so boards
are also dropped. The proofs hold for any number of everything.
*Streams*: blocks take one large or two small messages, so that messages are left
behind and overtaken; one message is as large as a block and never fits. Three
messages are what it takes to refuse one, to leave one behind and to overtake both. That
all bits are taken by messages that never fit (`Stuck`) needs one message more than
there are bits and is not reached. One break gives an old and a new connection.
*Bridges*: three messages make one in each buffer and one on its way; a line of
one unit is shorter than a read of two, one of three longer.
*Memory*: four blocks are what the branches of `deallocate` need: one below `_min`,
one that ends there, one in a hole and the last one. The proofs hold for any number.

**Deadlock** is not checked where the modelled system comes to rest: both sides of
a connection gone (`direct`), nothing left to say (`routing`), all blobs sent
(`blob_...`), all calls settled and the workshop closed (`async_calls`), all
messages received (`stream`), both bridges ended (`bridge`), the field tiled
(`sudoku`), all places taken by blocks that were lost (`stack_alloc`). The router of `RouterIds` never rests, and deadlock is checked there.

**Fairness.** The programs of the repository run loops that call `update()` of
each endpoint and router again and again, so every step such a call makes has
weak fairness: fetching, handling, routing, sending the next fragment, asking
for a resend, fulfilling, packing, forwarding. Some steps have strong fairness because others disable
them for a while: `ServerGiveUp` (each fetch) and `UpdateDone`
(`router::update` leaves its inner loop after a bounded number of rounds),
and the searching, sending and updating of `SudokuSearch` (they are possible again and
again, but not always, as boards come and go and helpers get busy). That a second passes
in `BridgeRelay` (`Slept`, `FarSlept`) needs weak fairness only, as the sleep waits for
nobody; nothing says how much the other threads do in it. The handler of a stream
connection is called with each message that is there, but may refuse it for ever (`Offer`).
Worker threads are scheduled fairly; a condition variable does not wake up
spuriously, since nothing may depend on that. Nobody is obliged to connect, to
say something, to post a blob, to call, to wait for a workshop or to shut it
down, to leave or to crash, and nobody starts a helper again that ended. A solver whose
connection was lost gets another one (`ConnectionEstablished`), which does not bring the
bus back. Messages that are not lost arrive.

## 4. Proofs

`DirectConnection_proofs` proves, for every value of `MayKeep` and `MaxSent`:

| theorem | statement |
|---|---|
| `TypeCorrect` | `Spec => []TypeOK`: no buffer or handler sees a message not sent in its direction |
| `FifoCorrect` | `Spec => []FifoInv`: in a direction that refuses nothing, handled, then being handled, then waiting messages are exactly what was sent, in order |
| `UnusableCorrect` | `Spec => []UnusableMeansGone` |
| `LateOnlyCorrect` | `Spec => []OnlyLateMessagesLost` |
| `DirectionsAreChannels` | `Spec => EachDirectionIsChannel` |

The argument. `TypeOK` is inductive as it stands. `Fifo(d)` strengthens the
order of a direction to the three lists counting on from each other (`Counts`),
together with the fact that the pass over the front buffer ends at the last
swap; neither `handled` being in order nor the position of the swap is inductive
alone. `UsableInv` adds to `UnusableMeansGone` what the flag and `_is_usable`
are at each phase of a fetch: a connection is adopted only after a message
was handled, which needs a client that has connected, and the value that a fetch
writes is then that of a client that is or was alive. For directions
that may keep messages, where order is lost, `StoreInv` says instead that each
message sent is in exactly one place (handled, front, being handled, back) and
once; `GoneInv` adds what may be left in the buffers when the server is gone.
`DirectionsAreChannels` shows that the initial states map to
`MessageChannel!Init` and each step to `Send`, `Deliver` or a stutter under the
refinement mapping (`Waiting` is the union of the buffers); it uses `FifoInv`
for ordered directions and `StoreInv` for the other. The run has a handler that
may refuse, so that the direction to the router is unordered there; that it is
ordered when nothing is refused is shown by the theorem alone. One assumption is used:
`DirectAssumption`, the types of the constants.

`AsyncCalls_proofs` proves, for all sets of invokers and workers and all bounds:

| theorem | statement |
|---|---|
| `TypeCorrect` | `Spec => []TypeOK` |
| `WorkCorrect` | `Spec => []WorkAlive`: no pointer in the workshop's queue or in a worker's hands is to a call that was erased, and no two are to the same call |
| `OutcomeCorrect` | `Spec => []OutcomeRight`: a call's handlers are called at most once, with a timeout or with its own result |

The argument. None of the three is inductive alone; `AsyncInv` joins five facts.
`WorkAlive` says that what is queued or worked on is unfinished, pairwise
different and in the map, so that `handle_one`, which erases finished calls only,
cannot erase it, and setting the flag of one call leaves those of all other
users alone. `Results` says that a finished call, and one whose worker is about
to set the flag, has the result of its own arguments, and that these belong to
the invoker to which it will be answered; it needs `WorkAlive` (a worker's call
is in the map), and `TypeOK` needs it (an answer is made from a result).
`AnswersRight` carries this over to the answers under way. `Settled` says that a
call whose handlers were called has no promise any more and a number not
greater than the last one given, so that it cannot get a promise again;
`OutcomeRight` follows from it with `AnswersRight`. Shutdown leaves units in the
queue, which stay alive since nobody sets their flag. Assumed is only
`CallsAssumption`: the types of the bounds.

`SudokuSearch_proofs` proves, for all boards, tilings, helpers and bounds:

| theorem | statement |
|---|---|
| `TypeCorrect` | `Spec => []TypeOK`: every message and pending board has the number of a query that was sent, and no two pending boards share one |
| `BranchesCorrect` | `Spec => []NoBranchLost` |
| `TilesCorrect` | `Spec => []TilesFit` |

The argument. A solution is *covered* by a key if a board that waits or is pending
under it can still reach it. `NoBranchLost` fails to be inductive when a query
ends, since the pending board that covered a solution goes: the alternatives must
be covered by then, or be noted as strayed. So `SearchInv` says that a "done" on its way
has, for each alternative of its board, the alternative still on its way, in the
history of what was lost, or a cover of what it leads to (`DoneCovered`). When the "done" is
handled, an alternative that was lost strays, and on connections that do not keep the
order one that is still on its way does, since its number is unknown from then on;
where they keep it, `LastOf` says that none is. Nothing else strays: a lost query or "done", a
crash, a copy and a broken connection leave the board pending until its timeout.
`Origin` says that a message with a pending number belongs to that pending board,
which needs the numbers of `TypeOK` to be fresh, also after a reset. `BoardsFit`
says that all boards of a key were reached from the start of its tile as its
neighbours are now; a neighbour's solution never changes but by a reset, which
forgets the rest too, so `TilesFit` follows. Assumed are `BoardAssumption`,
`TilingAssumption` and `HelperAssumption`.

`RouterIds_proofs` proves, for all connections, kinds, restarts, ranges and bounds:

| theorem | statement |
|---|---|
| `TypeCorrect` | `Spec => []TypeOK`: no node is ever kept under the invalid id |
| `HolderCorrect` | `Spec => []NodeHoldsItsId` |
| `LeavesCorrect` | `Spec => []EndpointsAreLeaves` |
| `UniqueUnlessWrapped` | `Spec /\ [][sequence <= sequence']_vars => []IdsUnique`, if `OwnIdsReserved` |
| `KeptUnlessWrapped` | `Spec /\ [][sequence <= sequence']_vars => NodesKept`, if `OwnIdsReserved` |

The argument. What `_handle_pending` adopts depends on a whole batch of messages,
so the three need to know what a batch can be; `IdsInv` adds it. `UpRight` says that
whoever has an id announces only that one, an endpoint as an endpoint and a router
as a router, that one without an id announces nothing, and that requests come only
from those without an id and before any announcement. `DownRight` says that a
node with an id of its own is told only that id, and nobody the invalid one;
`AssignRight` that an assignment goes to a node that requested one; `UnreadRight`
that nothing is left to fetch between rounds. Hence a batch yields nothing, a
request or the connection's id (`FetchedFacts`), and the announcement of an
endpoint clears `maybe_router` before it is adopted. Assumed is `IdAssumption`.

`IdsUnique` is not true of every behaviour: it fails where the range wraps, as section 5
says.
`UniqueUnlessWrapped` shows that nothing else makes it fail, if those with ids of
their own have them from below the range and share one only when they are runs of
one program (`OwnIdsReserved`). `UniqueInv` is the reason: an id that an endpoint was
told, or will be told by a message on its way, is smaller than the sequence and
larger than `IdBase`, and no other endpoint was told it (`ToldOnce`); a node with an
id of its own has no other (`OwnIdKept`); of two runs of a program the former is
closed before the latter connects (`RunsInTurn`). `NodesKept` excepts runs that reused an
id, and routers that were taken for endpoints, which the bye-bye of any node of theirs
removes (section 5). It needs the same hypotheses, since with two nodes of one id the later one takes the entry of the
former, so it is no more true of every behaviour. `KeptInv` adds what a node can be dropped for:
`do_disconnect` is set only where the other side has closed, took over the id of an
earlier run, or is a router not known as one (`Marked`, `Left`), because an endpoint that
says bye-bye is closed from then on (`ByeClosed`) and, by `UniqueInv`, is no other than the
node that it is taken for (`SameId`). That a connection is accepted, pending or a node at
one place only (`InOnePlace`) is what makes the guess that it was adopted with stay.

`RouterRouting_proofs` proves, for any tree of routers, endpoints, limit of hops and bounds:

| theorem | statement |
|---|---|
| `TypeCorrect` | `Spec => []TypeOK`: no copy makes more hops than the limit |
| `IndexCorrect` | `Spec => []IndexTowardsHome` |
| `OnceCorrect` | `Spec => []AtMostOnce` |
| `ByeCorrect` | `Spec => []ByeForgotten` |

The arguments. An entry of an index is the node from which a `stillAlive` came, so
the statement is about copies on their way. `RouteInv` adds that `stillAlive` is said to
all (`AlivesToAll`), hence flooded, which needs no index; that while nobody left
the endpoints are where they started; and that every copy of a `stillAlive` goes
away from its endpoint (`AliveOutwards`). A router sends a copy to
every node but the one it has it from, and that is the one towards the endpoint;
so the next router has it from the node towards the endpoint too (`AwayStep`).
This is where the tree is needed: of two routers above one, one is above the other
(`UpLinear`), and a router is reached through at most one of its children
(`OneChild`). `Up`, the routers above one, is the least set closed under parents, so
that no recursion is needed.

`AtMostOnce` counts arrivals, so it needs to know what may still arrive. The
endpoints that are *beyond* a connection are those on the side of it to which it
leads. A copy of a message has *ahead* of it those beyond its connection (for a targeted message,
none but the target matters). A router sends copies to some of its neighbours, other than the one
towards which the copy came, and what is beyond the connections to different neighbours is
disjoint (`NeighbourBeyond`, `ViaInjective`) and part of what was ahead of the copy it took. So
no endpoint is ahead of two copies, nor ahead of one when it got the message (`Once`), and
the source of a broadcast is ahead of none (`NotBack`). For a targeted message this is so
only if the index, where it has the target, does not lead back; `KnownAhead` says
that it does not when all routers knew the target as it was said.

`ByeForgotten` is about an endpoint that said things at one router, left once, and whose
bye-bye was heard by some router. `Forgets` says of its words, `stillAlive` and
bye-bye, that those copies which come to a router from a child or from the endpoint itself
are on the way from its first router to the root, each with the number of hops that
this router is high (`GoesUp`); all others come down, and set entries to the parent only
(`IndexUp`). On the way up the bye-bye is in one place at most (`OneBye`) and behind all
`stillAlive` in the same connection (`InTurn`), because routers do not refuse what is said to
all; and it is *below* each router that has an entry other than to its parent, or a
`stillAlive` to come (`Follows`). The router that takes it forgets the entry; the hop limit
does not stop it before an entry or `stillAlive` that got further, as those had to make the same
hops. With empty connections nothing is below anything. That the endpoint left only once is
needed: with `MaxLeaves` 2, TLC shows a `stillAlive` said at the first router that is
forwarded after the bye-bye from the second one.

Assumed are `RoutingAssumption`, the types of the constants and that routers are
finitely many, and `TreeAssumption`, that no router is above its parent.

`Transfer_proofs` proves about `StreamConnection`, for all sizes of blocks and messages,
numbers of bits, and bounds:

| theorem | statement |
|---|---|
| `StreamCorrect` | `Spec => []StreamInv`: the types, and that on the first connection a message is overtaken only by a smaller one or because it was refused |
| `NoOtherDuplicates` | `Spec => []DuplicatesOnlyRetried` |
| `StreamIsChannel` | `Spec => ChannelUntilBreak` |

The argument. What was handled, an inbox per connection, the wire, and what waits
in the outgoing storage are the stations of a message. `Allowed` says of two messages,
one before the other, that they are the same only if it was retried, and, until a
connection breaks, that the one accepted later comes first only if it is smaller or the other one
was refused. `RowsAllowed` says this
within each station, `PipeAllowed` from each station to those behind it, so that moving
a block to the next station changes nothing, and taking a message from the middle of an
inbox only puts it before those that were just refused. The messages that
`cleanup` takes out of the storage by their bits are those that the block has
(`SendingThere`), wherever the block is by then. `pack_into` leaves a message behind only
if it does not fit, so those that it packs after it are smaller. `StreamIsChannel`
shows that until a break each step is a `Send` or `Deliver` of `MessageChannel` or a
stutter. The positions in sequences of messages are related by induction over their
length, for which the least element of a set of naturals suffices (`LeastNatural`,
`SetInduction`). Assumed is `StreamAssumption`, the types of the constants.

It proves about `BlobTransfer`, for all numbers of blobs, sizes of blobs and
fragments, receivers and bounds:

| theorem | statement |
|---|---|
| `BlobCorrect` | `BlobSpec => []BlobInv` |
| `BlobsIntact` | `BlobSpec => []FetchedIntact`, if `KindsDiffer` |
| `BlobsOnce` | `BlobSpec => []FetchedOnce`, if `KindsDiffer` |

The argument, in three invariants, each of which the next needs. `ListsInv` says
that the parts in all lists are sorted and do not touch, and that those of an
incoming blob cover exactly the offsets stored. Its core is the loop of
`merge_fragment`: `Loop` says after how many parts of `src` what `dst` covers,
what was written, and where the last part of `dst` ends, and each branch of
`MergeStep` keeps that (`LoopStep`), so that `Merge` covers the old parts and the
new one and writes at least what was not covered (`MergeFacts`). `IntactInv` says
that an incoming blob has data of its own blob only; one that is complete is one
part from 0 to its size, so all its data is its own. `OnceInv` is
about the fragment with offset 0, for each receiver: it is in the parts to be sent, under
way (once, `NetInv`), in one incoming blob, or in one fetched blob, and in at most one of these
places, unless the bus delivered it to this receiver twice (`BegunTwice`, `Settled`). It is
sent first and once, as `NextPart` leaves no part that starts
at 0 and a request asks for what is behind a part that came (`ResendFacts`); and as a blob
is complete only with it, what is sent again, or delivered twice, after the blob was
fetched may begin an incoming blob but never completes it. A second delivery of the first
fragment does: that is the exception which `FetchedOnce` makes. If the first fragment is lost, the
blob is never fetched.

`KindsDiffer`, that no two blobs have the same message type and target blob id, is a
hypothesis of the last two and not of the first. The code needs it: without it the
second `find_if` of `push_incoming_fragment` finds another blob, which is what
`blob_mixed` shows. Resource transfers meet it, as the target blob id is the sequence
number of the request (`resource_transfer.hpp:329`, `469`); `broadcast_blob`, whose target
blob id is always 0 (`endpoint.hpp:250`), does so only for one blob per message type. Assumed is `BlobAssumption`, the types of the constants.

`StackAllocator_proofs` proves, for any buffer, sizes, alignments up to 254 and bounds:

| theorem | statement |
|---|---|
| `TypeCorrect` | `Spec => []TypeOK` |
| `ApartCorrect` | `Spec => []BlocksApart` |
| `AccountingCorrect` | `Spec => []Accounting` |
| `ReturnedCorrect` | `Spec => []AllReturned` |

The argument. `BlocksApart` and `Accounting` are inductive together with the types,
neither alone: a new block is made at `_pos`, so that no block may be beyond
it, and `_pos` goes back to `_min` when `_dif` is zero, which is right only if `_dif`
counts the bytes in use above `_min` and no block goes across `_min`. The branches of
`deallocate` are one lemma (`ReturnedCounts`): a block that ends at `_min` or below
leaves the bytes between its end and `_min` to be counted, any other takes its own
away from the count. Counting is by cardinality (`SizesAdd`). When no block is left
nothing is in use, so both numbers are zero. Assumed is `AllocAssumption`, the types of
the constants; an alignment that fits a byte is what an assertion of `allocate` requires.

`BridgeRelay_proofs` proves, for any number of messages and sizes of lines and reads:

| theorem | statement |
|---|---|
| `RelayCorrect` | `Spec => []RelayInv` |

The argument. The messages that are not taken out are in seven places, one behind
the other: relayed, the front and back buffer of the far input thread, what it has
not read yet, the front and back buffer of the near output thread, and the near
connection. `RelayedInOrder` says of them together what order means, and with the
types it is inductive. A step of a thread takes the beginning of a place
away and puts what counts of it, which may be nothing, at the end of the place
before (`Shifted`), or takes it out and adds it to `gone`. The swap of a double
buffer is a shift of a whole place, if the farther one is empty: `TypeOK` says that
the output thread has emptied its front buffer whenever it waits, and the far main
thread fetches in a loop that ends with its own empty. Assumed is `BridgeAssumption`,
the types of the constants.

Only model-checked: all liveness properties (fairness and `ENABLED` are out of
the prover's reach).

## 5. Where code and documentation disagree

- `_assign_id` searches "a currently unused endpoint id value" (`router.inl:429`)
  among adopted nodes only; when the sequence wraps before an assigned id was
  announced, the id is assigned twice. The instance of `router_exhausted` has such a
  behaviour, which TLC shows when `IdsUnique` is added to its configuration; no run
  of the project has it, since `UniqueUnlessWrapped` says when it can happen.
- `blob_mixed`: a fragment of a second blob of the same message type, source and
  target blob id is merged into the first (`blobs.inl:358`); the test
  `msgbus_blobs.cpp:135` asserts that a fetched blob equals what was posted. The
  run needs the two blobs' fragments to arrive in turn.

Other observations, which no documentation contradicts and which the models
reproduce: an allocation from a full stack allocator fails the assertion
`m <= b.size()` though the line before provides for it (`stack_alloc.inl:217`), and
the fallback allocator prevents that only for blocks with bytes; one without bytes,
which it takes for a failure, keeps its padding for ever (`fallback_alloc.hpp:61`,
`lost` in `StackAllocator`); `maybe_router` is set once per call of `_handle_pending`
(`router.inl:272`), so that a subordinate router adopted in the same pass after an
endpoint is taken for an endpoint (endpoints are not taken for routers:
`EndpointsAreLeaves`) and is disconnected when it forwards the bye-bye of one of its
nodes (`router.inl:960`); an endpoint that restarts before its bye-bye was acted upon inherits
it and is dropped again (`router.inl:325`); a bye-bye sent just before the
maintenance finds the connection closed is lost; a subordinate router ignores a
bye-bye from its parent; a message to a target that routers do not know may
arrive twice; a first fragment that arrives again when its blob was fetched begins a new
one, which resend requests complete, so that the blob is fetched twice (`blobs.inl:413`); an
endpoint whose connection was replaced keeps its id and does not announce it on the new
one, so that the router passes nothing on to or from it (`endpoint.inl:407`), and the boards
of a solver wait for ever; resend requests are made while fragments still come rather than when
they stopped (`blobs.inl:254`), never for a hole between parts or for a lost
beginning; a call whose number equals that of a pending call of another invoker
is dropped silently (`skeleton.hpp:310`); a timeout of a call is reported only
when another answer comes (`future.hpp:189`); a message as large as a block is accepted
but never sent, and keeps one of the bits of every packing (`message.inl:190`); a
message may be handled with a part of its content when a connection breaks
(`asio.hpp:411`), and one that its handler refused is overtaken by those behind it
(`message.inl:250`); the output thread of a bridge misses a notification that comes
while it writes, and its last lines wait in the pipe for more to follow
(`bridge.inl:128`, `istream_source.hpp:34`); a bridge that ends does not ask whether
its bye-bye was written or its input read (`bridge.inl:588`, `626`), so whole lines may stay in
the pipe; when an alternative is dropped for its age, or overtaken where connections do not
keep the order, the "done" of its query erases the board all the same, and its branch is
lost (`sudoku.hpp:781`). The exceptions that the statements of
`NodesKept`, `EventuallyAdopted`, `ByeForgotten`, `AtMostOnce`,
`EventuallyFetched`, `EventuallyResolved`, `EventuallyReceived`,
`EventuallyRelayed`, `ByeHeeded`, `NoBranchLost`, `EventuallyIdle`, `EventuallyTiled`,
`FetchedOnce` and `StreamInv` make are these.

## 6. Not modelled

- The unlocked list of new connections of a `direct_connection_address`
  (`direct.hpp:111`): a data race on a vector, avoided by programs that connect
  before threads start.
- Block and allow lists, subscriptions and statistics of a router;
  `router.inl:929` tests whether `msgBlkList` itself is special instead of the
  message to block, so nothing is ever blocked.
- Certificates and nonces; signed blobs; the router's own blobs, whose fragments
  are taken once per node and dropped where the node is not the target
  (`router.inl:479`).
- Reconnection of a bridge or a router below a connection that it keeps, whose
  id is not announced again either (`bridge.inl:537`); that of an endpoint is part of
  `SudokuSearch` only;
  messages of a parent that has not confirmed the router's id, which are handled
  with the incoming id 0 (`router.inl:1114`); a sender of blobs that restarts and
  counts from 1 again (`blobs.inl:585`).
- A bridge's id, pings and statistics, and the time before its state exists, when
  `notify_output_ready` would go through a null pointer (`bridge.inl:460`).
- Datagram sockets and the resolver; message queue and loopback connections; the
  tracker; the services but for the search.
- Work units that ask to be repeated; the lazy and synchronous skeletons; timeouts
  of calls as durations; handlers that call again from within `update`
  (`future.hpp:43`); the example that destroys its skeleton before its workshop
  (`010_fib_async.cpp:37`).
- The generation of sudoku alternatives; keys looked for in a list from which
  entries were moved (`sudoku.hpp:630`): the model looks into the list as it was.
- The order in which a queue of subscribers is processed within one update: `push`
  puts a message before those of equal priority (`message.hpp:728`).
- Of the memory allocators: `truncate`, which nothing calls; the stack allocators
  that never return memory or align all blocks alike; the statistics of the fallback
  allocator, which nothing reads; reference counts, buffer pools and arenas.
- Contents, formats and encodings of messages, serialization, logging.

## 7. Plan

Modules, most important behaviour first; all of these are done.

1. `MessageChannel`, `DirectConnection` (with proofs)
2. `RouterIds` (with proofs)
3. `RouterRouting` (with proofs)
4. `BlobTransfer` (with proofs)
5. `AsyncCalls` (with proofs)
6. `SudokuSearch` (with proofs)
7. `StreamConnection` (with proofs)
8. `BridgeRelay` (with proofs)
9. `StackAllocator` (with proofs)

What could follow:

10. Reconnection in general and the confirmation of the parent link, in
   `RouterIds` or in a composition with `RouterRouting`; block lists.
11. `Certificates`: the exchange of certificates and nonces of `context.inl`.
12. `Tracker` and ping-pong: expiry and late answers.
13. Datagram connections, and the hand-over of POSIX message queues.
