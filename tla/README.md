# hast_web in TLA+

TLA+ models of [hast_web](../src/README.md), a header-only C++ library for
WebSocket servers on Linux, with TLC runs on small instances and TLAPS proofs
for every value of the constants. Line numbers refer to `src/hast_web/`.

## The system

A server object is shared by one *accepting* thread (the caller of
`start_accept`) and a pool of at most `max_thread` threads, each of which runs
the application's function `execute(i)`:

    while (server.msg_recv(i) != RECYCLE_THREAD) { /* raw_msg[i] is a request */ }
    server.done(i);

| Component | State | Operations | Hard about it |
|---|---|---|---|
| `server_thread`, the pool | `status[]`, `thread_list[]`, `socketfd[]`, `recv_thread`, `thread_mx` | `init`, `get_thread`, `add_thread`, `resize` | most accesses are unlocked; `resize` joins; slots are reused |
| `socket_server`, receiving role and hand-over | `got_it`, `wait_mx`, locals of `recv_epoll` | `msg_recv`, `recv_epoll`, `done` | one waiting thread becomes the receiver, polls with epoll and hands sockets over through `socketfd`, `status` and `got_it` without a lock |
| `socket_server`, closing and pending list | four lists `pending_*`, `close_mx`, `ev` | `close_socket`, `push_pending`, `pop_pending`, `clear_pending`, `epoll_on` | descriptors are reused while old uses of them are still being swept |
| `socket_server`, message reader | `raw_msg[]`, the pending lists, locals of `more_data` | `more_data`, `read_loop`, `msg_pop_pending` | messages cut into frames, frames into segments, several messages in one read |
| `socket_server`, frame codec | none | `makeFrame`, `makeFrameU`, `get_blob_frame`, `getFrame` | three length forms, masking key, undefined shifts |
| `socket_server`, partial receiving | as the reader | `partially_recv`, `more_recv` | other rules for arming and for the pending list |
| `ws_server` | none of its own | `start_accept`, `write`, `echo_back_*` | shares `ev` and `recv_thread` with the pool |
| `wss_server` | `ssl[]`, `ssl_map`, `ssl_mx` | overrides of `recv_epoll`, `close_socket`, `read_loop`, `pop_pending`, `write`, `start_accept` | a second lock, the life of SSL objects |
| `upgrade`, `crypto.hpp`, `file_to_blob` | none | HTTP request, accept key, file input | sequential data |

They interact through shared memory only. The receiver (the thread whose index
is `recv_thread`) scans `status`, locks `wait_mx`, recycles idle threads, waits
in `epoll_wait` and hands each ready socket to a waiting thread; it then waits
for `got_it`. A worker reads everything there is, returns the first message,
puts the others on the pending list, arms the socket again and asks other
threads by `READ_PREFIX` to take a message from the list. A thread with nothing
to do parks: it takes the receiving role if that is vacant, and otherwise
blocks on `wait_mx`, which the receiver holds while it polls.

What makes each component correct:

* pool: a slot never runs two threads; a thread is joined once, after it was
  told to return; a slot that counts as waiting runs a thread;
* role and hand-over: one receiver; sockets go to live threads; a hand-over is
  acknowledged; a vacant role is taken again; polling goes on while
  applications work;
* pending list: an announced or unannounced message is not forgotten;
* reader: messages come out whole, once, and in order for one thread;
* codec: decoding inverts encoding, and a cut frame is never taken for whole;
* partial receiving: the parts of a message make up that message;
* TLS server: a registered socket has an SSL object, the table of objects never
  names a freed one, an object is not freed while it is used, and `ssl_mx` is
  given up by whoever holds it.

`PROJECT.json` lists the hazards with their lines and the properties aimed at
them.

## Modules

| Module | Models | Lines of the source |
|---|---|---|
| `ThreadPool` | what the pool promises: slots are empty, running or returned; a leader joins | abstract |
| `ServerThread` | `server_thread` | `server_thread.cpp` 45–160 |
| `Kernel` | descriptors, one level-triggered epoll instance, clients | external |
| `SocketServer` | `msg_recv`, `recv_epoll`, `close_socket`, pending list, for whole messages | `socket_server.cpp` 24–48, 215–331, 379–420, 476–535, 573–703, 945–969 |
| `WsServer` | `start_accept`, `write`, the application, and the composition of all the above; the properties | `ws_server.cpp` 1–156 |
| `Frame` | the codec as operators | `socket_server.cpp` 120–152, 775–943 |
| `FrameArrival` | one frame arriving at `getFrame` in segments | same |
| `MessageStream` | what reading a connection promises | abstract |
| `MessageReader` | `more_data`, `msg_pop_pending` and `msg_recv` on real bytes of one connection | `socket_server.cpp` 303–460, 485–571, 573–703 |
| `PartialReader` | `partially_recv`, `more_recv` and the application that puts parts together, on top of `MessageReader` | `socket_server.cpp` 461–474, 705–773; `examples/upload_image/wss.cpp` 11–71 |
| `PendingQueue` | what the pending list promises | abstract |
| `PendingLists` | the four lists `pending_*` | `socket_server.cpp` 485–535, 945–969 |
| `WssServer` | the TLS server, on top of `WsServer` | `wss_server.cpp` 31–191, 287–513 |
| `MCWsServer`, `MCWssServer`, `MCMessageReader` | symmetry and constants for TLC | |
| `WsTypeProofs`, `WsPoolProofs`, `WsRoleProofs` | theorems about `WsServer`, each module on top of the one before | |
| `WssProofs` | theorems about `WssServer`, on top of those | |
| `FrameProofs`, `PendingProofs` | theorems about the codec and the pending lists | |
| `ReaderProofs`, `OrderProofs` | theorems about `MessageReader` and `PartialReader`, the second on top of the first | |

### Correspondence

*Threads.* `pc[x]` is the next step of actor `x` (a slot, or `Acceptor`).
Labels are named after the code at them: `park`, `park_status` and `park_role`
are lines 596–606; `wait`, `wait_role`, `wait_status` and `wait_mx` are the four
reads of the inner loop 607–623; `give_fd`, `give_status`, `give_ctl` and
`acknowledge` are 278, 279, 281 and 283; `get_own`, `get_take` and `get_mark`
are what `get_thread` does after its scan (113, 114 and 97, 115 or 122). Functions called from several places
(`get_thread`, `add_thread`, `resize`, `close_socket`) are subroutines with a
return label in `ret`. Locals of a function that one thread runs at a time are
plain variables; others are functions of the actor.

*Atomicity.* One action is one access to a shared field, or a stretch that no
other thread can come between. A critical section is one action when all its
accesses are covered by its lock, and is split otherwise: parking is three
steps because `recv_epoll` and `resize` write `socketfd` and `status` without
`thread_mx`, `resize` resets `status` and `socketfd` of a joined slot in two
(77, 78), and the sweep of `close_socket` tests and resets `socketfd` slot by
slot (38, 39), as `recv_epoll` and `resize` write it without `close_mx`. The scan
of `get_thread` is one step: no slot becomes `WAIT` without `thread_mx`. After it
`recv_thread` is read again, twice, and the receiver may have resigned: what
stands in `status[-1]` is a choice, and a mark that goes there changes nothing in
the model. The unlocked accesses are data races in C++. The build command of
`README.md` has no optimisation, so each is modelled as one load or one store in
program order; `got_it`, `status` and `recv_thread` are re-read in every
iteration of a waiting loop.

*Data.* In `SocketServer` a message is whole and anonymous: `inbox[s]` counts
those in the receive buffer, and a peer that has finished or reset stands for
everything `more_data` refuses (end of stream, close and ping frames, errors,
empty messages). `MixedReads` says whether such a frame may come in the same
read as messages. `loop_amount` saturates above `resize_while_loop`.
`MessageReader` is the other half: it keeps the bytes and leaves the pool out,
so that any waiting thread may be given the socket while it is armed, and any
waiting thread may be told to pop. Its application returns at once. The
hand-over gives the socket away (`Take`, 278–279) before it disarms it
(`Disarm`, 281), and polls again only after that; the worker may be done and have
armed the socket again by then, which `Disarm` undoes for good: `undone` records
that. `push_pending` finds the pointer it returns after it unlocked (`Back`,
534), and it may be that of another thread's element. One
`read_loop` is one action that takes any number of the bytes sent. A payload
byte is the number of its message plus 256; header bytes are themselves.

*Clients.* What kind of client it is, how many threads serve it and through
which function is a record chosen in the initial state (`client`), so that one
run covers all kinds. Some clients do what the reader does not cope with, and
are in the run for what holds nevertheless; `Orderly` says of which clients
messages are promised to be whole: segments do not end in the first two or the
last four bytes of a frame (see `cut`), a message of several frames is not sent
behind or before another (see `pipelined`), the client does not pause for 3 s
within a message, and messages sent one behind the other are received in parts
by a single thread only.

*Messages by their bytes.* `delivered` records what `msg_recv` returned, not
which message it is: that is a question of what was sent. Two empty messages
cannot be told apart, so `InOrder` compares the returned messages with the first
ones sent, place by place; `ReaderIsStream` gives numbers to messages and is
stated of clients that send no empty one (`ToldApart`); `NothingTwice` counts
bytes.

*Partial receiving.* `file[t]` is what the application has collected of a
message; it counts as delivered with the part whose type is `DONE`. `owners` are
the threads whose `socketfd` is the client's: `partially_recv` arms that socket
when the thread comes back (714), whoever reads from it by then.

*Four lists.* `SocketServer` and `MessageReader` keep one list of records.
`PendingLists` keeps the four, and `PendingProofs` shows that three of them are
that list; the fourth, `pending_binary`, keeps its length but not its flags.

*TLS.* `WssServer` takes the inherited steps of `SocketServer` as they are
(`Base`), wraps `close_socket` in `ssl_mx`, and replaces what the class
overrides. SSL objects are numbers in the order of `SSL_new`; a freed number is
never used again, so that use after free is seen as such. `ssl_mx` is taken and
given up where the code does, and accesses to `ssl_map` and `ssl[]` outside of
it are steps of their own. A TLS handshake ends in success or failure whenever
the client likes. The application is that of `basic/wss.cpp`: it replies with
`echo_back_msg`, which may fail and close the socket, or does not reply.

*Kernel.* `Accept4` returns any free descriptor, so a closed one comes back at
once; `accept4` may also fail (`AcceptFails`), which ends `start_accept`, while
the pool goes on with the clients it has. `epoll_wait` returns as many ready sockets as the array holds, in any
order; a reset is reported whatever the interest is. `EPOLL_CTL_MOD` on an
unregistered descriptor fails without effect.

## Runs

All runs have `CHECK_DEADLOCK FALSE`: clients need not do anything, so the
server may well wait for ever in `epoll_wait`.

| Run | Instance | Properties |
|---|---|---|
| `pool` | 3 threads, 1 connection, 3 messages | `TypeOK`, `RecvExclusive`, `JoinSafe`, `WaitingIsLive`, `PendingServed`, `OneReader`, `StepsDownWithWork` |
| `sockets` | 2 threads, 2 descriptors, 2 connections, 2 messages | `IndexInArray`, `HandOverToLiveThread`, `PoolAlive`, `StartsInEmptySlot`, `PoolIsThreadPool` |
| `live` | 2 threads, 1 connection, 3 messages, fairness | `RoleReacquired`, `LocksReleased`, `PendingTaken` |
| `frame` | 16 payload lengths around 125, 65535, 2^24 and at the top | `WholeFrameDecoded`, `NoEarlyFrame` |
| `reader` | 8 kinds of clients, 1 or 2 threads, 3 messages, fairness | `ReaderTypeOK`, `NothingTwice`, `InOrder`, `ReaderIsStream`, `AllDelivered` |
| `wss` | 2 threads, 1 descriptor, 3 connections, 2 messages, fairness | `WssTypeOK`, `RegisteredHasSsl`, `SslMapLive`, `SslRecvExclusive`, `SslPendingServed`, `PoolIsThreadPool`, `SslMxReleased` |

Six more runs show disagreements between the code and what the repository says
of it; each is expected to be violated and has a finding in `PROJECT.json`:

| Run | Property | What happens |
|---|---|---|
| `parallel` | `ScanEnds` | `msg_recv` returns with status `READ` (701 is unreachable), and the receiver's scan (234) repeats until that application is done |
| `hand_over` | `HandOverAcknowledged` | a worker on its way from 624 to 597 erases the socket just given to it; the receiver waits for `got_it` for ever |
| `recycle` | `JoinEnds` | `resize` joins, holding `wait_mx`, a thread that is at `wait_mx.lock()` |
| `cut` | `StaysUp` | a masked frame that lacks up to four bytes is decoded beyond the buffer; `substr` throws |
| `pipelined` | `WholeMessages` | a fragmented message completed on the pending list stays marked unfinished, and the next message is appended to it |
| `freed` | `SslInUseIsLive` | a thread replies with an SSL object that another thread, at work on the same client's next message, has freed |

Two more disagreements were met and have no run of their own. A socket that the
receiver gives to itself (286–297) makes `ScanEnds` fail in a second way. And
`more_data` returns the type of the *last* frame of a read for the *first*
message: a text message with a binary one behind it is returned as
`DONE_BINARY`, and a fragmented binary message as text.

What two of the properties except:

* `IndexInArray`: a reader in `get_thread` that finds, after the scan, that the
  receiver has just resigned looks at `status[-1]`, and may mark it (113–115).
  Both places are reached in `pool` and in `sockets`. The receiver itself never
  gets there, nor does any other use of an index.
* `AllDelivered`: a worker that has read its message and armed the socket (480)
  before the receiver's `EPOLL_CTL_MOD` of the hand-over (281) has its socket
  muted (`undone`). What the client sends next is not read, unless a later
  `epoll_on` arms the socket. Without the exception `reader` is violated.

What else the models show, without a run of its own:

* A client that pauses for 3 s within a message received in parts makes
  `more_recv` return `NO_MESSAGE` (which `examples/upload_image/wss.cpp` 58 says
  should not happen); the application gives up, and the rest of the message is
  taken for a new one. In `reader` such a client is `SlowUpload`.
* With two threads and messages sent one behind the other, `partially_recv` arms
  a socket that the other thread reads from, and parts are mixed up.
* `clear_pending` does not advance its iterator of `pending_binary` (956): what
  it erases is the flag of the oldest message, so later flags belong to other
  messages.
* In `wss_server`, an event that is handled after its descriptor was closed and
  opened again closes the new connection before it has an SSL object (370); the
  object then stays in `ssl_map`, and the next connection with that number is
  turned down (161).
* `start_accept`, when registering fails (174), frees the object it has already
  entered in `ssl_map`: in between, `close_socket` of another thread may have
  freed it, or frees it afterwards. `SslInUseIsLive` says that neither happens;
  `freed` shows the shorter way to violate it, and with three connections, as in
  `wss`, TLC finds both second `SSL_free`s as well. The object freed when
  `start_accept` ends (188) is never one of these.
* A client that stops in its TLS handshake, or does not read a reply, keeps
  `ssl_mx` (62–96, 483–512), and with it every read, write and close of the
  server. `SslMxReleased` holds under the assumption that none does.

### Bounds

* `MaxThread`: three threads are a receiver, a worker and one being recycled or
  started at the same time, which is as many as any of the safety properties
  relates; runs with two descriptors use two threads to stay small.
* `MaxMessages = 3`: one returned, and two on the pending list, in one read;
  with one read after another, the list is filled while it is being emptied.
* `MaxAccepts = 2` with two descriptors: one connection is closed while another
  is served, and a descriptor is used again.
* `resize_while_loop` is 20 in the code; 0 and 1 here, so that recycling
  happens as early as it can, with and without a poll in between.
* `MAX_EVENTS = 2` holds all events of the instances.
* `wss`: three connections on one descriptor are one that is closed, one that is
  opened while the old number is still in use, and one that meets what these
  two have left. `MaxTraffic = 4` bounds connections and messages together:
  three connections and one message, or two and two messages, sent on one of
  them or one on each. `freed` needs one connection and two messages.
* `Clients`: payloads of 0, 1 and 6 bytes, one to three frames; three messages
  are one returned and two on the pending list. Empty messages, which make the
  server close the socket, have kinds of their own. The length forms are the
  business of `frame`, whose proof covers every length.
* `MaxBehind = 2` bytes of a next frame: `getFrame` only asks whether there are
  any.

### Fairness

`ServerSpec` has weak fairness for the steps of each thread and of the
accepting thread: a thread that can go on does. Locks are
awaited with weak fairness only. `Accept`, the clients and the application
(`UserStep`) are not fair; `PendingTaken` assumes `ApplicationReturns`, and
`parallel` does not (a request may take long); `hand_over` and `recycle` use
`FairSpec`, which assumes it of every thread.

`FairReader` adds weak fairness of all server steps together, the
receiver's `Disarm` among them, for orderly clients: as long as some thread can go on, one does. That is less than
fairness of each thread. Its client may stop at any time, and bytes sent arrive.

`FairWss` adds weak fairness only of the steps that end the holding of
`close_mx` and `ssl_mx` (`HolderStep`): those of a running thread, as above, and
two that depend on the client, that it ends its handshake, well or badly, and
that it reads what is written to it. The code has no time-out for either.

## Theorems

Of `WsServer`, for any number of threads, descriptors, connections and messages:

* `WsTypeProofs!ControlInvariant`, `ReceiverExclusive`:
  `Spec => []RecvExclusive`. `RecvExclusive` is not inductive: that `park_role`
  finds the role vacant says nothing unless subroutines called by `recv_epoll`
  return into it, and the thread that resigns is the one that holds the role.
  The invariant `Control` adds that a caller is recorded exactly while a
  subroutine runs (`CallsReturn`), that the critical sections of `thread_mx`
  hold it (`MutexHeld`), and that a slot without a pointer runs no thread unless
  its creator is about to store the pointer (`FreeSlotIdle`), so that a thread
  `add_thread` starts begins outside of `recv_epoll`. The lemmas are stated for
  `ControlIn`, the same invariant with sets of labels as parameters, so that
  `WssProofs` can use them for a server with more places.
* `WsTypeProofs!TypeCorrect`: `Spec => []TypeOK`. `count` and `unpushed` never
  pass below zero, and no event is taken from none; of indices it says nothing
  (see `IndicesInArray`). It rests on `ControlInvariant`, on `Work`
  (an event is at hand when one is handed over, a message is counted before it
  is taken off) and on `Sweeping` (`resize` is run by the receiver only, stays
  inside its array and works on other slots than its own), and has one lemma
  per group of actions.
* `WsPoolProofs!SlotsInvariant`, `JoinIsSafe`, `WaitingSlotIsLive`,
  `StartsInEmpty`: the pool. `resize` joins and resets a slot without
  `thread_mx` while `add_thread`, called by the accepting thread, looks for an
  empty one, so none of these is inductive. `SInv` says of each slot how
  status, pointer and thread fit: a pointer that is set has a thread
  (`PointerHasThread`), the slot about to get one has none (`StoringPointer`),
  `resize` marks or joins slots with a pointer only (`ResizeTarget`), and `RECYCLE`
  stands at a slot with a pointer, but for the one just joined, where a new
  thread may have been started that has not looked at its status yet
  (`RecycledHasPointer`). Most actions change slots in the same few ways; each
  is shown to be `Calm`, and the invariant is shown once for calm steps and once
  for each step of `resize`.
* `WsPoolProofs!ImplementsPool`: `Spec => PoolIsThreadPool`, the refinement.
  Every step keeps the life of each slot and the role (`SameLife`, a stutter of
  `ThreadPool`), but for the one of `add_thread` that starts a
  thread, the end of a thread, the join of `resize`, and taking or giving up
  the role. The guards of `ThreadPool` (a slot that is empty, a thread that has
  returned and does not lead, a leader that joins) follow from where a thread
  stands; `NextRefines` states that for any server in which they hold, as
  `WssServer` needs it too.
* `WsRoleProofs!RoleInvariant`, `HandsOverToLiveThread`, `PoolStaysAlive`,
  `LeavesWithWork`: the role. `get_thread` picks a waiting slot, and several
  steps later `recv_epoll` writes to it; nothing locks the slot. `RoleFit` says
  that what was picked is `Held` until the acknowledgement: only the receiver
  tells threads to recycle, and it does not while it hands over. `Recycling`
  says that nobody is told while the role is vacant, that the receiver is never
  told, and that its last `resize` joins all it has told: otherwise a thread
  could take the role and then return with it. From these, somebody always
  lives once a thread was started (`StartedStays`), and a registered socket has
  a thread (`RegisteredHasThread`).
* `WsRoleProofs!PendingIsServed`: the list grows by `push_pending` only, from a
  thread that will look at it (`PendingGrows`), and such a thread stays one
  until it finds the list empty in `msg_recv` (`ServingStays`). It needs
  `NoTail`: without mixed reads no thread has a refused frame behind the
  messages of its read, which would make it drop the first of them and park.
* `WsRoleProofs!ReadsAlone`: `Spec => []OneReader`. The right to read is in one
  place from the hand-over to `epoll_on` (`OneHolder`): an armed socket is held
  by nobody but the thread it is being given to (`ArmedUnheld`), an event that
  is not handed over yet is of a socket nobody holds (`EventUnheld`), and what
  is given has input (`GivesInput`). Only `give_fd` gives the right, only
  `epoll_on` and `start_accept` arm. That all of this is about the same socket
  is `OneConnection`: with one connection, everything that names a descriptor
  names the same one. With more, `OneReader` says nothing, and an old event for
  a number that is used again does break it.

* `WsRoleProofs!IndicesInArray`: `Spec => []IndexInArray`. What the receiver has
  in its hands is a slot by `RoleFit`, what `resize` has by `Sweeping`, what
  `add_thread` stores to by `StoringPointer`. Two things are added: `b` is -1 only
  while the receiver is on its way out (`NoneLeaves`), so that the next scan does
  not start there, and `close_socket` counts through the slots (`CloseInRange`).
  That a reader finds `recv_thread` set in `get_thread` is not true, and not
  claimed.

Of `WssServer`, likewise:

* `WssProofs!WssControlInvariant`, `SslReceiverExclusive`: `Placed`, `ControlIn`
  for the labels of `WssServer`. `WssStepKinds` shows that a step of the TLS
  server is a step of `ws_server` or one of those it adds, so that the lemmas of
  the three modules above apply to the former.
* `WssProofs!WssInvariant`, `WssTypes`, `RegisteredSsl`, `MapIsLive`:
  `start_accept` writes `ssl_map` without `ssl_mx`, and closing reads, frees and
  resets an entry in several steps. The invariant `WInv` says that an object is
  made for one descriptor (`MapNamesOwner`, so no two entries name the same
  one); that whoever closes holds `ssl_mx` and its socket is not open
  (`ClosersHold`), nor can it become so, as accepting needs `ssl_mx`
  (`SslMxHeld`); that a registered descriptor is open (`RegisteredOpen`); and
  that the object `start_accept` has in hand is not freed and named by no entry
  until it enters it (`SpareUnmapped`), and from then on by the entry of the
  socket it registers (`RegisteringMapped`). The steps that leave the tables
  alone are dealt with together.
* `WssProofs!SslImplementsPool`: `WssSpec => PoolIsThreadPool`. What the TLS
  server adds starts and ends no thread and leaves the role alone
  (`NewStepSameLife`); its other steps are those of `NextRefines`.
* `WssProofs!SslPendingIsServed`: as `PendingIsServed`; what `WssServer` adds
  (the reply, the close after a failed one) is between taking a message and
  looking at the list again.

Of the other modules:

* `FrameProofs!FrameRoundTrip`, `FrameNotEarly`: decoding inverts encoding for
  every length up to 127·2^24, and no prefix of a frame is taken for data. The
  argument is that every header *announces* its type and length
  (`Announces`), by base-256 arithmetic for each of the three forms, and that
  `getFrame` depends on a header's bytes only as far as they have arrived.
* `PendingProofs!ListsSameLength`, `ListsImplementQueue`: the four pending lists
  keep the same length, and without the binary flags they implement
  `PendingQueue`, for any messages and sockets and lists of any length. Erasing
  one element shortens a sequence by one wherever it is (`WithoutIsSeq`, cited
  for both places `clear_pending` erases at), so `pop_pending`, which only looks
  at `pending_done`, never takes the front of an empty list; the refinement has
  one step per operation, where erasing element `i` of three lists is erasing
  element `i` of the list of records. `PendingLists` is proved and not run: its
  lists have no bound of their own.

* `ReaderProofs!ReaderTypes`: `PartialSpec => []ReaderTypeOK`, for every kind of
  client, with any number of threads and messages of any number of frames. What
  `getFrame` returns is a part of its buffer (`GetFrameIs`), which takes the
  length a header states into account; the elements of the pending list keep
  different numbers (`Named`), though an element is looked up by `str` long
  after it was pushed.
* `ReaderProofs!NothingIsTwice`: `PartialSpec => []NothingTwice`. Two threads may
  read from the socket, and one may take an element of the pending list that
  another is still writing to; the theorem says that for all that no byte is
  doubled. `NothingTwice` counts bytes in returned messages, and that is not
  inductive: bytes are on their way in buffers, in `raw_msg`, in files and on the
  list. The invariant `Own` says that there is a map from the bytes received to
  the places they are at (`Places`), so that each byte anywhere is another one of
  the stream: `read_loop` adds the next bytes of the stream (`OwnReceive`),
  everything else moves bytes from one place to another (`OwnMoved`, `OwnTaken`)
  or loses them (`OwnLess`). `Counted` says that the stream has the byte of a
  message as often as the message has bytes: headers have none. A map from the
  places in `Given(k)` to those in the stream that repeats nothing then gives
  the bound.

* `OrderProofs!MessagesInOrder`: `PartialSpec => []InOrder`. Nothing in the state
  says where in the stream a message begins: the server has a buffer, a flag or
  two, and a list. The invariant `Ordered` says that nevertheless all is in step
  (`InStep`): with `d` messages returned and `p` on the pending list, what was
  decoded ends where the first `d + p` messages do (`Idle`), or some frames
  further, whose payload is in `raw_msg` or the file (`FirstMessage`), or one
  message further, when the first of the read waits to be returned (`Further`).
  At most one thread is at work on the socket (`Busy`), for which a client
  received in parts needs `Owning`: who arms the socket in `partially_recv` is
  the one that read it. `Laid` says that the stream is the frames of the messages
  sent, one behind the other, and at most a close frame; `Sending`, that a
  message of several frames has no other beside it. Closing the socket empties
  the list, and an abort ends everything, so neither needs to be in step.
  Whatever `getFrame` takes for data where a frame begins is that frame
  (`FrameIsNext`), and behind the last message it finds none (`NoFrame`); its other
  results read on, close the socket or end the process. So of `Orderly` only
  `Steady` is needed: segments that end close to the end of a frame may end the
  process, but do not get the reader out of step.
* `OrderProofs!ReaderImplementsStream`: `PartialSpec => ReaderIsStream`, the
  refinement of `MessageStream`. That messages are whole is `Ordered`
  (`GivenWhole`), also where several threads take them in any order. That none
  is returned twice is not, as two threads may differ about the order; it follows
  from `NothingIsTwice`'s count: a message returned at two places would have
  more bytes in what was returned than it has (`GivenOnce`, `OneMorePlace`). The
  refinement mapping finds a message's number by its bytes, and keeps it when
  more is sent (`SameNumbers`).

What `FlattenSeq` yields, on which all four rest, is proved by induction: the
library's induction theorem takes an operator, but over the *set* of numbers
for which a fact holds, with a least element of its complement
(`LeastElement`, from `NatLessThanWellFounded`), it is first-order
(`Induction`).

They assume what the modules assume of their constants: at least one thread and
one event, finite sets of descriptors (without -1) and of threads that serve a
client, bounds in `Nat`, and lengths below `MaxLength`.

Only model-checked: everything under fairness (`RoleReacquired`, `LocksReleased`,
`PendingTaken`, `AllDelivered`, `SslMxReleased`), as TLAPS does not do liveness.
Every other property of a passing run is a theorem.

## Not modelled

`upgrade`, `crypto.hpp` and
`file_to_blob` (sequential data; the outcome of `upgrade` is a choice of
`start_accept`); socket set-up in `init` and the destructors (before the first
thread, after the last), OpenSSL's in `wss_server::init` among them;
`examples/stop.cpp`; `get_thread_no_recv` (no caller). `hast/tcp_config.hpp`
is not part of the repository. Callbacks of the application (`on_connect`,
`on_open`, `on_close`) accept or refuse and do not call the server.

## Plan

1. Core: `ServerThread`, `Kernel`, `SocketServer`, `WsServer`, `ThreadPool`;
   runs `pool`, `sockets`, `live` and the three violations. Done.
2. Proofs of the core: `WsTypeProofs`. Done.
3. Codec and reader: `Frame`, `FrameArrival`, `FrameProofs`, `MessageStream`,
   `MessageReader`. Done.
4. `PendingLists`, `PendingQueue` and `PendingProofs`. Done.
5. `PartialReader`: `partially_recv` and `more_recv`. Done. No property is about
   message types, as the repository does not say what they should be where the
   code goes wrong.
6. `WssServer`. Done.
7. Proofs of the pool, the role, the pending list and the reading of one
   connection (`WsPoolProofs`, `WsRoleProofs`), of the refinement of
   `ThreadPool` by both servers, and of the safety of `WssServer`
   (`WssProofs`). Done.
8. Proofs of `MessageReader` and `PartialReader`: the type invariant and
   `NothingTwice` (`ReaderProofs`), the order of messages and the refinement of
   `MessageStream` (`OrderProofs`). Done.
