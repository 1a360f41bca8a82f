# TLA+ models of ez

ez is a small C++ networking and cryptography library. This directory holds
TLA+ modules translated from its source, TLC configurations that check them on
small instances, and proofs checked by TLAPS. `PROJECT.json` maps every
definition to the lines it models and lists the runs, their mutants, the
findings, the hazards and the theorems.

## The system

| Component | Source | State it keeps | Operations | What makes it correct |
|---|---|---|---|---|
| buffer | `source/buffer.cpp` | handles to a shared `impl`: reference count, array, size, position | constructors, copy, assignment, destruction, `set_size`, `set_position` | counts are exact, nothing is used after deletion or leaked, the window leaves the array only behind a size set to less than the position |
| socket | `source/socket.cpp` | descriptor, connection state, blocking mode | move, `close`, `listen`, `accept`, `connect`, `connect_async`, `send`, `recv`, `set_nonblocking` | one owner per descriptor; the object's view agrees with the kernel's |
| event_loop | `source/epoll.cpp` (Linux), `source/kqueue.cpp` (macOS) | main and worker epolls, stop descriptors, the array of workers | `start`, `stop`, `add_fd`, the worker threads, event dispatch | stop ends everything, nothing is used after `start` deleted it, no wake-up is lost, events reach their connection |
| smp | `source/smp.cpp` | receive state, header and body buffers, send buffer | `send`, `send_more`, `recv`, `reset` | the messages received are those sent, however the channel cuts them up |
| http | `source/http.cpp`, `source/picohttpparser.c` | receive state, two buffers, chunked decoder | `recv_request`, `recv_response`, `send_request`, `send_response`, `send_more`, `reset` | as for smp, and every message is returned or refused |
| tls | `source/tls.cpp` | a libtls context | `connect`, `listen`, `handshake`, `send`, `recv`, `close`, the callbacks of libtls | bytes arrive in order and once; the handshake ends |
| sha1, sha2_256 | `source/sha1.cpp`, `source/sha2.cpp` | a block, its fill, the total, the digest | `update`, `complete`, `calculate`, `reset` | the digest is that of the padded message for every way to cut it |
| hmac | `include/ez/hmac.hpp` | a hash, the padded key | `set_key`, `update`, `complete` | the result is the HMAC of the data under the last key |
| chacha20, poly1305, chacha20_poly1305 | `source/chacha20.cpp`, ... | key stream position, limbs | `set_key`, `set_iv`, `crypt`, `update`, `complete` | key stream and tag do not depend on how the data is cut |
| base64, hex, url, ip | `source/base64.cpp`, ... | none | conversions | round trips |
| daemon | `source/daemon.cpp` | processes | `switch_to_daemon`, `self_restart_loop` | a child that fails is started again |
| spin_lock, timer, common | headers | a flag, a time | `lock`, `unlock`, ... | mutual exclusion |

**Interactions.** smp and http use a `channel` (a socket or a tls connection)
and buffers. The application registers sockets with an event_loop, whose worker
threads call the application back; the callback calls `recv` and `send` of the
socket and of smp or http above it. `socket::close` takes a descriptor out of
the epoll without the event_loop knowing. hmac drives a hash object.

**What is hard.** The event loop has threads that share plain fields (`running`,
`stopping`, `stop_fd`, the array) and descriptor numbers that the kernel reuses.
The message classes are resumable state machines over a channel that may move
any part of what it is asked for. Socket objects repeat state that the kernel
also has. The buffer class shares everything between copies. The ciphers keep
a position that outlives a change of key or iv, and the limb arithmetic has
carries that few inputs reach.

## Modules

| Module | Models | Used by |
|---|---|---|
| `Buffer` | the buffer class | `BufferProofs`, `Utilities` |
| `EventLoop` | one `start()` with epoll: launch, `stop`, sweep, delete, the worker threads | `Kqueue` |
| `Kqueue` | the same with kqueue and pipes; both builds side by side | `EventLoopProofs`, `MCEventLoop` |
| `EventDispatch` | one worker's loop, with epoll or kqueue, the sockets registered with it, the callback | `EventDispatchProofs`, `MCEventDispatch` |
| `MessageChannel` | what smp and http promise: messages arrive in order, each once and whole | `Smp`, `Http` |
| `Smp` | two smp endpoints over a channel | `SmpProofs`, `MCSmp` |
| `Http` | one http endpoint, either side, and its peer | `MCHttp` |
| `Socket` | socket objects beside the kernel's descriptors | `Channels` |
| `Tls` | a TLS client and server over a channel | `Channels` |
| `Channels` | the two kinds of channel in one specification | `ChannelProofs`, `MCChannels` |
| `BlockHash` | block buffering and padding of both hashes, as operators | `Sha`, `Hmac` |
| `Sha`, `Hmac`, `Poly1305` | objects of these classes in use | `Crypto` |
| `KeyStream` | chacha20's counter, block and position, as operators | `ChaCha`, `Aead` |
| `ChaCha` | a chacha20 object in use | `Crypto` |
| `Aead` | two chacha20_poly1305 objects and a network between them | `Crypto` |
| `Crypto` | the cryptographic classes in one specification | `CryptoProofs`, `MCCrypto` |
| `Text` | base64, hex and url | `Utilities` |
| `Ipv4` | the parser of addresses | `Utilities` |
| `Daemon` | `switch_to_daemon`, `self_restart_loop` and their processes | `Utilities` |
| `SpinLock` | the spin lock | `Utilities` |
| `Utilities` | the small parts in one specification | `UtilitiesProofs`, `MCUtilities` |
| `BufferProofs`, `EventLoopProofs`, `EventDispatchProofs`, `SmpProofs`, `ChannelProofs`, `CryptoProofs`, `UtilitiesProofs` | nothing: the theorems, see Proofs | |
| `SequenceFacts` | nothing: lemmas about sequences, quotients and induction | `ChannelProofs`, `CryptoProofs`, `UtilitiesProofs` |

`Channels`, `Crypto`, `Utilities` and `Kqueue` put parts that share no state into
one specification: a variable says which part, or which build, a behaviour is
about, and the others stay as they were. Nothing is shown about their
combination, since the program has none.

Operators introduced by a comment that starts with "Mutant" are changed forms of
the definition below them. They are in no next-state relation; each shows that a
property notices a plausible mistake in the code.

### Buffer
A handle is a C++ variable; `m_impl[h]` is the address of its impl. The fields
of an impl are functions on addresses, `alloc` is the set of addresses that are
allocated, and an address is reused once deleted. `owned` is the set of impls
whose array the class allocated and not yet deleted. `fault` records that an
operation touched a deleted impl. Byte contents are left out. `Size` is `size()`
as the code computes it, in a `size_t` of `SizeRange` values: behind a size that
was set to less than the position it wraps. `shrunk` records the impls for which
that was the last thing done to the window, and `WindowInArray` says that those,
and no others, have a window that runs out of the array.

### EventLoop
`main` is the position of the thread inside `start()`, `thread[w]` that of a
worker, `stopper[s]` that of a thread inside `stop()`. One action is one access
to state that another thread may read or write between: a worker sets
`running`, creates its epoll, and creates its eventfd in three steps; the sweep
visits one element per step; `stop()` tests and writes in two. eventfds are
small numbers with the kernel's counter, reused after close. `stopfd[w]` is the
copy passed to `process_events`.

Histories: `signalled` are the workers that the sweep reached on an open
eventfd; `merged` says that a loop read a count other than 1; `stray` that a
late `stop()` wrote to a number that had been reused by a worker; `fault` that a
worker touched the deleted array. The properties that mention `stray` and
`merged` say what holds except after those two races, both of which the model
contains: two `stop()`s that add up to 2 are dropped by the `c == 1` test, and a
`stop()` that was delayed between its two steps can end a worker.

### Kqueue
kqueue.cpp is the same class with other details, so the module reuses the
actions of `EventLoop` that are the same and replaces the others. A pipe goes by
the number of its write end. Any event on the read end ends a loop, so `stop()`s
do not merge; the two ends are closed one after the other, and `sigpipe`
records a write to a pipe whose reader is gone. A worker is marked running only
when its pipe exists, so the sweep cannot miss it: `SignalledWorkersEnd` is
stronger for kqueue, and fails when the order of epoll.cpp is put there.

### EventDispatch
An event carries the number of a descriptor and the flags of the moment of the
wait; `ready` are the connections with an event due (edge triggered: a change
makes one due, the wait takes it). With kqueue there is one event per filter.
`Callbacks` and `KqCallbacks` are the two `process_fd`: which callbacks an event
causes, in which order, and the early returns. The application is the usual one
for edge triggering (read until `recv` would block, keep what `send` did not
take); its table from numbers to connections is where a reused number misleads.
One `recv` and the `send` of its answer are one step, so bytes arrive, and
connections end, between the calls of one callback. `ReadResets` and
`WriteResets` are the branch of `send` that meets a reset: it closes the socket
and returns 0, as `recv` does at the end of the stream.
`misled` records the kinds of callback that found a connection other than the
one their event was about. The two builds differ in what they promise: epoll
reports the end first and hides the data before it, kqueue delivers the data and
may then report the end of another connection.

### Socket
`obj[s]` is the C++ object, `kernel[f]` the descriptor. Each action is one method
with every outcome of the system calls it makes. `moved` are objects that were
moved from and not closed since: the move constructor leaves `m_state` and
`m_nonblocking` behind. `unsettled` are objects that asked for SO_ERROR when
there was no verdict: `connect_async()` called again too early or after the
error had been read, and a connect to a unix socket with a full backlog.
`PlainAccept` is a system without `accept4()`, on which a descriptor comes out of
`accept()` with the `O_NONBLOCK` of the listening one while the new object
believes it blocking; `inherited` marks such a descriptor until its mode is set,
and `BlockingModeHonoured` excepts the timeout exception on it. On an object that
was moved from, `connect_async()` may find any state without a descriptor
(`ConnectAsyncMoved`).

### Tls
libtls is external and modelled from its use: three flights of a handshake, data
in records, the rest of a record kept until the channel takes it. The actions
are the methods of `ez::tls` and the callbacks in which libtls asks the channel
for bytes; a call that would block returns on a non-blocking channel and waits
on another. The first byte of a record tells its length, so bytes out of place
change what is received. `accepted` counts what `send()` has said it took; the
application sends again from there, which is how libtls wants a record that was
begun to be completed. `RecvSize` is what `tls_read()` is asked for, the size of
the buffer or the desired size. A desired size above the size of the buffer,
which throws before anything is done, is left out; `tls::recv(uint8_t*, ...)`
drops the desired size it is given (`tls.cpp:276`), which makes no difference to
the number that is read at most.

### Smp
The two applications take turns, which is how the class resets itself. A byte
is a pair (message, offset), so that a byte out of place is visible. `recv()` is
one action: `RecvEndings` is the set of ways one call can end, the union over
the pieces the channel may deliver and the fall-through of the switch. `split`
records that a header arrived in more than one piece, after which the code goes
on with an incomplete header. Both directions implement `MessageChannel`, where
`split` breaks the channel. `HeaderIsTheApplications` is about the header buffer
that a returned message shares with the endpoint.

### Http
One iteration of a loop around `channel.recv` is one step, since bytes may
arrive between the iterations. A byte is a token that names its message, its
kind and its place; a chunk's size line or line end is one token, the final empty
line of a chunked body is two, because the decoder is done before it and a
segment may end inside it: `LineFeed` is what is then left in front of the next
message, which the parser of requests skips and that of responses does not.
`Parse` and `Decode` stand for picohttpparser. `Unparsable` is a `Content-Length`
that is no number. The field `side` chooses between
`recv_request` and `recv_response`, which differ in the buffer that a short body
read advances.
`cut` collects the ways of cutting up a message that the code does not survive:
a header block over several calls; a body in pieces in the branch that advances
the wrong buffer; a chunked header block that arrives without any of its body;
a last chunk that leaves nothing behind for the decoder's result to count; a
chunked response whose last line feed comes in a segment of its own.
The receiving side implements `MessageChannel`, which a cut breaks.

### MessageChannel
The abstract specification: `sent` grows, `delivered` follows it in order, and a
channel that is broken promises nothing more. In `DeliversWhatWasSent` of `Smp`
and of `Http` the refinement mapping takes the messages as the application gave
them and what the receiving methods returned, whatever the buffers did between.

### BlockHash, Sha, Hmac
The compression function is abstract: the digest is the sequence of the blocks
it was applied to, which is as good as the real digest for telling whether the
right blocks were hashed. `transform()` destroys the block, and `reset()` does
not clear it. The reference is the standard's definition over the whole padded
message (`Digest`), and for HMAC the nested formula (`HmacOf`). In `Sha` the
phase "stale" marks an object used again after `complete()` without `reset()`,
in `Hmac` "spent" one used again without `set_key()`; `hmacDirty` marks one that
was given a long key while its hash was in use.

### Poly1305
The limb arithmetic of the code with every shift and mask scaled to limbs of
`ByteBits * LimbBytes` bits in words of twice the width, so that carries, the
two passes of the reduction and the final subtraction are those of the code.
The reference `TagOf` is the polynomial modulo the prime. 2^130 - 5 becomes
2^(4w + 2) - 5, whatever the width w; it need not be a prime for the question
whether the code reduces modulo it.

### KeyStream, ChaCha, Aead
A block of the key stream is named by the state words it is made from, a byte by
its block and place: two bytes are equal when the code would produce the same.
`set_iv()` keeps the position, so the bytes after it are first the rest of the
old block; `StreamIsOfIv` states exactly that, and `OpensInStep` what it means
for the AEAD: a receiver that missed a packet is out of step, unless both ends
stand at the end of a block. `given` and `repeated` are histories for
`NoByteTwice`: `repeated` says that the program itself repeated a key or an iv,
mixed ivs of 8 and of 12 bytes, or went on behind the counter of an iv of 12
bytes, where key streams meet by design of the cipher. In `Aead` a computed tag
is named by the pair of key and data, and `Open` compares as many bytes of the
tag it is given as there are (`TagMatches`): all of them, fewer, or more than the
computed tag has. A wrong tag differs from the computed one in at least one
place, in any; given short of its end it may match by `chance`, and only then
`AcceptsOnlySealed` excepts that the packet is accepted. `Damaged` is what the
network makes of a packet: the run uses a handful of changes, the proof any.

### Text, Ipv4, Daemon, SpinLock
`Text` encodes and decodes in separate steps; what decoding reads outside the
text or the table is `wild`, any of three values. `Ipv4` makes up the string
symbol by symbol and reads it through an index that wraps. `Daemon` has the
parent's steps and the children that end; an interrupted `waitpid()` leaves
`status` as anything. `SpinLock` has one step per access to the flag.

## Runs

| Run | Instance | Checks |
|---|---|---|
| event_loop | epoll and kqueue, up to 2 workers, 2 callers of `stop`, 1 client, descriptors 3..5 | clients are never left on a closed epoll while the main loop runs; a worker leaves only when signalled; a single `stop` and the sweep find a reader; the main loop ends after `stop`; `start` returns; signalled workers end |
| event_loop_delete | epoll, 1 worker, 1 caller | violated: the array is deleted while a worker that was not signalled still sets itself up in it |
| event_dispatch | epoll and kqueue, 2 connections, 2 numbers, 2 bytes in all | which callbacks find the connection of their event; with kqueue the end follows the data; data is read and answers are completed, or the connection ends |
| event_dispatch_report | 1 connection | violated: a `recv` or `send` that returned 0 is not followed by a closed event |
| channels | 2 socket objects, 2 descriptors, a system with plain `accept()`; TLS over 2 bytes of channel, records of up to 2, 4 bytes of data | one owner; blocking mode as the caller sees it; connected means connected; TLS keeps bytes in order and once; the data arrives |
| smp | meta 2, header buffer 2, headers 0, 1, 3, bodies 0, 2, 3, 2 messages each | both directions implement MessageChannel; a returned header stays; no error that ends the session; requests are answered |
| smp_short_body | one message | violated: the last throw is reached |
| http | either side, buffer 4, body limit 6, 2 messages of 10 kinds: headers 2, 4, 5, lengths 0, 2, 3, 7 and one that is no number, two chunked bodies | implements MessageChannel; only bad messages are refused; every message is returned, refused or was cut |
| http_several_calls | one header of 2 bytes | violated: a header over two calls is never returned |
| http_chunked_end | a header of 2 bytes, with or without a chunked body | violated: the response behind a chunked one is refused although its headers are right |
| crypto | hash block 4, length field 1, messages up to 8; keys of 0, 3, 4, 5 bytes set twice; limbs of 6 bits, 2 blocks; key stream blocks of 2, counter words of 3 values, 8 bytes under 4 settings; 3 packets opened 3 times, tags of 2 bytes of which 0 to 3 are given | digest, HMAC and tag are those of the definitions; key stream of the iv, never twice; the AEAD accepts only what was sealed, wrong tags that are too short apart, and all of it when in step |
| utilities | 3 handles, 2 addresses, sizes 0..2, a size_t of 4 values; 4 bytes and 4 chars per conversion; addresses in base 2; 3 children; 3 threads | buffers: exact counts, no use after deletion, arrays live with their impls, the window leaves the array only behind a size below the position, deletion by the last handle; conversions: round trips, reads and writes in bounds; addresses are parsed; one child, which is replaced when it crashes; one holder |

**Why the bounds are enough.** The sizes lie on both sides of the limits the code
compares them with. Buffer: three handles over two addresses give an impl that is shared while
another is deleted and its address reused; with four values of `size_t` the
wrapped size is above every array. Event loop: two workers make one
swept while the other starts; two callers give `stop`s that merge, one that is
late and one that meets a closing pipe; three descriptors for up to three
eventfds or pipes force reuse. Event dispatch: two bytes on one connection, the
second before or after the first was read, tell reading until `recv` would block
from reading once per event; two connections on two numbers give reuse within a
batch. Sockets: a system with plain `accept()` also has blocking listeners, whose
descriptors come out as with `accept4()`; the theorems cover both systems. Smp: headers below the meta and above the
buffer, so that the buffer is shrunk, enlarged and replaced between the two
messages. Http: bodies that fit behind the header, need a buffer of their own
and are refused; headers that fill the buffer and that exceed it; a chunked body
that starts in the header's buffer and one that does not. Tls: no
record fits the channel, so each is begun, refused and resumed; the data needs
several records, and a record several `recv()`s. Hashes: messages of up to two
blocks meet every padding case and every update boundary; HMAC keys lie on both
sides of the block size. Poly1305: r with all its bits set reaches the largest
carries of every limb, r = 1 leaves the accumulator between the prime and 2^130
for `complete()`; two blocks make the reduced value enter a product. ChaCha: the
low word of a counter has three values and carries after six of the eight bytes. Aead: texts of a
half and of a whole block put the two ends in and out of step; three packets
allow loss, repetition and reordering; of a tag of two bytes nothing, a part, all
and more than all is given. Text: bytes for every branch of the
encoders in groups of every size. Ipv4: the shortest address has 7 symbols and
the index wraps at 9.

**Deadlock** is not checked, because the systems may stop: a loop whose `start`
has returned, an endpoint that has received everything, a text that was decoded,
the bounds on messages, keys and calls. **Symmetry** is used in no run: most of
them check liveness, where it is not sound.

**Fairness.** Event loop: threads that were started run on (weak fairness of the
main thread, of each worker and of a `stop` under way); nobody has to call
`start` or `stop`. EventDispatch: the worker thread runs and the network drains
the send buffer; strong fairness of a write event that completes an answer says
that the kernel takes a whole answer in the end, it cannot take nothing for
ever. Smp: the server answers and both keep calling `send_more` and `recv`, as
the event loop makes them do. Http: bytes that were sent arrive and the
application calls again after an empty result; nobody has to send. Tls: both
applications keep calling until they are done, and a call that can go on does,
which is what a thread that blocks or an event loop gives them. Utilities: the
constructor that parses runs on, and so does the process in the restart loop;
no child has to end, and no thread has to take the lock.

## Proofs

`BufferProofs` proves, for every finite set of handles, every set of addresses
and every bound on sizes:

- `RefCounting`, `MemorySafety`, `NoArrayLeak`, `WindowSafety`: the invariants of
  the utilities run about buffers. `WindowSafety` is an equivalence: the window is in the array
  exactly of the impls that are not `shrunk`, for every range of `size_t` above
  the sizes asked for;
- `LastHandleDeletes`: its action property.

They are about `Spec` of `Buffer`; that a behaviour of the utilities run is one of
it, with steps of the other parts as stutters, is `BuffersOfUtilities` in
`UtilitiesProofs`. The assumptions are those of `Buffer`: the handles are finitely many, `None` is
no address, `MaxSize` is a natural number and `SizeRange` a larger one. The inductive invariant `IInv` is the
conjunction of the type invariant and the four invariants. None is inductive
alone: that no operation touches a deleted impl needs that every handle points
to an allocated one, which after a release needs that the count was exact
(otherwise an impl is deleted while a handle still points to it). The argument
is in two lemmas: `SharersMove`, how pointing a handle elsewhere changes the
number of sharers of every impl, and in `AssignInv` that releasing the left side
deletes its impl only when the left side was the only sharer, so never the impl
of the right side. Each operation then has a lemma of its own.

`ChannelProofs` is about `ChannelsSpec`, the specification of the channels run; a
lemma for each part (`SocketsApart`) says that a step of one leaves the other
alone. It proves for sockets, whatever the socket objects and the descriptors,

- `Ownership`: the type invariant and `OneOwner`, whose conjunction is inductive.
  It assumes what `Socket` does, that descriptors are natural numbers, so that the
  -1 of an object without one is not a descriptor. Three lemmas say when the
  owners stay as they are (`SameOwners`), when a fresh descriptor finds its only
  owner (`Acquire`) and when an owner gives up the one it closes (`Release`);
  every method has a lemma that reduces it to these, the failing paths of
  `listen` and `connect` included;
- `BlockingMode` (`BlockingModeHonoured`) and `ConnectedObjects`
  (`ConnectedIsReal`). `StateInv` adds to ownership that an object without a
  descriptor is disconnected, that object and kernel agree on the blocking mode
  from `connect()` on (`Aware`: the descriptor is non-blocking, and did not become
  so by `accept()`), and that what the last transfer told the caller is still
  true. Ownership carries it: a call on one object cannot change the descriptor of
  another, because no other object has that number;

and for TLS, for every capacity of the channel and every size of records, of
`send()`, of `recv()` and of the data,

- `TlsBytes` (`TlsKeepsBytes`). The invariant `TlsInv` looks at everything between
  the two ends at once: what the reader has of an unfinished record, then the
  bytes in the channel, then the rest of the record the writer was interrupted in
  are one sequence, which is cut into whole records (`Framed`). `AllBytes` says that
  the bytes received, those libtls holds decrypted and the data of these records
  are the bytes accepted by `send()`, in order. A callback that moves k bytes only
  moves the places where the sequence is cut (`CutInTwo`, `JoinedAgain`), and
  reading a whole record moves its data from the sequence to the decrypted bytes
  (`DataJoined`). `Handshakes` and `Calls` are needed besides: that no data is under
  way before the third flight, and what a call that would block has already done,
  since it is repeated with the same data and must not send it again.

`EventLoopProofs`, for every number of workers, callers of `stop()`, clients and
descriptor numbers, which are natural so that -1 is none of them, on both systems: `StopDescriptors`, and from it `WorkersLeaveWhenSignalled`,
`ClientsServed` and `StopFindsReader`. The invariant `LoopInv` says, clause by
clause,

- `DescriptorsOwned`: a loop that has a stop descriptor has an open one that no
  other loop has, and the array holds the number the thread uses. Without it a
  write to one worker could be seen by another;
- `BrokenOwned`: a pipe without a reader belongs to a loop that is just closing
  it, so a write raises SIGPIPE only in that window;
- `TargetsKnown`: a number a `stop()` has read is the main descriptor's, or the
  main loop has ended. The late write that hits a reused number (`stray`) thus
  needs a second call, which is `EndsByStop`;
- `SignalsKnown`, `ClientsKnown`: a readable descriptor of a worker was written
  by the sweep; a worker that was given a client has made its epoll.

`EventDispatchProofs`, for every set of connections and of descriptor numbers and
every amount of data: `EventsReachConnections`
(`CallbacksReachTheirConnection`) and `EndsFollowData` (`EndFollowsData`). The
clause the argument turns on is `EventsLive`: as long as the loop uses epoll or no error
occurred, all events of the batch that carry data still have the descriptor of
their connection, and there is one of them for each connection. It is preserved
because a callback, its `send` on a reset connection included, only closes the
connection of its own event, so the number
that may be reused belongs to no other event. `TableRight`, `ReadyOpen` and
`BatchKnown` give it for a new batch; `CallsKnown` and `QuietRead` relate the
callbacks of one event to each other, which is what `EndFollowsData` needs.

`SmpProofs`, for every size of the meta, the buffer and the messages, as long as
the meta fits the buffer: `SmpDelivers`, that both directions of `Smp` implement
`MessageChannel`, `HeaderKept` and `ErrorsResumable`. The invariant
`SmpInv` says where the receiver stands in message n, the first that is not
delivered (`Between`, `InMeta`, `InHeader`, `InBody`), what it has stored of it,
and that the bytes ahead of it, in the channel and in the sender's buffer, are
the rest of message n and then whole frames up to the last one sent (`Ahead`,
`Flow`). Reading k bytes moves within these; when the body is complete the stored
bytes are message n, so the step appends to `delivered` what the abstract channel
delivers next. Every other step sends a message, breaks the channel (a header in
pieces) or maps to a stutter. The temporal step is by `PTL` from
the initial states and these steps.

`CryptoProofs` is about `CryptoSpec`, the specification of the crypto run, in which
the classes share no state (`ClassesApart`), for every block size, length field,
counter size, padding and set of sizes:

- `DigestCorrect` (`DigestIsOfMessage`). `Holds(h, m)` says what a hash object has
  after m: the count is the length of m, the digest is of its whole blocks, and
  the buffer begins with the rest. One round of the loop of `update()` (`Fill`) keeps
  it, and the loop is the rounds one after the other (`UpdateRight`). `complete()`
  pads up to a place that is the only one where the length field ends with a
  block (`PaddingEnds`, by the uniqueness of quotients): the definition the digest
  is checked against looks for that place, the code computes it by cases;
- `HmacCorrect` (`ResultIsHmac`). `HmacInv` keeps that between `set_key()` and
  `complete()` the object has absorbed the inner key and the data, and that it is
  untouched only before the first key, which is why a long key set later is the
  exception;
- `AeadAccepts`, `AeadInStep` (`AcceptsOnlySealed`, `OpensInStep`). Lemmas say
  what n steps of the key stream do to the position and the counter, and that
  the data under the tag determines associated data and text (`TagDataInjective`:
  the lengths at its end make the padding unambiguous). They hold for every set
  of sizes in which tags are given and for every `Damaged`, whatever sequences of
  bytes it makes of a packet; `Compared` says which comparisons can succeed: that
  of the right tag, and that of a wrong one given short of its end. `AeadInv` records that
  every packet is what the sealer makes from its state at that time (`History`)
  and that the opener's position is that of a sealer who went through the packets
  it was given (`OpenerRight`);
- `KeyStreamOfIv` (`StreamIsOfIv`). `StreamInv` relates the two counter words to the
  number of blocks made under the iv, and the position to the number of bytes
  handed out since the last setting; `ByteHanded` is the step of one byte, with
  the carry and the end of a block as cases;
- `KeyStreamOnce` (`NoByteTwice`). `BytesInv` adds the bytes of all earlier settings:
  how many were used in all, that those under the present key and iv are the ones
  the count names, and that two counts below the range of the counter name two
  blocks. `DrawnAssumption` bounds what is drawn by that range: beyond it the
  counter starts again and the property is false.

`Run`, `Update` and TLS's `DataIn` are recursive functions: lemmas prove that they
exist and equal their definitions (`RunSteps`), and the facts about n steps follow
by taking the least n for which one fails (`NatSets` in `SequenceFacts`), which needs
no induction rule with an operator as parameter.

`UtilitiesProofs`, for every set of threads, number of children, source and text:

- `MutualExclusion` (`OneHolder`), from the flag being set exactly when a
  thread is inside, and `RestartLoop` (`OneChild`), from the fact that until
  `waitpid()` is interrupted only the last child runs, under a waiting parent;
- `TextRoundTrip` (`RoundTrip`) and `TextInBounds` (`DecodeInBounds`), for sources
  and texts of any length. A text is the groups (base64) or pieces (url) of its
  source one behind the other, and what decode() wrote is the bytes of the groups
  read so far: `GroupBack` is base64's step, with the missing bytes of the last
  group as cases, `ReadPiece` is url's. For texts from elsewhere `Base64Reads` says
  that chars below 128 never leave the table and `ReadOk` that what decode() still
  skips at the end of a url stands behind a % that was one of the last two chars.

They are theorems of `UtilitiesSpec`, which leaves one part alone while another
moves.

All assumptions are the `ASSUME`s of the component's module: they say that
sizes are natural numbers, sets of handles finite, that `None` and -1 are outside
the sets they are told apart from, and for `Smp`, the hashes and the ciphers what
the constants in the source satisfy (the meta fits the buffer; the length field
and a digest are shorter than a block; a block of the stream is not empty and has
two halves). The runs evaluate them. Each inductive invariant was model-checked on the
instance of its run before it was proved.

**Only model-checked.** All liveness properties, `Ipv4IsParsed` among them: TLAPS
has no fairness. `TagIsPoly1305`: limb arithmetic of products modulo 2^130 - 5,
nonlinear, which the solver does not do. `RefusesOnlyBadMessages` and Http's refinement
of `MessageChannel`: they are about the chunkings of the run, whose decoded bodies
leave room for the chunk that follows; for others the decoder itself throws, so a
theorem would need an invariant about every chunking and every place where a
header may be cut. Smp's, which has the same shape, is proved.

## Findings

1. `smp::recv` throws "should never come here" when a body arrives in two pieces
   (`smp_short_body`). The session survives it.
2. `event_loop::start` deletes the array of workers while a worker that the sweep
   could not signal still sets itself up in it (`event_loop_delete`); the comment
   says it waits until all stop.
3. `http::recv_request` loses a header block that arrives over two calls
   (`http_several_calls`); the comment says it can be called several times.
4. `http::recv_response` returns a chunked response before the last line feed of
   it has arrived, and refuses the next response for it (`http_chunked_end`).
5. `socket::recv` says the event loop will report a close, which it cannot after
   the socket closed its descriptor (`event_dispatch_report`).

Where the repository makes no promise that a run could contradict, the properties `CallbacksReachTheirConnection`,
`OneStopFindsReader`, `WindowInArray`, `BlockingModeHonoured`,
`AcceptsOnlySealed`, `OpensInStep`, `OneChild` and `DecodeInBounds` name the cases in which the code does not do what one would hope, and show that there are
no others.

## Not modelled

The constructor of buffer from `std::string_view`, which writes through an
uninitialised pointer; handles of one buffer in two threads, for which its count
is not made; the byte contents of buffers. Header texts, status lines and paths in http; a peer that
closes in the middle of an smp or http message. The timeout callback and a second
`start()` of the event loop, whose array would be made under workers of the
first. Kernel options (`set_timeout`, `set_close_on_exec`) and what state a
socket is in after `recv()` threw. In tls: exceptions of the channel that pass
through libtls, `reset()`, the destructor, `init_server()`, `pub_key()`, a second
`connect()`. The compression functions of the hashes and the rounds of chacha20,
which are arithmetic without state; `compare_with()` of the hashes and
of poly1305, pure functions that nothing in the repository calls (poly1305's is
true when the tags differ, `poly1305.cpp:50`). `resolve()`, which is a stub, and timer,
which reads clocks. `tls_internal.h` is a header of libtls. `PROJECT.json` gives
the reason for each component.

## Plan

Done, in this order, the most important behaviour first: Buffer with its proofs,
EventLoop, Smp, Socket with the proof of `OneOwner`, Http, EventDispatch, the
hashes; then kqueue in both event loop modules, `MessageChannel` and its
refinements, Tls, the ciphers and Poly1305, the text conversions, addresses,
daemon and spin lock.

Then the theorems, about what the parts share most first: the event loop's
descriptors, events and connections, the state of sockets, smp and its
refinement, the AEAD and the key stream, lock and restart loop; then the bytes of
TLS, the hashes and HMAC, the key stream over the life of an object, the text
conversions.

What would come next is Http: the invariant for all chunkings, `RefusesOnlyBadMessages`
and the steps of the refinement.
