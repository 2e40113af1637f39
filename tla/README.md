# Soapy: a TLA+ verification project

The repository is a distribution of SoapySDR, of device drivers for it, and of
the vendor libraries they need. Most of its code sets registers or passes calls
on. What is hard to get right is where two threads, or two machines, share a
queue, a window or a table. That is what is specified here: checked by TLC on
small instances, and proved with TLAPS for every value of the constants where
the prover reaches.

## 1. Inventory

| Part | Source | What it does | State here |
|---|---|---|---|
| Stream endpoint, handles | `SoapyRemote/common/SoapyStreamEndpoint.cpp` | ring of buffers, acquired in order, released in any order | `HandleRing`, `EndpointHandles`, `BufferPool` |
| Stream endpoint, flow control | same | numbers datagrams, ACKs, window | `StreamFlow`, `StreamLosses` |
| RTL-SDR receive queue | `SoapyRTLSDR/Streaming.cpp`, `Settings.cpp` | lock-free ring between librtlsdr's thread and the user's | `RtlRing` |
| Device factory | `SoapySDR/lib/Factory.cpp` | table of devices, users counted, mutex given up in between | `DeviceFactory` |
| enumerate and its cache | `SoapySDR/lib/Factory.cpp:39-120` | futures per driver, expiry | `Enumeration` |
| Module loader, registry | `SoapySDR/lib/Modules.in.cpp`, `Registry.cpp` | loads libraries that register drivers | `Enumeration` |
| librtlsdr async reading | `librtlsdr/src/librtlsdr.c`, `SoapyRTLSDR/Streaming.cpp` | status shared by read, cancel and close | `RtlAsync` |
| Server stream workers | `SoapyRemote/server/ServerStreamData.cpp` | three loops between a device stream and an endpoint | `RemoteSession` (their life; the data is `StreamFlow`) |
| Sessions | `SoapyRemote/server/ClientHandler.cpp`, `ServerListener.cpp` | what a client opens and a lost connection cleans up | `RemoteSession` |
| Client streaming | `SoapyRemote/client/Streaming.cpp` | stream set-up, remainders | `RemoteSession` (set-up, activation, closing) |
| RPC calls | `SoapyRemote/common/SoapyRPC*.cpp` | one request and one reply at a time, no request numbers | `RemoteSession` |
| Log forwarding | `SoapyRemote/client/LogAcceptor.cpp`, `server/LogForwarding.cpp` | subscription counts, one thread per server | `LogStream` |
| Discovery | `SoapyRemote/common/SoapySSDPEndpoint.cpp` | periodic search and notify, expiry | `Discovery` (SSDP) |
| Airspy, AirspyHF, Audio queues | `SoapyAirspy*/Streaming.cpp`, `SoapyAudio/Streaming.cpp` | variants of the RTL-SDR ring | not modelled |
| Converters, C bindings, types | `SoapySDR/lib` | sequential; floating point | not modelled |
| Other drivers, vendor trees, tests | the other directories | adapters, register control; not built by this distribution | not modelled |

How the parts meet: an application calls `Device::make`, which finds a driver
through the registry and the loader and keeps the device in the factory's table.
It then sets up a stream and reads. A local RTL-SDR fills a ring from its own
thread. A remote device is reached through a session: a server worker reads the
device's stream and sends datagrams under flow control, and the client's
endpoint hands them out.

`PROJECT.json` lists every part with its status, and every hazard at the line
where it bites, with the properties that would catch it, or a note on how it goes
wrong in the code and which condition of a property leaves it out.

## 2. Modules

### HandleRing, EndpointHandles, BufferPool

`HandleRing` is the tracking data of one direction of an endpoint as a record
(`_buffData[i].acquired`, `_nextHandleAcquire`, `_nextHandleRelease`,
`_numHandlesAcquired`) and the two calls as relations between the record before
and after. The same code stands twice in the source, for receiving and for
sending. The loop at the end of a release is one step: `Freed` says after how
many turns it stops. `outstanding` is the user's side of the contract.

`EndpointHandles` is one endpoint and a user that releases in every order.
`BufferPool` is what it promises: buffers nobody holds are handed out, the one
given back is taken back. `PoolSpec` states the implementation.

A user that releases a handle it does not hold breaks the API's contract and is
not modelled.

### StreamFlow, StreamLosses

Two endpoints and the socket between them.

- `waitRecv` is `WaitRecv` (up to the select, gratuitous ACK included) and
  `WaitRecvTimeout`; `acquireRecv` is `AcquireRecv` with its three error returns
  `AcquireRecvError` and `AcquireRecvFails`; `releaseRecv` is `ReleaseRecv`.
- `waitSend` is `WaitSend`, `WaitSendTimeout`, `RecvACK` (one turn of the inner
  loop) and `ACKsDrained` (back to the outer loop's condition); `acquireSend` and
  `releaseSend` are the actions of those names.
- `recvACK` after a failed receive (`RecvACKFails`) reads a header nothing was
  received into: position and window are any values. `misread` records that it
  happened.
- `LoseData` and `LoseACK` are the network. With `Ordered` it keeps the order (a
  TCP connection, or a datagram network that only loses), otherwise it does not.

Counters are kept in full, and what the code does in 32 bits is done modulo
`SeqMod`. Contents, flags and time stamps of datagrams are left out. The
datagram that carries an error code instead of samples, for which no handle is
acquired, is kept.

`StreamLosses` adds to every step what was lost in it (`gone`: the datagrams and
ACKs that would tell the sender of more than it knows), to say when the two ends
may wait for good.

### RtlRing

`rx_callback` is four actions, `RxCallback`, `RxDrop`, `RxStore`, `RxCount`: it
looks at `_buf_count`, drops or stores, and counts. `acquireReadBuffer` is one
action per access to an atomic (`AcquireReset` ... `AcquireExtract`). Around it are
`readStream` (`ReadStream`, `ReadStreamConvert`), direct access, `activateStream`,
`deactivateStream`, and close and set-up together (`ReopenStream`).
`setSampleRate` is two steps, the request for a reset and the change of rate.

`user` is chosen initially: does it read by `readStream` or by direct access, and
does it make settings in the reading thread or in another one. Blocks are
numbered; `last`, `oldest` and `told` are history. `LeftOver` says what a user may
do while samples of a buffer are left.

### DeviceFactory

`Device::make` takes and gives up the mutex several times, and each stretch
under it is an action: `Make` (look up the arguments), `MakeDiscovered` (look up
what enumerate found), `MakeStore`. `Construct` and `ConstructFails` are the driver's
function, outside it. `unmake` is `Unmake` (decrement, or nullify the entries of
the last user), `Delete` (the destructor, outside) and `UnmakeErase`. The parallel
make and unmake of lists adds `CollectException` and `Discard`.

`mode` is chosen initially: do calls overlap, and which threads work for a list.
Addresses are reused once they are free, as an allocator does. `enumerate` is a
fixed function from arguments to the arguments it finds first, or none.

### RtlAsync

The thread that `activateStream` starts runs `rtlsdr_read_async`: `ReadBegin`,
`ReadClear`, `Submit`, then `Loop` with the event handling (`EventsReturn`,
`EventsInterrupted`, `EventsFail`), `Check` of the status, the `Sweep` that
cancels transfer by transfer, `SweepEnd`, `Free` and `Leave`. `_libusb_callback`
is `CallbackCompleted`, `CallbackCancelled` and `CallbackFailed`, which cancels
the read when every transfer failed. The application's thread activates,
deactivates (`deactivateStream`, `CancelTest`, `CancelWrite`, `Join`), closes the
stream and deletes the device (`Delete`, `rtlsdr_close`). `async_status` is read
and written without a lock, so that every access is a step.

libusb is external: it completes, fails or cancels a transfer during event
handling. `prompt` is chosen initially: does the event handling after a cancel
complete the cancellation, as the comment in the sweep says, or not.

### RemoteSession

One session. In the client, threads call under the device's mutex (`Call`,
`Receive`, `ReceivePort` for the port that a tcp stream is told, `GiveUp` when no
reply comes), and the main thread makes and deletes the device. In the server the
handler receives, executes and replies (`HandlerReceive`, `Exec...`,
`SendReply`); `StopThreads`, `JoinClose`, `StopEnd` and `Unmake` are what
CLOSE_STREAM, UNMAKE and the destructor share; each stream has two workers. The
listener reaps the handler or shuts down. `prot` is the protocol of the streams,
chosen initially.

- `ConnLost` may happen at any moment, and `cut` says how it looks to the server:
  an end between two requests, which the unpacker reports (`HandlerQuit`); an end
  inside one, where `recv` returns 0 in its loop for ever (`HandlerTorn`); or
  nothing at all, since no keepalive is set, until a reply is not acknowledged. The
  client ends in the same step: its later steps reach nobody.
- The device's `closeStream` may throw (`CloseThrows`; SoapyBladeRF's does before it
  frees anything). The entry then stays, with pointers to deleted threads; `Thrown`
  makes the exception the reply, or ends the server when it leaves the destructor,
  and `JoinAgain` is what follows when the stream is stopped again: undefined, so it
  may go well, throw, end the server or wait.
- A worker is in its loop, where it may be in a call on the device at any moment,
  or `held` by the logger or the stream's socket, from where it need not return.
  The handler too may be held where it logs (`Logging`).

A reply says nothing about the request it answers. The number it carries here is
history, to tell when a call takes another one's reply.

### LogStream

In the client, the acceptors of one server share a thread and a connection, and
`threadMaintenance` under `logMutex` is a sequence of steps: `Subscribe` or
`Unsubscribe`, `Activate` with its outcomes, `Shutdown`, `Join`, `EraseEntry`, with
`Check` at its end. The thread polls (`Poll`, `LoopEnds`) and then is in a receive
without timeout, which a message ends (`Relay`, `StopReply`), or an error
(`ReceiveFails`), but not `done`. A connection may be lost with an error, inside a
message, or in silence (`cut` for the client, `unseen` for the server). In the
server, a handler per connection inserts and removes its socket, and the thread
that logs (`LogBegin`, `LogSend`) keeps `subscribersMutex` until it has sent to
every subscriber; a full socket makes it wait. A new connection overwrites the
old socket object's descriptor without closing it, so that it stays open.

### Discovery

Endpoints that register a service or search, each with the loop of
`SoapySSDPEndpoint::handlerLoop`. An iteration (`Iterate`) handles a message if
there is one, removes expired entries and tests the periodic triggers. The
network loses messages, endpoints stop with a byebye, are killed, or their loop
fails. What is sent to the group reaches its sender as well (`multicastJoin` leaves
loopback on, and no handler tells its own messages apart), so a server lists itself.
Time is counted in units longer than a message takes.

### Enumeration

Threads that `enumerate`, load and unload. `enumerate` is the automatic load,
module by module (`LoadNext`), `CleanCache`, `ListFindFunctions`, one `LaunchFind`
per driver and `Collect`. Finds run in threads of their own, or in the caller's
(`Evaluate`) when it names a driver. A `Registry` registers unless the ABI differs
or the driver is known, and unregisters when its module is unloaded.

## 3. Runs

| Run | States | Shows |
|---|---|---|
| `handles` | 160 | the tracking data stays consistent (`IInv`): a handle in use is never handed out and none is lost; the pool is implemented (`PoolSpec`) |
| `flow_safety` | 1,684,250 | consistency of both ends (`FlowInv`), the window (`InFlightBounded`), no gap goes unnoticed (`NoSilentGap`) |
| `flow_live` | 177,860 | no mutual wait unless the losses cover a window (`NeverStalls`), complete delivery when nothing is lost (`AllDelivered`) |
| `ring` | 5,260,656 | alignment of the lock-free ring and what its blocks are (`RingInv`), no overwriting (`NoOverwrite`), order (`InOrder`), resets drain (`NoOldData`), drops are reported (`GapReported`) |
| `factory` | 411,151 | table, counts, users and devices in step, so that nobody is left with a deleted one (`FactoryInv`), none forgotten (`NoLeak`), calls in turn share a device (`SameDeviceInTurn`) |
| `async` | 293,896 | status, transfers and threads in step, with the status INACTIVE once the reader is joined and no reader left after closing (`AsyncInv`), transfers freed only when idle (`FreedAreIdle`), no false alarm (`AlarmMeansDead`), accepted cancels end the reader (`CancelledEnds`), deletion ends (`DeleteEnds`) |
| `session` | 236,566 | the device outlives its streams and they their workers (`DeviceOutlives`), a handler that ends has given everything back (`AllReleased`), nothing is joined or closed twice unless the device threw (`ClosedOnce`), replies do not cross (`OwnReply`), the server knows what the client holds (`HeldIsKnown`), a lost connection is cleaned up (`LostIsReleased`) and the listener not held up for good (`ListenerReturns`), unless the handler stays in a place of `Left` |
| `log` | 218,612 | threads, sockets and subscriptions in step, and no deleted socket is sent to (`LogInv`), messages relayed (`Relayed`) and once (`OneSubscription`), logger and subscription come to an end (`LoggerReturns`, `SubscriptionEnds`), and calls, except in a message that broke off (`CallReturns`) |
| `discovery` | 1,045,138 | no entry past its time, and entries follow what was announced (`TableInv`), no stopped server past its last announcement (`NoStale`), running ones are listed (`StaysListed`) |
| `enumerate` | 2,844,544 | registry, loading and finds in step (`EnumerationInv`), no half-loaded set (`NotHalfLoaded`), cached finds are awaited (`CachedIsAwaited`) |

Two runs show where the code does not do what a comment says:

| Run | Violated | What happens |
|---|---|---|
| `discovery_periodic` | `NotifiedInTime` | the trigger compares the last time with one in the future: nothing is ever sent periodically, and a server is forgotten when its first notification expires |
| `enumerate_cache` | `FindsShared` | a cache entry counts as valid only when its time lies in the future: the cache is never used |

### What fails when a condition is dropped

The passing properties carry conditions. Each stands for something the code does
not guarantee: TLC shows a counterexample when it is dropped.

- `NeverStalls` over a network that reorders (`Ordered = FALSE`): an ACK overtaken
  by a later one takes the sender's position back for good. Without `WindowLost`:
  nobody repeats an ACK, so that sender and receiver wait on each other for good
  once every ACK of a window, or the datagrams that would cause it, are lost.
- `InFlightBounded` without `~misread`: a failed receive is used as an ACK.
- `NoOldData` with `"activate"` in `LeftOver`: `activateStream` forgets a partly
  read buffer, and the next drain goes one too far. `RingInv` with `"reopen"`: the
  count wraps below zero. `InOrder` with `MaxHeld` 2: a second buffer acquired
  before the first is released was never filled.
- `NoOldData` without `~SettingThread`: settings made by another thread than the
  reader let old data through.
- `GapReported` without `~raced`: an overflow between the drain and the clearing
  of the flag is lost.
- `SameDeviceInTurn` without `~Overlap`: overlapping makes construct two devices,
  and the end of a deletion erases an entry stored meanwhile. Without the condition
  on `Found`, a device that enumerate does not find is made again by each call;
  `Idempotent` excludes drivers for which enumerating a result finds another one.
- `NoLeak` without `failed = 0`: when one call of a list throws, the devices after
  it are never unmade.
- `CancelledEnds` without `took`: a `deactivateStream` right after
  `activateStream` cancels before the status is RUNNING, is refused, and joins a
  thread that nobody stops.
- `FreedAreIdle` without `prompt`: a cancellation that takes longer than the
  sweep's event handling leaves a transfer with libusb when it is freed.
  `AsyncInv` with `Healthy` dropped from `StatusTells`: a CANCELING written late makes the next
  activation fail. `AlarmMeansDead` without `carried = 0`: failures of an earlier
  read count.
- `OwnReply` and `HeldIsKnown` without `~abandoned`: the late reply to a call that
  was given up answers the next. `AllReleased` without `orphaned`: a stream whose
  set-up fails after the device opened it is not closed. `ClosedOnce` without
  `threw`: see `CloseThrows` above.
- `LostIsReleased` and `ListenerReturns` without a disjunct of `Left`: the handler
  receives the rest of a request that does not come, polls a connection that was
  lost in silence (only until the listener joins it), waits in `accept` for a client
  that is gone, logs while the logger is stuck, or joins a worker that does or one
  that was deleted.
- `CallReturns` without `BrokenOff`: constructor or destructor of an acceptor stay
  in a message whose rest does not come, with `logMutex` held. `SubscriptionEnds`
  without `unseen`: a client lost in silence stays subscribed until something is
  logged.
- `Relayed`, `OneSubscription`, `LoggerReturns`, `SubscriptionEnds` without
  `spoiled`: a log message overtakes the reply to START and is taken for it, or a
  START that timed out leaves a subscribed connection that nobody reads, on which
  the logger waits with the mutex held.
- `CachedIsAwaited` without `~thrown`: a caller leaves finds behind when a launch
  fails. Nothing keeps a module from being unloaded under a find that runs; there
  is no property about it.

### Bounds

- `NumBuffs` is 8 in the code. Five in `handles` give every shape of the window:
  it wraps, is full, has holes. Two are enough in the flow runs, where `handles`
  and its proofs stand for the rest.
- In the passing runs `SeqMod` is the smallest that `FlowAssumption` allows
  (`Window + MaxHeld` less than the period), and `MaxSent` is larger, so that numbers wrap in every
  behaviour of interest. In the code 2^32 is far above both.
- `LossBudget` is 2 in `flow_safety`, which covers a lost datagram together with a
  lost or failed ACK. It is 3 in `flow_live`: the window there is two ACKs wide, so
  that the losses may cover it in every mixture of ACKs and datagrams, or fall
  into two windows. In the code a window holds eight ACKs.
- `numBuffers` 3 and `MaxTick` 9 take the ring three times around, with
  `MaxChanges` 3 settings and activations in between. `CountMod` 8 makes a count
  that goes below zero visible as a large one.
- Three threads, three arguments (two for one device, one unknown) and three
  addresses let a maker, a deleter and a third user meet on the same entry.

- Two transfers, with two activations, let one be cancelled or fail while the
  other completes, and let a second read meet what the first left behind.
- Two client threads and two calls in `session` make calls compete for the mutex,
  let one be given up and its reply meet the next, and let a session end with two
  streams open.
- Two acceptors and two connections in `log`, with room for one message (`Cap`),
  make a user leave while another stays, an activation replace a connection that
  is still subscribed, and the logger wait.
- One server and two clients, a trigger of one unit and a cache of two with three
  ticks let an entry be made, renewed and expire, by the answer to another client's
  search too. The clients are symmetric.
- In `enumerate` two modules register the same driver, and one of two for another
  fails the ABI check. Two calls, one load or unload and one tick let either fall
  into any gap of the other. `CACHE_TIMEOUT` is 0 there, so that entries expire
  within the bound, and 1 in `enumerate_cache`. The threads are symmetric.

Deadlock is not checked in the flow, ring, factory, log, discovery and enumerate
runs: bounded behaviours end, a stream whose user stops may stop, and a log call may
be `BrokenOff`. It is checked in `handles`, `async` and `session`, where a session
ends as `Over` says.

### Fairness

Four runs assume fairness.

- `flow_live`: the users at both ends keep calling, as the server's workers do in
  their loops, and give back what they acquire: weak fairness of the two ends,
  strong fairness of the releases, because a user that is between calls again and
  again does release in the end. `ACKsDrained` is strongly fair: a receiver
  repeats its initial ACK only once per receive timeout, while the sender polls
  without waiting. The network is not fair: it may lose at any moment, up to the bound.
- `async`: the reading thread runs, its calls into libusb return (each has a
  timeout), signals do not interrupt every one of them, and a cancellation that is
  asked for again and again completes. The application finishes the call it is
  in; nothing makes it call.
- `session`: the handler runs where it does not log, the workers' calls on the
  device, which have a timeout, return, and the listener runs. Nothing is assumed of
  the client, of the network, of the logger, of a worker that is held, or of `accept`
  failing.
- `log`: threads that can go on do so. A handler is strongly fair, since the mutex
  it waits for is given up and taken again by whoever logs next.

## 4. Proofs

Eight modules hold proofs; constants are restricted by the named assumptions of
the modules that declare them. Beyond these only the theorems on the ring have a
hypothesis, `OneAtATime`. With them every invariant and action property of the
passing runs is proved for all values of the constants; the bounds of section 3
(`MaxTick`, `MaxCalls`, `LossBudget` ...) are arbitrary numbers there.

| Module | Theorem | States |
|---|---|---|
| `Endpoint_proofs` | `HandlesInvariant`, `NextIsFreeInvariant`, `AllReturnableInvariant` | the invariants of `handles`, for any number of buffers |
| | `HandlesImplementPool` | every step of an endpoint is a step of the pool |
| | `FlowInvariant`, `InFlightInvariant`, `NoSilentGapInvariant` | the invariants of `flow_safety`, for any window, number of buffers, period and number of losses, ordered or not |
| `RtlRing_proofs` | `AlignedInvariant`, `NoOverwriteInvariant`, `RingInvariant` | alignment, no overwriting, and the blocks in the ring, for any number of buffers |
| | `BlocksComeInOrder`, `OldDataIsDrained`, `GapsAreReported` | the action properties of `ring`, for any number of buffers, blocks and settings |
| `DeviceFactory_proofs` | `FactoryInvariant`, `HeldIsLiveInvariant`, `TableIsLiveInvariant`, `NoLeakInvariant`, `SameDeviceInvariant` | the properties of `factory`, for any number of threads, arguments and addresses, and any list |
| `RtlAsync_proofs` | `AsyncInStep`, `FreesOnlyIdle`, `AlarmIsReal`, `JoinedIsInactive`, `ClosedHasNoReader` | safety of the asynchronous reader, for any number of transfers and activations |
| `RemoteSession_proofs` | `WorkersStayAlive`, `SessionReleasesAll`, `NothingClosedTwice` | safety of a session's streams, whatever closeStream throws, for any number of client threads and calls |
| | `SessionInStep`, `DeviceOutlivesStreams`, `RepliesMatch`, `HeldStreamsKnown` | the same for the two sides of a session together: replies, the device, the streams a client holds |
| `LogStream_proofs` | `LogInvariant`, `RelayedInvariant`, `OneSubscriptionInvariant` | the invariants of `log`, for any number of acceptors and connections |
| `Discovery_proofs` | `TableInvariant`, `NoStaleInvariant`, `StaysListedInvariant` | the invariants of `discovery`, for any number of endpoints, times and losses |
| `Enumeration_proofs` | `EnumerationInvariant`, `NotHalfLoadedInvariant`, `CachedIsAwaitedInvariant` | the invariants of `enumerate`, for any number of threads, modules, drivers and calls |

Each inductive invariant is part of a property that a run checks, so that TLC has
seen it on a small instance: `IInv`, `FlowInv`, `RingInv`, `FactoryInv`, `AsyncInv`,
`SessionInv` (in `DeviceOutlives`), `LogInv`, `TableInv`, `EnumerationInv`. The two
strengthenings of the factory's (`ExactCounts`, `InTurn`) stand next to their
proofs instead. In `Enumeration_proofs` the induction also carries `NotHalfLoaded`.

- **Handles.** `NextIsFree` is not inductive. `RingOK` adds that the unavailable
  handles are the `numAcquired` slots from the release index on, that all acquired
  ones lie there, and that the oldest of them is held because the release loop
  ran as far as it could. The facts on `%` this rests on come first in
  `Endpoint_proofs`; that a call keeps `RingOK` is proved once, and used for
  `EndpointHandles` and for both ends of `StreamFlow`.
- **Flow.** The window is kept because the counters form a chain (`Chain`,
  `SenderKnows`): acknowledged, ACKs in flight, last ACK, received, datagrams in
  flight, sent. Since the ends of the chain are less than a period apart, a
  comparison modulo `SeqMod` is a comparison of the counters.
- **Ring.** `Aligned` ties tail to head through the count, the buffer held and the
  block stored but not yet counted; `ReaderHolds` says which buffer is held. On top
  of it come the blocks that wait, `Block(0)` to `Block(Queued - 1)`, which a step
  keeps, drains, extends by the newest or shortens by the oldest. `BlocksInOrder`
  says that they grow and are newer than the last one acquired. `OldDrained` says
  that old ones are there only while a reset is pending which no acquire under way
  can miss. `GapsTold` says that they are consecutive up to the newest unless the
  overflow flag is set, and follow the last one acquired unless the reader was
  told; right after a drain they are consecutive although the flag is still set,
  which is why clearing it then is harmless, except for a drop in between (`raced`).
  The theorems assume a reader that holds one buffer at a time (`MaxHeld = 1`) and
  nothing left over at activation: without these they are false (see above).
- **Factory.** A device that has a user is counted (`UsersCounted`), one that is
  being stored or deleted is not and belongs to one call (`OneOwner`), so the
  address a constructor gets is nobody's. `NoLeak` needs the counts to be exact
  (`ExactCounts`): every count is the number of holders, as long as no list
  failed. Calls in turn (`InTurn`) add that only one call is active, so what it
  looked up is still so when it stores.
- **Asynchronous reader.** `InStep` follows the sweep: while nothing was
  cancelled, the transfers it passed are idle (`Swept`), so that a sweep that ends
  without cancelling proves all of them idle (`LeavesClean`). `StatusTells` says
  when the status is INACTIVE, `CallsInStep` which thread exists when.
  `ErrorsCounted` is what the alarm needs: the errors counted since a read began
  with none are at most the idle transfers, because a transfer is submitted again
  only where the count is reset.
- **Session.** `StreamInv` relates the handler's table, the device's streams and
  the workers, and says that a close which has begun leaves no stream out; with it
  a worker's stream is open while it runs, and the end of the session has closed
  every stream. `NoneDangling`, part of it, says that before a `closeStream` throws
  there is no pointer to a deleted worker, and an entry without its stream only in
  a close of all of them. `SessionInv` adds the client. As long as no call was given up there
  is one message at a time, a request, the handler's work on it or its reply
  (`OneAtATime`), and it is that of the thread with the mutex; so its number is
  that of the call which waits (`RepliesMatch`), a stream that the client was told
  of and has not asked to close is in the table (`HeldInStep`), and the device was
  made before the first stream and is released after the last (`DeviceMade`).
- **Log.** `EntryInStep` ties the client's entry to its connection and its thread.
  `InTouch` follows a connection from START on: request, handler at work, reply
  under way with at most log messages around it (`Starting`), then subscribed with
  only log messages to come (`Forwarding`). Unless a reply was missed, every other
  open connection is lost, so there is one subscription at most.
- **Discovery.** `Informed` is what a table entry is owed to: a client that
  searches has a search or an announcement under way, or an entry that lasts as
  long as the last notification. `EndedInTime` says that an ended server's
  messages are of the time it ended, so that no entry outlasts it by more than the
  duration. Both range over the sender too, which hears what it sends to the group.
- **Enumeration.** `TableInStep` says that the registry's entries are those of the
  registered modules, one to one. `LoadedFirst` says that one thread loads at a
  time and who came past the automatic load found it done. `FindsInStep` gives
  every find that is not over a thread that has its future, and as long as nothing
  is unloaded during an enumerate, a module that is loaded. `NotHalfLoaded` is
  needed for the step in which the load ends.

Assumptions that the proofs added: `ThreadAssumption` (the model's names `"main"`
and `"nobody"` are no client threads), and `Paths \in Seq(Modules)` in
`EnumerationAssumption` (the modules to load are a finite list).

Only model-checked is liveness (`NeverStalls`, `AllDelivered`, `CancelledEnds`,
`DeleteEnds`, `LostIsReleased`, `ListenerReturns`, `LoggerReturns`,
`SubscriptionEnds`, `CallReturns`), which the prover does not do under fairness.

A leaf that names `Zenon` needs no arithmetic. The SMT translation of `tlapm` 1.4.5
becomes slower with every leaf it has translated for a module, up to its own time
limit, so in the long modules it is left the leaves that need it.

## 5. Not modelled

- Sample conversion and time stamps (of the ring: `ticks` is advanced in bytes and
  in samples at different places, and overwritten by `setSampleRate`).
- The status messages of the endpoint, a byte stream that breaks inside a header,
  a window smaller than one datagram.
- The stream data in `RemoteSession` and the sessions in `StreamFlow`: the two are
  not composed, so that what a sender does after the worker at the other end quit
  is in neither.
- What a driver's call does that does not return: those on the device are taken to
  keep their timeout, `closeStream` and the making of a device to return or throw.
- The encoding of RPC messages and the socket wrapper; settings calls, which all
  pass through like the one that stands for them; the remainders kept by the
  client's `readStream` and `writeStream`.
- That `~Registry` changes the function table without the registry's mutex.
- mDNS, several interfaces and IP versions of one endpoint.
- The queues of SoapyAirspy, SoapyAirspyHF and SoapyAudio: rings of the design of
  `RtlRing` with differences that were not worked out.
- Converters, C bindings and types (sequential; floating point), tuner and
  register code (nothing to check without the chips), and the drivers, vendor
  libraries and test programs that this distribution only bundles. These bundled
  trees are most of the repository's lines, so that what is modelled is a small
  share of the whole, although it is most of the concurrent code of SoapySDR's
  factory, SoapyRTLSDR and SoapyRemote.
