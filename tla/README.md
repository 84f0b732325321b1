# A verification project for the A.R.M. Lidar system

The program connects to an RPLIDAR over a serial line, reads its scans in a
background thread, and draws them in a window.  It consists of a Windows
application (`src/LidarTest/LidarTest`, "the application") over SLAMTEC's driver
(`src/rplidar_sdk-master/sdk/sdk`, "the driver").  The repository has no tests; what
the code promises is written in the comments of its headers, which the properties
quote where they can.

This directory holds TLA+ modules translated from that code, TLC configurations that
check them on small instances, and proofs that TLAPS checks for every value of the
constants.  `PROJECT.json` maps every definition to the lines it stands for and lists
the runs, the seeded faults each property detects, the findings, the hazards and the
theorems.

## 1. The system

Paths are relative to `src/LidarTest/LidarTest` (app) and
`src/rplidar_sdk-master/sdk/sdk` (sdk).

| Component | State | Operations | Talks to |
|---|---|---|---|
| Driver, scan session (sdk `src/rplidar_driver.cpp`) | `_isConnected`, `_isScanning`, `_cachethread`, `_lock`, `_dataEvt`, the published scan and its count, the interval buffer; in the caching thread `local_buf`, `local_scan`, `scan_count` | connect, stop, the queries, the scan starts, motor, grab, interval, destructor; `_cacheScanData` in its own thread | the channel; the reader thread calls it |
| Driver, frames and capsules (same file) | `_cached_previous_capsuledata` and its kin, `_is_previous_*Rdy`, `_syncBit_is_finded` | byte parsers, capsule to node conversion, angle sort, fixed-point conversion | channel below, session above |
| `LidarDeviceWrapper`, `LidarContainer` (app `lidar/`, `lidar_draws/`) | the driver object, the read counter, the readings, `valuesLock`, `need2stop` | init over the baud rates, cleanup, runScan, readOnce, testHealth; the reader's loop; draw; destructor | the driver; the render thread through `lastToDraw` and the density |
| `WinRend`, `Scene`, `InputSource` (app `sfml_wrap/`) | the window, `lostFocus`, the queue of events, `renderMutex`, the key map, the density | main loop over the events, render loop, update, draw | SFML; the container |
| `recursive_spinlock_t`, `spinlock_t` (app `helpers/spinlock.h`) | flag, owner, counter | lock, try_lock, unlock | the lock of the two components above |
| `SafeQueue` (app `helpers/safequeue.h`) | mutex, condition, deque, limit | push, pop and their variants, clear, swap, copy and move assignment | the window's two threads |
| `hal::Event`, `hal::Locker`, `hal::Thread` (sdk `src/hal`, `src/arch`) | signal and auto-reset, mutex, handle | set, wait, lock, create, join | the session |
| Serial and TCP driver, channel devices (sdk `src/rplidar_driver.cpp` from line 2226, `rplidar_driver_TCP.h`) | the channel object, the flags they share with the session | connect, disconnect, destruction, the read loops of answers and nodes | session above, port or socket below |
| Serial ports and sockets of three platforms (sdk `src/arch`) | descriptors, the pipe of `cancelOperation`, the bytes received | open, close, read, write, wait; address, create, connect, dispose | the operating system |
| Helpers, website, project files | none of the program's | | |

Four threads run: the main thread polls the window, the render thread draws, the
reader thread calls the driver, and the driver's caching thread reads the
measurements.  They meet at six places: the queue of events and `renderMutex` (main
and render), `valuesLock` and the density (render and reader), `_lock` and `_dataEvt`
with the published scan (reader and caching thread).  A request to close the window
ends the render thread, then the scene, whose container ends the reader, whose
wrapper destroys the driver, which ends the caching thread.

### What is hard in it

* One serial channel carries the answers to commands and the stream of measurements.
  No lock keeps two readers off it: `_lock` is held while a command waits for its
  answer, but the caching thread reads without it.  Only the order of the calls
  (`_disableDataGrabbing` first, then the command) does.
* The scan and the event that announces it are two variables, and the caller tests the
  count without the lock.
* The device is pulled and plugged in, fails and recovers while any call is under way.
* The reader is stopped from a destructor that joins it, wherever it is.
* The caching thread assembles scans out of batches that time out, lose nodes or repeat
  the stale content of a buffer.
* A frame may stop in the middle, an answer may come after its request was given up, and
  a wait over TCP is granted with the first byte of what was asked for.
* The same calls run over three platforms whose threads, events and ports differ: a handle
  that is joined a second time on POSIX only, an event that is not tested again after a
  wakeup, a `select` that is called with the set the last one left.
* `disconnect` leaves `_isConnected` raised; over TCP it also leaves a socket pointer that
  is NULL, and the next call of the driver goes through it.
* A capsule of an express scan can be decoded only with the next one, so the decoder
  holds one back, and must drop it whenever something between them was lost.
* A thread that pops from the queue sleeps on a condition that every push signals to
  one thread only, and another may take the item first.
* Key presses and releases pass through two queues, and some are dropped.

`PROJECT.json` lists forty hazards with their lines, and for each the properties that
would notice it going wrong; where a property allows the very case, or covers a
part of it, a note says so.

## 2. The modules

| Module | Models | Kind |
|---|---|---|
| `ScanMailbox` | what the session promises to a grabbing caller | abstract specification |
| `ScanSession` | driver, scan session | the API calls and the caching thread |
| `MCScanSession` | instances: sets of calls and of link faults | for TLC |
| `ScanSessionProofs` | | theorems |
| `CapsuleDecoder` | the express decoder below the session | bytes, capsules, start bits |
| `MCCapsuleDecoder` | what payloads look like | for TLC |
| `CapsuleDecoderProofs` | | theorems |
| `Platform` | the build (Linux, macOS, Win32) and the kind of driver | shared by the modules below |
| `HalEvent` | `hal::Event` on pthreads and on Win32, any number of waiters | a component of its own |
| `HalEventProofs` | | theorems |
| `HalThread`, `SerialPort`, `StreamSocket` | `hal::Thread`, `raw_serial`, `SocketAddress` and `StreamSocketImpl`, one definition per platform | the outcomes of each operation |
| `ByteChannel` | what the driver relies on when it reads bytes | abstract specification |
| `DriverLink` | the serial and TCP drivers over all of the above | their composition |
| `MCDriverLink` | the bounds | for TLC |
| `DriverLinkProofs` | | theorems |
| `RecursiveLock` | a recursive mutex | abstract specification |
| `RecursiveSpinlock` | `recursive_spinlock_t`, one atomic access a step | the algorithm |
| `RecursiveSpinlockProofs` | | theorems |
| `LidarReader` | `LidarContainer`'s thread over `LidarDeviceWrapper` | one driver call a step |
| `Readings` | the way from the nodes of a scan to the readings on the screen | pure functions, with what they are to compute |
| `MCLidarReader` | the baud rates of the code, small scans | for TLC |
| `LidarReaderProofs` | | theorems |
| `SafeQueue` | `SafeQueue`, any number of queues and threads | one critical section a step |
| `MCSafeQueue` | limits and the directions of swap and copy assignment | for TLC |
| `SafeQueueProofs` | | theorems |
| `WinRend` | `WinRend::Main`, its render thread, `InputSource`, `Scene`, the density | both loops and the user |
| `WinRendProofs` | | theorems |

The modules are layers that lean on one another by what they promise.  `WinRend` and
`LidarReader` take `recursive_spinlock_t` as one atomic lock, which
`RecursiveSpinlock` implements (`ImplementsLock`).  `LidarReader` takes a driver call as one step
that returns, which is `CallReturns` of `ScanSession`.  `ScanSession` takes a capsule
as something that is right, damaged or late, whose measurements come out with the
next one; `CapsuleDecoder` shows that from the bytes.  Both take bytes from a channel
that hands them to one reader at a time, in order, which is `ByteChannel`; `DriverLink` implements it
over the ports and sockets.  `LidarReader` calls the functions of `Readings`.

### ScanSession

One application thread calls the API; the caching thread runs beside it.  An API call
is a program, the sequence of the stages it executes (`Program`, built with `\o` the
way the functions of the driver call one another), and `rest` is what is left of it.
Stages are one access of the shared state each: `disable` and `join` are the two
statements of `_disableDataGrabbing`; `exchange` sends a command and reads its answer
under `_lock` (`AcquireLock`, then `CommandDone` or `CommandFail`); `probe` is one
whose failure the caller ignores; `enter` raises `_isScanning` and creates the thread,
which may fail (`EnterWithoutThread`); `wait`, `test` and `consume` are the three steps
of a grab; `scanning`, `shift` and `remaining` those of the interval call, whose last
reads the count without the lock, as the code does.

The caching thread's place is `cpc`.  With single nodes it fills `local_buf` up to
`count` (`ReceiveNode`, `BatchExpires`, which lowers `count` for the rest of the scan
as the code does, `BatchJunk` for a batch that is not written at all), and goes
through it node by node: `Assemble` appends and caps, `Publish` copies the complete
scan under the lock, `Signal` sets the event, `KeepInterval` appends to the interval
buffer.  `decoder` is what an express scan decodes: `DiscardCapsule`, `HoldCapsule`,
`DecodeCapsule`, `DamageCapsule` and `AwaitCapsule` are one round of its loop each.
A measurement is the revolution it was taken in and its start bit; distances and angles
are left out.

### CapsuleDecoder

One byte is one step.  The device sends capsules (`angle`, `first`, `look`, `idx`); the
parser follows `_waitCapsuledNode` (`recvPos`, and `clean`, which is whether the bytes
it holds are those of one capsule, hence whether the checksum is right).  The payload may look
like sync bytes, so the parser can lock on to the wrong place.  `format` is the scan that was started: an
HQ capsule has one sync byte and a checksum of its own, and is decoded by itself.  `ready` is
`_is_previous_capsuledataRdy` and `_is_previous_HqdataRdy`, `found` is `_syncBit_is_finded`; none is initialised by
the constructor, so `Init` leaves them open.  An express capsule that is complete and right is
interpolated from the start angle of the one before (`Interpolate`: the increment, the
predicted angles, the start bit of each measurement).  The history variables `age`,
`torn`, `pair`, `turn`, `starts` and `lap` record what was interpolated with what, how far
the scan went and how many starts it had, counted anew wherever capsules do not follow one
another (`CountAnew`); the code has none of them.

`_waitUltraCapsuledNode` and `_waitCapsuledNode` are the same function over different
sizes, and the three `*ToNormal` functions differ, in what is modelled, in the number
of measurements (`Cabins`).  The comments in them that speak of a start bit sought "in
0~1 degree" and "0~3 degree" belong to a threshold that is computed and never used; the
code looks between 0 and 90 degrees, and so does `SyncBitFound`.

### DriverLink and the layers below it

`os` and `kind` say which files were compiled and which driver was created; they never
change.  Below, an operation of the operating system is the set of what it may answer:
`OpenPort`, `SendPort`, `ConnectSocket` are sets of outcomes, and `SerialPort` and `StreamSocket`
have one definition for each platform's file, so that each can be read beside its
code.  `table` counts the descriptors the process has open, which the code does not
know; it shows what is closed twice or never.

`HalEvent` puts everything that runs under the event's mutex into one step.  A sleeper that
was signalled is `woken` until it has the mutex again, and there the flag is only
asserted: `aborted` is what a debug build does when it is clear.  `HalThread` keeps the handle
and the state of the thread it names apart, because `join` on POSIX clears neither.

`DriverLink` runs one application thread and the caching thread.  A call is a plan, as in
`ScanSession`; its stages are those of an exchange (`disable`, `join`, `ask`, `header`, `payload`), of a
scan start (`create`), of a grab (`wait`, `take`) and of the end (`close`, `destroy`).  `rd` is where
each of the two readers is: `loop`, then a wait on the port or socket (`arm` and `wait` on Win32,
`wait` elsewhere), then `ready`, and `TakeReader` puts what was read through the parser of
`_waitResponseHeader` or `_waitNode` (`Parse`, which drops the byte at which it starts again).  `watch` is
what the wait is on: on Linux and macOS the set given to `select`, on Win32 whether the event was armed and fired.
`answer` is history: whose answer was heard, what payload was taken, whether bytes of an
older one were there.  `crashed` names the end of the process by something undefined or
asserted: a thread joined twice, the NULL socket, the assertion of the event, `FD_ISSET` with -1.

The device sends header, payload and nodes of 3, 2 and 2 bytes, with the values that the parsers
tell apart.  Abstracted: the termios settings and the overlapped structures, DTR and the
motor, EINTR; what comes while nobody reads is delivered when the next read begins; the
device answers only behind at most `MaxBacklog` bytes that were left, or the line would
grow for ever; the local host, to which a name that is not an address connects, does not
answer.

### RecursiveSpinlock, LidarReader, WinRend

`RecursiveSpinlock` has one step per access of `lock_flag`, `owner_thread_id` and
`recursive_counter`, interleaved in any order; the acquire and release orders of the
code on flag and owner give what sequential consistency gives here, because a thread
that finds itself in `owner_thread_id` wrote that itself.

`LidarReader` is the loop of the container's thread: `rpc` is the driver call it is about
to make, `goal` says on whose behalf (constructor, `testHealth`, destructor), `drv`, `port`
and `scanning` are the driver object, the opened port and the scan, `counter` the read
counter.  The device changes at any moment (`DeviceChanges`: gone, noisy, broken or
well) and every driver call may fail when it is not well.  `Lock` and `Write` are the
swap of `lastToDraw` under `valuesLock`, `DrawLock` and `DrawCopy` the drawer's copy of it.  A grab
returns the first nodes of the published scan (`published`), as many as the density asks for
(`asked`, `FirstOf`), which is what the code does and not what its header says (`full_circle`); `Ascend` is the driver's `ascendScanData_`, `Shown` the
filter and the two sorts of the thread's loop.  `ShowsScan` says what a picture is to show without
going that way.  Angles are whole degrees and distances millimetres; readings that compare
equal come out in any order that `std::sort` may leave (`Sorted`), so a scan has a set of `Pictures`.

`WinRend` has the main thread's loop (`mpc`), the render thread's (`rpc`), the queue of
events between them, the mutex they draw and resize under, and the user, whose events
wait in `pending`.  `Clamp` and the arithmetic of the density are those of `uint32_t`.

### SafeQueue

Each public member function is one critical section, so one step, except that a pop
which finds the queue empty sleeps (`Pop`), is woken by a notification or for no reason
(`SpuriousWakeup`) and goes on when it has the mutex again (`Resume`), and that swap and
copy assignment hold the first mutex while they wait for the second (`LockFirst`,
`LockSecond`).  The swap with a plain queue brings items of the caller's own in (`SwapOut`).
The move assignment has the mutex of `this` only and empties the other queue all the same
(`MoveAssign`): it may come between the two locks of another thread.  Items are numbered as
they come in.  `try_move_pop`, `timeout_pop` and
`timeout_move_pop` call `std::deque::pop`, which does not exist: they cannot be
instantiated and are not modelled.  `set_max_num_items` is not called while the
queue is shared: the limit is a constant.

## 3. The runs

| Run | Question | Answer |
|---|---|---|
| `session` | every interleaving of the calls that start, stop, grab and destroy with a caching thread over a link that loses, damages and withholds | `OneReader`: nobody reads an answer while the caching thread reads measurements.  `ThreadOwned`: a thread that runs can be joined, and never outlives the driver.  `NoLostWakeup`: a published scan stays announced until it is taken.  `PublishedScan`: what comes out starts with its start bit and has no second.  `ImplementsMailbox`: the session implements the one-place mailbox of `ScanMailbox`, so a scan is handed out once, whole, and the newest one.  `IInv` is the invariant of the proofs |
| `session_live` | every call of the driver over a link that may fall silent | `CompleteRevolution`: with no measurement lost, a published scan is one complete revolution.  `IntervalDelivered`: nodes leave the interval buffer only into a caller's hands, and as many as it is told; a matter of counts.  `CallReturns`: every call returns, so no join waits on a thread that waits on its caller.  `GrabDelivers`: a caller that keeps grabbing empties the mailbox |
| `grab_timeout`, `merged`, `nothread`, `full_circle` | three sentences of the driver's header, and one of the wrapper's | false of the code, see section 7 |
| `capsule` | two scans, express or HQ, a byte lost or damaged, a timeout, anything left from before | `Consecutive`: only neighbours are interpolated.  `OneStartPerTurn`: from one start bit to the next the scan goes round once, give or take one measurement; only the first start after capsules went missing may come late in its quarter, and the turn after it is as much shorter.  `StartComes`: never more than a turn and a quarter without one, whatever `_syncBit_is_finded` was.  `Recovers`: capsules of either kind are recognised again, for ever |
| `spinlock` | three threads, locks nested twice | `UnlockAsserts`: the asserts of `unlock` hold; `ImplementsLock`; `SomebodyGetsIt`: if a thread spins, some thread gets the lock.  `IInv` is the invariant of the proofs, the types included; that at most one thread is inside (`Exclusive`) and that only the owner touches the counter (`CounterIsPrivate`) follow from it |
| `reader` | a device that is pulled, fails and recovers at any moment | `HealthCheckDue`: after an empty read the very next round checks the health.  `PortOwned`: the port is open exactly while a driver has it, so the next attempt can open it.  `NoTornReadings`.  `StopsClean`: a thread that has ended left no driver, no open port and no scan that is cached; the motor may still turn, if the device could not be told.  `DrawsTheScan`: a new picture shows, of the first nodes of the published scan, as many as were asked for, each measured in view, once, at its own angle, the farthest first, though nodes without a distance got invented angles in between.  `Recovers`: a device that stays well is found again and read.  `ShutdownCompletes`: the destructor's join ends, wherever the thread was |
| `window` | the user types, resizes, switches away and closes at any moment | `WindowExclusive`: nobody closes or resizes the window in the middle of a frame.  `KeysFollow`: once the queues are empty, the scene's keys are the user's.  `CloseEnds`: a request to close ends both threads.  `TypeOK` holds the density within its bounds: it never wraps round |
| `queue` | three threads on two queues, one of them limited, and a plain one | `NoLostWakeup`, `PopServed`: no pop sleeps next to an item for which nobody was woken, and each is served.  `InOrder`: items keep the order in which they came, through swaps, assignments and moves.  `HeldContents`: while a mutex is held for another's, that queue keeps its contents or loses them whole to a move assignment, the one operation that does not ask for it.  `IInv` is the invariant of the proofs, the types included |
| `link` | both drivers on three platforms, from connect to `DisposeDriver`, over ports and sockets that fail and a device that is late, silent or unplugged | `ExchangeSound`: an answer that is accepted belongs to its request, with all of its payload; the exceptions are stated in the property.  `ConnectedMeansOpen`: what is connected has its channel, and to the address that was named.  `ReleasedOnce`: what was opened is closed once; the two uses of something gone are those of section 7.  `NoSleeperMissed`: a grabbing caller never sleeps beside a signal nobody comes for.  `ImplementsByteChannel`.  `CallsEnd`: every call returns, unless a frame stops in the middle on POSIX |

Every property of a passing run has a mutant in `PROJECT.json`: a small fault seeded in
a translated definition, defined in the module beside the original and marked
`(mutant)`, which makes TLC find the property violated under the same configuration.

### The bounds

* `session`, `session_live`: revolutions are numbered modulo 2, have 2 measurements, and
  come in batches of at most 2, so that a batch straddles the start of a revolution, is
  cut by a timeout and repeated stale.  `ScanCap` is 3 or 4: enough for a whole
  revolution and for overrunning it once two are merged.  The caller's buffer (1 or 2) is
  smaller than what is held for it.  There is no bound on the number of calls or of
  revolutions: the state spaces are finite as they are, so the runs cover behaviours of
  any length.  `session` leaves out calls that are the same programs in another order;
  `session_live` has them all, over a link that may only fall silent.
* `capsule`: 2 payload bytes, one of the two payloads looking like a pair of sync bytes;
  7 start angles and steps of 1 and 2 of them, so that turns differ and most end
  within a capsule, with 2 measurements in each capsule; 1 byte lost or damaged, 1
  timeout, 2 scans.  A loss of as many bytes as a capsule has would bring capsules together
  that are not neighbours: nothing in the format tells, and `DecoderAssumption` excludes it.
  It also asks that a measurement is less than a quarter of a turn from the next, without
  which a start can be stepped over.  The device's own numbers (360 degrees, 32 to 96
  measurements in a capsule) are out of TLC's reach; the proofs cover them.
* `spinlock`: 3 threads, so that a waiter is overtaken; nesting to 2, so that an inner unlock
  is not the last.  `reader`: the code's own baud rates, of which the last is the
  device's; a health check every 3 reads in place of 100.  `window`: 2 events under way,
  `DensityMin` 6 to 9 in words of 16 values in place of 10 to 1000 in 32 bits: a step up
  and a step down from everywhere, and a wrap if one is missed.
* `reader`, pictures: 8 scans of 3 or 4 nodes, the number of which divides a full turn, with
  nodes not measured at the head, in the middle and at the tail, angles out of order and
  beyond a turn, and every border of the view; 2 densities, one of which cuts the scan.
  `full_circle`: a scan with one measurement in each quarter, of which two are asked for.
* `link`: 3 calls and the disposal: a scan is read while the next exchange begins, an answer
  comes after its request was given up, and a driver is used after it was disconnected.  1
  measurement; 1 fault (a stray byte, an error of the line, or the device unplugged), from the
  second call on, which may be the connection, after a stop or a grab on a driver that is not
  connected; a port number of more than 16 bits.  516,868 distinct states.
* `queue`: 3 threads, 2 queues, 7 calls: two that sleep and one that pushes, swaps or steals;
  up to 2 items in the plain queue that is swapped in, so that one swap serves two sleepers.
  Moves go both ways, but every swap and copy assignment locks in one direction; in both, two threads lock
  each other out, which the run shows at once when `Pairs` has both.

### Fairness

`FairSpec` of each module says why, next to the formula.  Threads run: weak fairness on each
thread's steps.  Strong fairness stands where a thread competes for a lock: a Win32
mutex is granted in the order of asking (`ScanSession`), and the loops of the
application sleep between rounds with the lock free (`LidarReader`, `WinRend`).  The
spinlock itself has weak fairness only and promises accordingly little
(`SomebodyGetsIt`); so has the queue, whose mutex is modelled as free when asked for
again.  Every wait on the channel ends by its
timeout in `ScanSession`, as it does on the Win32 port and over TCP.  `DriverLink` shows the one case in
which it does not (`HeldByFragment`): weak fairness on each thread and on each round of a wait, and strong
fairness on the clock that ends the read loops (`TimeOver`), which they look at again and again but not
all the time; nothing is assumed of the device.  In `LidarReader` a device that is well
publishes again and again, and a grab of two seconds meets one of ten scans a second; the
operating system does not refuse the caching thread for ever (`ScanStarts`).  In
`CapsuleDecoder` bytes keep coming, and payloads that do not look like sync bytes come
again and again.  Nothing makes a caller call, a user type or a link fail.

`CHECK_DEADLOCK FALSE` is set for `window` and `link`: a program whose window is closed has ended, and
so has one that has disposed of its driver or was ended by `crashed`.

## 4. What is proved

TLAPS checks the following for every value of the constants the assumptions allow;
TLC evaluates those assumptions in the runs.

* `ScanSessionProofs`, from `SizesAssumption` (the capacities are positive, the two capped
  buffers hold at least two) and `CallsAssumption` (the calls are among `Program`).
  The safety properties are not inductive: that the caching thread is gone when an answer is
  read follows from the joins of the *rest* of the call in progress.  `IInv` adds
  `JoinedFirst` (in what is left of a call, every stage that reads an answer has a `join`
  before it, or the thread is gone), `EnterConnected` (a thread is created on a connected
  driver), `GrabShape` (a grab's three steps come in order), `LockHeld`, `ScanOpen` (no second
  start bit in `local_scan`) and `GrabReturned`.  `Guards` is a property of stage sequences
  that concatenation preserves, so `ProgramsJoinFirst` follows from how the programs are
  composed.  One lemma per conjunct shows that every action preserves it; `Inductive` puts
  them together, and `TypeCorrect`, `ChannelHasOneReader`, `ThreadIsOwned`,
  `WakeupNotLost` and `ScansWellFormed` follow.  `Refinement` shows that the session
  implements `ScanMailbox`: `Publish` is `Put`, `Consume` is `Take`, a new call is `Forget`,
  a new connection is `Renew`, the rest stutter; `IInv` is needed for what is published to
  be a scan.  `RevolutionsComplete` has a hypothesis about the link, that the worst it does is fall
  silent (`LinkFaults \subseteq {"silent"}`): with more, it is false, as `merged` shows.  Its invariant
  `Streamed` says that what is in `local_buf` goes on in the device's stream where `local_scan` ends,
  whichever thread stands where, and that the stream goes on where `local_buf` ends; `Between` and
  `CapsuleSized` say when the buffer is empty or of one capsule.  `IntervalsDelivered` is
  about counts: nobody takes from the interval buffer of a living driver but a call that reports
  how much; which nodes it delivers, and in which order, is not stated.
* `CapsuleDecoderProofs`, from `DecoderAssumption`, which the device's numbers satisfy.  `Tracked` is the heart of
  `Consecutive`: of a cached capsule which no timeout followed, the *very next* one is coming into
  the buffer, since what was lost meanwhile is less than a capsule (`Coming`, with the bytes of the
  current one counted in).  For the start bits, `Turning` keeps the account of the turn through the
  measurements of a capsule: how many starts there were, and whether the last is behind.  That the recursive
  function of `Interpolate` exists and unfolds is itself proved (`InterpolateIs`), as is natural
  induction in the form of sets, from the well-foundedness of the strict subset order.
  `ConsecutiveHolds`, `OneStartPerTurnHolds` and `StartComesHolds` follow.  An earlier
  `OneStartPerTurn` held in TLC's instance and was found false here, on circles larger
  than that; the statement and the history variables it uses were put right.
* `LidarReaderProofs`, from `ReaderAssumption` (a health check is due every two reads or more, scans are
  sequences of nodes).  `IInv` adds to the properties who holds `valuesLock` (`LockHeld`), that the thread
  comes to nothing else once it runs its last cleanup (`Ending`), and how the read counter bounds the reads
  since the last check (`Paced`), for `HealthCheckDueHolds`, `PortOwnedHolds`,
  `NoTornReadingsHolds` and `StopsCleanHolds` (the driver, the port and the caching thread; not the motor).
  That the nodes to be drawn are the first of the published scan is `OfAScan`.  `DrawsTheScanHolds` is about scans of any length: each pass of
  `ascendScanData_` keeps the nodes that were measured (`Keeps`), the filter and the two sorts then show
  what `ShowsScan` asks for, in whatever order the sorts leave what is equal.  `EveryScanIsDrawn` shows that there always
  is such an order, so that no scan is without a picture.
* `WinRendProofs`, from `WindowAssumption` (the bounds of the density leave room for its steps at both ends), for any number of
  events under way.  `KeysFollow` follows from an invariant of what the keys will be *in the end*
  (`KeysTracked`): the map, changed by the events in the queue, by the one in the main thread's hand and by those not
  polled, in this order.  The steps of the two threads move events along and change nothing of
  it.  `WindowExclusiveHolds` follows from who is where under the mutex (`MutexHeld`), `DensityMoves` from the
  arithmetic of the clamp.
* `RecursiveSpinlockProofs`, from any set of threads that does not contain `NoThread`: `IInv`
  says that the flag is set for exactly one thread, that who is in the owner field is
  inside, and that the counter is the owner's depth, up to the access it is about to
  make.  Exclusion, the privacy of the counter, the asserts and the refinement of
  `RecursiveLock` follow.
* `SafeQueueProofs`, for any finite set of threads: a queue that has a sleeper has at least as many
  woken threads as items (`NoLostWakeup`), by counting (`NotifyOneServes`, `ServedStays`);
  the order of the items; and `HeldContentsKept`, that a queue held between two locks stays as it is or is
  moved away whole, for which a thread between its two locks has to hold the first (`FirstHeld`).
* `HalEventProofs`, for any set of waiters: `SignalIsNeverMissed`.  The flag is found set beside a
  sleeper only while a thread that `set` released has not had the mutex yet.
* `DriverLinkProofs`, from `LinkAssumption` (the port and the bound of the calls are natural numbers, the
  application's thread is one of the event's waiters), for any number of calls, measurements and faults.  `LinkInv` relates
  three things that the properties do not mention together: what the port object holds to
  what the process has open (`Accounts`: a descriptor is open exactly while the object has it), the
  flags to the socket, and the state of the driver to the stages still to come (`Orderly`: `destroy`
  is the last stage of a plan, and a plan with one opens nothing).  `CloseAccounts` and `OpenAccounts` say
  what `close` and `open` do to an object in any state, the middle of a failed `open` included.
  `ConnectionIsOpen` and `EverythingReleased` follow.  `DriverUsesEvent` shows that every step of the driver is a step of
  `HalEvent` or leaves the event alone, so `GrabberIsNotMissed` is `SignalIsNeverMissed` of it.

  `ChannelImplemented` is the refinement of `ByteChannel`.  What it needs is that two threads never read
  at once, which no lock sees to: `ControlInv` says of the stages to come that whatever counts on the
  channel comes after a `join` (`Joined`, kept by every stage and by `PlansSuppose` for every call), and of the
  caching thread that while it runs there is a join to come.  `ReadInv` then places each reader: the
  client at the stage whose bytes it reads, the caching thread in its loop, and a wait that was granted
  with as many bytes as it was for still there (`Granted`), because nobody else takes any.
  A step of a reader is a `Turn` or `Takes`, and each of these is one step of the channel.

  `ExchangesAreSound` is about the bytes under way (`Stream`: what was received, then what is on the line).
  `StreamInv` says that while the client reads a header, either there is no answer in the stream yet or its own
  begins at the place where the parser is (`Awaits`), and that the payload is what comes next once the header is through
  (`Collects`).  `OneByte` takes one byte through the parser; a read takes at most three, so
  `ParseFew` unfolds the fold that far without an induction, and `FewBytes` follows.  A byte that comes in
  moves from one part of the stream to the other; measurements come behind and begin no answer.  The
  property's exceptions are the hypotheses: no fault, and no answer in the stream when the
  request was sent (`stale`).

Model-checked only: everything that needs fairness (`CallReturns`, `GrabDelivers`, `Recovers`, `PopServed`,
`ShutdownCompletes`, `CloseEnds`, `CallsEnd`, `SomebodyGetsIt`), which TLAPS 1.4.5 has no rules for in this form.
Every safety property of a passing run is proved.
No module uses a RECURSIVE operator: what recursion there is (`Interpolate`) is a recursive
function.

## 5. What is left out, and why

* A lidar that stands: of two capsules with equal start angles the increment is zero, and the code divides
  by it (`rplidar_driver.cpp:668`, 847 and 1239), which is undefined.  `DecoderAssumption` has the lidar turn from
  every capsule to the next, so neither the run nor the proofs say anything of this case.
* A move assignment of a `SafeQueue` in the middle of another thread's section on the queue it takes from: a data
  race, after which nothing holds.  `MoveAssign` comes before or after every section.
* On Win32, `rxqueue_count` answers with a `COMSTAT` that nobody wrote if `ClearCommError` fails
  (`arch/win32/net_serial.cpp:295-300`), as it may once the device is gone.  `WinCheck` has it answer with the number of
  bytes received; with another one a wait could be granted for bytes that are not there.
* The data: distances, qualities, the correction of single angles, text on the screen.
* The conversions between the two node formats and the variable bit scale: pure functions, planned.
* The rectangles drawn for the readings: geometry.  One size divides by the distance less 201, so
  it is infinite for a reading of 201 mm (`lidarcontainer.cpp:159`).
* The server side of the sockets, datagram sockets and name lookup, `waitforsent` and `waitforrecv` of the
  ports, `terminate` and the priorities of a thread: nothing calls them.
* `hal::Locker`: `_lock` is a mutex in `ScanSession`.  `~AutoLocker` unlocks whether or not the lock was
  granted; the driver always waits without a limit, so it was.  `~Locker` unlocks a mutex that nobody
  holds, which has no effect on Win32 and none that is promised on POSIX.
* `driver/include`: headers of another generation that nothing builds includes.
* Several application threads that call one driver: the program has one, and `_lock` would
  not be enough for more.

## 6. Plan

In order of what they would tell:

1. `App`: `WinRend`'s shutdown composed with `LidarReader`'s, from the close button to the port.
2. `NodeMath`: the conversions there and back and `_varbitscale_decode`, over bounded inputs.
3. `DriverLink` with the capsules of an express scan in place of single nodes, to join it to `CapsuleDecoder`.

## 7. Where the code and its comments differ

* `grab_timeout` (`rplidar_driver.cpp:1837`): a scan that is published again between a
  caller's wait and its copy leaves the event set; the next grab wakes, finds nothing and reports a
  timeout at once.
* `merged` (`rplidar_driver.cpp:574`): when the measurement with the start bit is lost, two revolutions
  are published as one scan.
* `nothread` (`rplidar_driver.cpp:633`): a thread that could not be created leaves `_isScanning`
  raised; the next `startScan` says that the scan is already running.
* `full_circle` (`rplidar_driver.cpp:1841`): `lidardevicewrapper.h:38` says that `readOnce(count)` gives "1 full
  circle divided into count pieces".  `grabScanDataHq` hands over the first `count` nodes of the scan and
  forgets the rest, so that with a density below the length of a scan the screen shows the beginning of the
  circle only.

Seen while modelling, and true of the modules as it is of the code:

* A queue limited to n items takes n + 1: `push` compares by `>`, before it pushes (`safequeue.h:66`, against line 49).
* The move assignment of a queue takes the contents of the other without its mutex (`safequeue.h:284`).

Seen while modelling, and built into the properties of `link` as what they allow:

* `include/rplidar_driver.h:121` says that disconnecting closes the serial port.  `RPlidarDriverSerial::disconnect`
  (`rplidar_driver.cpp:2242`) stops the scan and leaves the port open, and `_isConnected` raised; the
  destructor closes it.
* `RPlidarDriverTCP::disconnect` leaves `_isConnected` raised as well, and the socket NULL.  The destructor
  calls `disconnect` again, and goes through the NULL pointer.
* `Thread::join` on Linux and macOS keeps the handle (`arch/linux/thread.hpp:129`), so that the first command
  after a scan was stopped joins the thread a second time, which POSIX leaves undefined.
* `waitfordata` of the POSIX ports (`arch/linux/net_serial.cpp:335`) goes on with the same timeout when a part of the data
  is there, and with the pipe no longer in the set: a fragment holds up the caller until more comes.
* An answer that comes after its request was given up is accepted by the next request of the same kind.
* macOS's `raw_serial::_init` sets the descriptor to 0, so a port that never was opened closes the standard
  input when it is destroyed.
* Without a pipe the Linux port asks `FD_ISSET` about -1.
