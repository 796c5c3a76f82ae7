# Verification of yarp-devices-forcetorque

TLA+ models of the force/torque devices of this repository, TLC runs on small
instances, and proofs checked by TLAPS for every value of the constants.
Everything is translated from the sources in `src/`; `PROJECT.json` maps each
definition to the lines it stands for.

## 1. Inventory

The repository holds YARP device plugins. They are loaded by a
`yarprobotinterface`, which opens them, attaches them to each other, lets their
periodic threads and network wrappers read them, detaches and closes them.

| component | state | operations | talks to |
|---|---|---|---|
| `ftNode` (`ftnodeDriver`) | per sensor a force and a torque buffer with update flags; published measurements; serial device pointer; periodic thread | `attach`, `detach`, `close`, `run`, `read` | serial device (called from `run`), clients (call `read`) |
| `ftShoe` (`ftshoeDriver`) | pointers and statuses of two sensors or one ftnode, shared reading buffers, calibration offsets, combined status | `attachAll`, `detachAll`, `read`, `getState`, `calibrateSensor` | sensor devices (called from `read`), clients, calibrating threads |
| `ftShoeUdpWrapper` | pointers to two shoes, UDP socket, initial time, periodic thread | `open`, `close`, `attachAll`, `detachAll`, `run` | two shoes, a UDP receiver |
| `amti` platforms driver | readings of all platforms, one stamp and status, reader thread | `open`, `close`, lookup by identifier, measurement by index, reader `run` | vendor library, force-plate devices |
| `amti` force-plate device | platform index, status, last measurement | `attach`, `detach`, `close`, `read` | platforms driver |
| `ATI_Ethernet` | UDP socket, mutex, last response | `open`, `close`, `read` | Net F/T sensor over UDP, clients |
| `optoforce` | serial package, factors | `open`, `close`, `read` | vendor library |
| `AME` Ethernet service (`EthInterfaceManager`, one per process) | board table, UDP socket, receiving thread with its stop flag and buffer | `addBoard`, `connectAll`, `startRecvThread`, `stopRecvThread`, `worker`, send and receive | boards over TCP and UDP, handlers of the sensors |
| `AME` FT sensor and device (`FtSensorNew`, `amedriver`) | TCP buffer, last sample under its mutex; readings of the device, pointer to the sensor | 17 commands, UDP handler, `getFTData`; `open`, `close`, `read` | Ethernet service, clients |
| `AME` codec | none | encode and decode of each of 40 messages | used by the sensor for TCP and UDP |

Configuration files, scripts, the example device and the build system hold no
state. The full list, with what is modelled and what is not, is
`PROJECT.json`, "components".

What is hard in this code, and what each component must guarantee:

* **Interleavings.** Every device is called by several threads and guards its
  data with one mutex, but single steps are left outside of it: the pointer
  test in `ftNode`'s thread, the sampling loop of a calibration, the socket of
  the UDP wrapper. A client must see wrenches as they were produced: force and
  torque of one message, readings of one call, a packet of one attachment, a
  measurement with its own stamp.
* **Life cycle.** Attaching can fail halfway, detaching can meet a running
  thread. No step may dereference a pointer that was cleared, and stopping a
  thread must not wait for a mutex its caller holds.
* **Staleness.** Update flags, stamps, statuses and initial times outlive the
  event they describe. Published data must be fresh, time must not go back,
  and a good status must mean recent data.
* **Failure.** Serial lines are cut or malformed, sockets are closed, platforms
  are unplugged or missing. Errors must be reported as errors and operation
  must resume.
* **Matching answers.** Neither the Net F/T requests nor the AME commands carry
  a number the driver compares. Which request an answer belongs to follows from
  the order alone: over UDP one duplicate shifts it, over TCP one reply that
  nobody reads.
* **Lifetime.** The AME handler keeps the address of a sensor that `close()`
  destroys, while the static manager, its socket and its thread live on to the
  end of the program.

`PROJECT.json`, "hazards", lists each at its line with the properties that
would catch it going wrong.

## 2. Plan

1. `FtNode` with the abstract `WrenchBoard` it implements, and the proofs. *Done.*
2. `FtShoe` with calibration and life cycle, and the proofs. *Done.*
3. `FtShoeUdpWrapper`: publisher thread against its owner, and the proofs. *Done.*
4. `AmtiPlatforms`: reader thread, platforms driver and force-plate devices, with
   the abstract `MeasurementBoard` they implement, and the proofs. *Done.*
5. `AtiNetFt`: request and response over a network that loses, duplicates and
   reorders, clients that share the socket under one mutex, and the proofs. *Done.*
6. `MultitorqueMessages`, `MultitorqueCodec`: the messages of the AME boards and
   their encoding as pure operators, and the proofs. *Done.*
7. `AmeCommands`, on top of the codec: requests and replies of the FT sensor over
   a TCP byte stream, and the proofs. *Done.*
8. `AmeService`: board table, socket, the receiving thread's life cycle, the
   handler and the device that reads without a lock, and the proofs. *Done.*
9. Left: the composition `FtNode`, `FtShoe`, UDP wrapper, with the abstract
   specification that a packet's wrench is one the sensors measured; the choice
   of AMTI's acquisition rate as an operator; short datagrams in `AmeService`.

Runs are kept to one per question. What is proved is the inductive invariant of
each component, the refinements of `WrenchBoard` and `MeasurementBoard`, the
bounds on how long a thread holds a mutex or keeps another waiting, and for the
codec that decoding restores what was encoded.

## 3. Modules

| module | models | how |
|---|---|---|
| `WrenchBoard` | nothing directly: what the ftnode device promises | a wrench is published in one step, a read returns the whole board |
| `FtNode` | `ftNode/ftnodeDriver.cpp` | one action per critical section, or finer where a thread can be overtaken |
| `MCFtNode` | the lines of the checked instance | |
| `FtNodeProofs` | proofs about `FtNode` | |
| `FtShoe` | `ftShoe/ftshoeDriver.cpp` | |
| `FtShoeProofs` | proofs about `FtShoe` | |
| `FtShoeUdpWrapper` | `ftShoeUdpWrapper/ftShoeUdpWrapper.cpp` | |
| `MCFtShoeUdpWrapper` | the floats of the checked instance | |
| `FtShoeUdpWrapperProofs` | proofs about `FtShoeUdpWrapper` | |
| `MeasurementBoard` | nothing directly: what the AMTI driver promises its devices | each packet is published once and in order, a read is the board at one instant |
| `AmtiPlatforms` | `amti/src/AMTIPlatformsDriver.cpp`, `amti/src/AMTIForcePlate.cpp`, `getCurrentData()` of `AMTIlib.cpp` | |
| `AmtiPlatformsProofs` | proofs about `AmtiPlatforms` | |
| `AtiNetFt` | `ATI_Ethernet/ati_ethernetDriver.cpp`, UDP | one action per critical section, split where it waits |
| `AtiNetFtProofs` | proofs about `AtiNetFt` | |
| `MultitorqueMessages` | the field types of the 40 messages of `AME/MultitorqueEncoder.cpp`, identifiers of `Multitorque.h` | a message is a sequence of types |
| `MultitorqueCodec` | `packHeaderInfo`, `encode`, `decode`, `AME/baseTypeEncoding.*` | pure operators on sequences of words |
| `MultitorqueCodecProofs` | theorems about the codec | |
| `AmeCommands` | the TCP methods of `AME/ftSensorNew.cpp`, `TCPConnector` of `AME/ethService.cpp` | extends the codec; two steps per query |
| `MCAmeCommands` | methods, board and its data of the checked instance | |
| `AmeCommandsProofs` | proofs about `AmeCommands` | |
| `AmeService` | `EthInterfaceManager`, the UDP handler of `FtSensorNew`, `AME/amedriver.cpp` | one action per step another thread can come between |
| `AmeServiceProofs` | proofs about `AmeService` | |

Each model has, for its plausible slips, an operator next to the original
(`NoMutex` next to `MutexFree`, and so on). They are used by no action:
putting one in the original's place must break the property `PROJECT.json`,
"mutants", names, which shows that the property depends on that code.

### FtNode

`forceBuf`, `torqueBuf` hold, instead of three numbers, the number of the line
that brought them; so "from the same line" and "newer" can be expressed. A line
is a function of its four sub-messages to a source and a kind. `Receive` is the
parsing loop (it touches only state of the periodic thread), `BeginPublish` and
`EndPublish` the two halves of a publication, `ReadBegin`, `ReadCopy`,
`ReadReturn` the copy loop of `read()`. A field that does not parse makes
`at(-1)` throw: `ReceiveOutOfRange` ends the process. `detach()` is split in
the request and the join. The state that outlives a detachment (buffers and
flags) is kept, as in the code.

### FtShoe

A reading is represented by the thread whose `read()` put it in the shared
buffer, an output by whether offsets were subtracted from it. `orderly` tells
systems where the owner detaches only what nobody uses from systems where he
does as he likes; in the latter `read()` may meet a null pointer, and the model
then has a crash (`ReadNull`). Means of samples carry only whether some sample
was compensated.

### FtShoeUdpWrapper

Pointers are the number of the `attachAll()` that set them, readings and stamps
are times. A shoe's constructor takes the first stamp (`StartTime`), and it
stamps its output when it is read, also by another client (`ClientReads`). The
code narrows both times of a packet to floats, which at seconds since 1970 lie
128 s apart: the constant function `Float` says what a time becomes, and all
that is assumed of it is that it keeps the order and that 0 is a float. `start()` on a thread that still runs joins it first, between
two calls of `run()`. Both ways `run()` can end the process are steps: a null
pointer, and `send_to()` on a closed socket. The same two shoes are assumed to
be attached each time, and the clock not to go back. The model keeps the
reopening logic as it is in the code, that is, the wrong way round.

### AmtiPlatforms

`open()` keeps the mutex to its end and is one step. The reader thread's loop,
its lock, every fetched packet, the update of its stamp, and the timeout check
are steps of their own. `m_platformIndex` is unsigned: -1 becomes
`UnsignedMax`. A force-plate device is named by its identifier, and the order
of the platforms on the bus is arbitrary. Before `attach()` its index is the
constructor's -1. `stamp` starts with the time the driver's constructor took,
although it belongs to no packet. `MeasurementBoard` is implemented with
`stamp` as the board: fetching changes nothing, `UpdateStamp` publishes, and
`CopyMeasurement` reads. The devices are not used after the
platforms driver was destroyed (the robot interface detaches them first).

### AtiNetFt

A response is represented by the number of requests that had been sent when the
sensor sampled, so "its own answer" and "how old" can be said without looking
into it. `Send` to `Receive` is one critical section of `read()`: it waits in
`recv()` holding the mutex. `open()` and `close()` are a call and the section
they enter when the mutex is free; a new `open()` replaces the socket and drops
what was on its way to the old one. Every `exit()` of the code is a step. The
network may lose and duplicate `MaxFaults` datagrams each and reorder once.

### MultitorqueMessages, MultitorqueCodec

The generated functions repeat one pattern per field: call `encode` or `decode`
of its type, return if that failed, advance by what it returned. So a message is
the sequence of its field types, and the pattern is written once (`Reached`,
`Encode`, `Decode`). Every field takes four bytes, so buffers are sequences of
32-bit words; floats and integers keep their 32 bits, a `uint8_t` fills the first
byte of its word and leaves the others as they were. Sizes are in bytes and wrap
like `size_t`: `HasRoom` is `CHECK_BUFFER_SIZE` on unsigned differences. The
room given to `encode()` is `sizeof(CharBuff)`, eight bytes more than the content.

### AmeCommands

A method of `FtSensorNew` is the request it sends, the reply it decodes, and the
identifier it checks (`getCalibrationOffsets()` checks a wrong one). `Call`
encodes and sends, `Receive` is `recv()` with everything up to the return of
the method; the one buffer is shared by request and reply, as in the code. The
board answers requests in order with the next identifier. TCP is a stream of
bytes, out of which `recv()` takes any number: `replies` holds the words on
their way, `skip` how many bytes of the first of them were already taken, and
`ReceivedContent` puts the bytes together as they lie in the buffer. Each word
on its way carries a mark, which the code does not see, whether it begins a
reply; with it `atReply` records whether a `recv()` began at a boundary. The
data of a reply is arbitrary and may look like a header. A lost connection
gives 0 or -1.
The methods are called one at a time: the device and the monitor have one
thread that calls them.

### AmeService

Datagrams are numbered; a wrench is represented by the first and the last value
copied, so a torn copy shows as two numbers. The owner's `open()` is five steps
between which the receiving thread runs on: `Open` (address, board table),
`Socket` and `Bind` (two, because `sockId` is overwritten before the port is
bound; when `setsockopt()` fails the descriptor stays open, unbound), `ConnectAll`, `BuildSensor`, `StartRecvThread`. The thread's loop is
`WorkerCheck`, `Select` or `Timeout`, `RecvFrom` (which, on a socket that a
later `open()` created and has not bound, waits for ever: "blocked"), then for each board of the
sender `Analyze`, `StoreFirst`, `StoreLast`. What is undefined in C++, a call on
a destroyed sensor or a null pointer, and `std::terminate`, is the state
"undefined", in which anything might be. All datagrams of the boards carry the
message the sensor expects, whole.

## 4. Runs

| run | instance | shows |
|---|---|---|
| `ftnode` | 2 sensors, 2 readers, 3 lines out of 4 kinds | refinement of `WrenchBoard`, fresh publication, monotone reads, paired wrenches, serial device outlives the thread, detach returns, complete wrenches are published |
| `ftshoe` | 1 client, 1 calibrating thread, 2 samples | own readings, offsets from raw readings, no good status while detached, no crash in orderly use, calibration returns |
| `udp` | 2 attachments, 2 closes, times 4 to 6, floats four apart | packets of one attachment, ordered times, none ahead of its readings but by rounding, crashes only after `detachAll()` or `close()`, publication resumes |
| `amti` | 2 devices, 2 platforms out of 3, 2 packets, times 0 to 2, timeout 1 | refinement of `MeasurementBoard` (own stamps, in order), own platform only, good means recent or not yet timed out, shut driver reports errors, packets are fetched |
| `ati` | 2 clients, 3 requests, 2 losses, 2 duplicates, 1 reordering, 2 opens | a sample is at most as many requests old as datagrams were duplicated; `read()` returns unless more were lost than duplicated |
| `ame_commands` | 5 methods, 3 calls, a board that answers 4 of their requests, `recv()` of any 1 to 52 bytes | own replies while in step and how they are judged, checked replies are whole replies of the board if `recv()` began with one, every query returns |
| `ame_service` | 2 readers, 2 datagrams, 2 opens | reads of one sample and not older than their start, one receiver, nothing undefined while open, the program's end returns, samples are published |
| `ftshoe_attach` | violation | `attachAll()` succeeds with a sensor in error |
| `udp_reopen` | violation | "Failed to open udp socket" is reported when it was opened |
| `amti_close` | violation | `close()` deadlocks with the reader thread |
| `amti_attach` | violation | `attach()` succeeds for an unknown platform |
| `ame_unreported` | violation | a query on a closed connection reports nothing and returns zeros |

**Bounds.** Each cfg names them. Three lines let one wrench be published, a
second be half received across a detachment, and a third complete it; two
readers compete with the writer for the mutex. Two samples let a calibration
average a raw and a compensated output. Two attachments allow a run that starts
in the first and ends in the second; two closes, a second loss of the socket
after a recovery or between the check and the sending. The clock goes from 4 to
6, doubled means from 8 to 12; the floats there are 8 and 12, so a mean can be
exact, rounded down and rounded up, and two packets can carry the same time or
different ones. With a timeout of 1 and
times up to 2 a stamp can be fresh, on the limit and too old; two packets tell
an old reading from a new one and both from the zeros before them, and two of
three platforms in any order give devices a first, a second and no index.

In `ati`, three requests let a duplicate of the first shift the answers of the
second and third, and two losses against two duplicates reach both sides of
`lost > duplicated`. In `ame_commands` three calls are an unanswered, an
answered and a joined one in every order; the five methods are two queries
that check the right identifier, the one that checks a wrong one, a command
whose answer nobody awaits and one that gets none. The second value of each
reply is a header of a reply to `getBoardInfo()`, so the rest of a cut reply
can pass for one. 13 words hold the longest message, and with a modulus of
4096 sizes wrap. In `ame_service` two
datagrams show an old and a new sample and a torn copy between them, two
readers overlap, and two opens reach the second `bind()`, after which the
process ends.

Deadlock checking is on except in the `amti` runs, where the bounded clock and
the driver's own deadlock stop the system, and in `ati`, where a lost response
leaves `read()` in `recv()` for ever and everyone else at the mutex.

**Fairness.** Weak fairness says that a thread which can run does, and that a
serial receive, a sensor's `read()` and a copy loop end (the serial device has a
timeout). Strong fairness is used only for taking a mutex that others release
again and again: clients and threads are periodic and hold it for a bounded
time. No fairness is assumed of owners and clients: they may stop calling.
In `ati` the sensor answers what reaches it, and who waits for the mutex gets it
if it is free again and again; losses are never forced nor excluded. In
`ame_commands` the board handles requests and `recv()` returns when it can. In
`ame_service` the calls in `open()` and `exit()`, the receiving thread and the
second half of a copy under `sensor_mutex` go on; only the thread's lock, which
readers take again and again, needs strong fairness.
Liveness is stated up to the end of the process where the code can end it.

## 5. Proofs

All theorems hold for every number of sensors, readers, clients, platforms,
lines, samples and times; the assumptions on the constants are the named
`ASSUME`s of the modules.

* `FtNodeProofs`. `IInv` adds to type correctness that the flags tell which
  buffers are filled, that the mutex is held by exactly the thread whose
  program counter is in a critical section, that a sensor being written was
  complete, that a reader's copy equals the board where it has copied, and that
  buffers are newer than the board. The properties alone are not inductive:
  without `LockHeld` the board could change under a copy, without
  `BuffersNewer` an old buffer could be published. From `IInv` follow the
  refinement (each step maps to one step of `WrenchBoard` or a stutter),
  freshness, and with `ResultsOlder` and `PairsKept` the two properties of reads.
  `EveryRunPublishesAll`: outside of the publication loop no wrench is complete
  and unpublished. `HoldIsBounded` and `DetachIsBounded` measure the steps until
  the mutex is free and until the thread that was told to stop ends: each of the
  holder's or the thread's own steps lowers the measure, no other step raises it.
* `FtShoeProofs`. The invariant says who holds the mutex and that the buffers
  belong to the holder from the step that filled them, that an orderly attached
  shoe has its pointers set, and that a detached one has error statuses. For the
  offsets, the theorem `SeparateCalibrationsAreSound` has any number of calibrating threads whose
  calibrations do not overlap (`OneAtATime`, a hypothesis on the behaviour): the
  samples of one stay raw because only its own end sets `calibrated`.
  `RecalibrationIsSound` is its case of a single calibrating thread
  (`OneCalibrator`), which never overlaps with itself. When two overlap the
  property fails: the one that ends first makes the other average compensated
  readings. `CalibrationIsBounded` and `MutexIsReleased`: a calibration takes at
  most 5 * `MaxSamples` + 6 steps of its own, and never waits for itself.
* `FtShoeUdpWrapperProofs`. Three invariants. `AttachmentInv`: set pointers of
  one shoe are from the same attachment, the second shoe is never attached
  without the first, and what a run has dereferenced is still in place while it
  holds the mutex; so a packet has data of one attachment. `LifeInv`: a running
  thread was started with all pointers set, and only `detachAll()` and
  `close()` take anything away. `TimeInv`: stamps never exceed the clock, a
  stamp is taken before its shoe is read, the initial time does not exceed the
  next mean, and the last packet's times do not exceed what the next ones are
  rounded to. Since rounding keeps the order (`FloatAssumption`), both times of
  the packets only grow (`PacketsInOrder`), though a float may be repeated. That
  a packet is not newer than its readings (`PacketsAreNotNewer`) holds of the
  exact stamps and of the rounded times of stamps and readings, not of a
  rounded time against an exact one.
  `SocketIsThere`: `run()` never finds its socket pointer null.
  `ResumptionIsBounded`: after a run that gave up, the next packet is at most 14
  steps of `run()` away for each `close()` that may come in between, and 14 more.
* `AmtiPlatformsProofs`. `Exclusive`: the reader during a run, the owner during
  `close()` and the device that copies exclude each other. From it, whoever
  copies finds readings and stamp of the same packet (`Stamped`), a good status
  is the verdict of the last check (`StatusIsChecked`), and no run begins after
  `close()` set the error (`ClosedIsError`). `IndexIsOwn` rests on the lemma
  `UnsignedIndex`: the -1 of an unknown platform is out of range as long as an
  unsigned holds the number of platforms. The theorem `Refinement` maps each step
  to one of `MeasurementBoard` or a stutter; it needs, besides these,
  `EachPacketOnce` (what is in the buffer is newer than what was fetched, and
  that newer than the stamp) and `StrangersReadNothing` (an index out of range
  means no platform, so the zeros of a refused read undo nothing).
  `MeasurementsInOrder` adds that no device goes back in time. `GoodIsRecent`
  has two cases: a measurement that came with a packet was checked against its
  own stamp; the zeros from before the first packet pass the check too, because
  the constructor took a stamp, but no longer than the timeout. `RunIsBounded`
  bounds a run by what arrives during it. `CloseIsDecided` tells what the run
  `amti_close` only exhibits: whether `close()` hangs is decided the moment it
  takes `m_mutex`, by whether the reader already waits for it.

* `AtiNetFtProofs`. A read that gets its response owes its age to what is still
  on its way. `Aged` bounds how old a response may be by the datagrams behind it,
  `Conservation` counts those: requests, responses and losses are as many as
  duplicates, plus one while somebody waits. `LastAsked` says that who waits has
  sent the last request, which the mutex guarantees. Together they give `Lag`,
  of which `LagIsDuplicates` is the part about reads that returned. From
  `Conservation` also follows `WaitIsAnswered`: a read that waits has a request
  or a response under way unless more was lost than duplicated. `StarvedForGood`
  is the other side: when nothing is under way the waiting read keeps the mutex
  for ever, since `recv()` has no timeout. `InOrder`: unless the network
  reordered, the responses under way are in the order of their samples, and none
  is older than what any read returned. So `SamplesInOrder`: losses and
  duplicates alone never make a `read()` go back behind an earlier one.
* `MultitorqueCodecProofs`. `RoomInside` and `AllReached` reduce the chain of
  checks to the one of the last field: since every earlier field is checked
  first, no difference wraps before a check fails. From it follow
  `EncodeStaysInside` (given room for a header), `ShortMessageIsRefused` and,
  with arithmetic on the packed header, `HeaderRestored` and `DecodeRestores`,
  for every message and old content of the buffer. `MessagesFit` and
  `DecodeStaysInside` justify the sizes the callers pass, which are too large;
  `SentIsReceived` joins both ends of a connection. `HeaderTellsTheMessage`:
  `decode()` accepts any message that is long enough, and the identifier it
  leaves is the sender's, so comparing it suffices. `ShortDatagramIsCompleted`
  says what the handler makes of a datagram that is cut: old values behind new.
* `AmeCommandsProofs`. `WholeReplies`: behind every header on its way are all
  words of one reply. A header is known by where the board put it, not by its
  value; the data is any number. That bytes put together again give the word
  they were is `WordRestored`, and `ReceivedWord` says which words of the buffer
  are words of the stream. So a `recv()` that begins where a reply begins and
  brings a message that `decode()` completes has brought that reply
  (`CheckedReplyCorrect`). The hypothesis is needed: without it TLC finds, in
  six states, `getBoardInfo()` taking the rest of a reply to
  `getCalibrationOffsets()`, cut by an earlier `recv()`, for its own.
  `RequestInBuffer`: a `recv()` that fails leaves the sensor's own request,
  whose identifier is not the expected one. `OneReplyPending`: while in step the
  stream holds at most the whole reply to the current call, so `DecodeRestores`
  gives `OwnReply`; that the reply is then judged by the identifier the method
  compares with is `VerdictIsRight`. `OneMethodMisjudges` follows for the
  methods of the source: a reply in step is refused by `getCalibrationOffsets()`
  and by no other. `QueryIsAnswered`: a method that awaits a reply has bytes to
  receive, or the board still has the request of this call, as long as the
  connection lasts.
* `AmeServiceProofs`. `Opening`: the port, once bound, stays bound, so only the
  first `open()` gets past `Bind`; therefore one handler is installed
  (`OneHandler`), and while the device is open its sensor is alive
  (`SensorAlive`). `Receiving`: what the thread found, a datagram or a board, is
  still there when it uses it. `Delivering`: the numbers in the receive buffer,
  the static message and the sample are in the order of arrival (`InOrder`), the
  sample is written and copied by the holder of `sensor_mutex` only (`Locking`),
  and a read that is alone finds in the shared readings what it put there
  (`OneReader`). The properties of reads follow from `Fresh`, `Genuine` and
  `OneSample`. `NeverBlocked`: with one board the socket is replaced only when
  there is no thread, so `recvfrom()` always has a bound one; `StopIsBounded`: a
  thread told to stop ends within sixteen steps (the last wait, then at most
  three for each of the four entries of the board table).

Four of these theorems speak of the code's flaws rather than its merits:
`CloseIsDecided`, `StarvedForGood`, `ShortDatagramIsCompleted` and
`OneMethodMisjudges`. They say exactly when the hang, the mixture or the wrong
verdict happens, for every value of the constants.

**Only model-checked:** the liveness properties (`DetachReturns`,
`CompleteWrenchPublished`, `CalibrationReturns`, `PublicationResumes`,
`PacketsAreFetched`, `ReadReturns`, `QueryReturns`, `ExitReturns`,
`SamplePublished`), which are beyond the prover. The safety they rest on is
proved: steps that are bounded (`DetachIsBounded`, `CalibrationIsBounded`,
`ResumptionIsBounded`, `RunIsBounded`, `StopIsBounded`), a mutex that is given
back (`HoldIsBounded`, `MutexIsReleased`), an answer that is under way
(`WaitIsAnswered`, `QueryIsAnswered`), no one blocked (`NeverBlocked`). What TLC
adds is fairness: that the steps which can be taken are. Every safety property
of the passing runs has a theorem.

**Not modelled:** `optoforce`, whose `read()` is one critical section around one
call of the vendor's library, so that nothing of its own can interleave or
outlive a step; the AME monitor's menu, which calls one method of `AmeCommands`
after the other; the example device; parsing of configuration and calibration
files; the arithmetic on wrenches; datagrams that are shorter than their
message; the vendor libraries. In the AME service the timeout handlers and the
sending of UDP datagrams are left out: no program of the repository uses them.

## 6. Where the code and its comments disagree

The five violation runs, with the lines, are `PROJECT.json`, "findings". Other
observations are in "hazards": concurrent calibrations of one shoe, the ATI
device that opens without its calibration file, and the identifier that
`getCalibrationOffsets()` compares its reply with (`OneMethodMisjudges`).

The UDP wrapper sends times in seconds since 1970 as floats. They lie 128 s
apart, so most packets of two minutes carry the same time, and it may be up to
64 s ahead of the readings; the relative time is narrowed after the
subtraction and loses little.

An AME `recv()` that begins inside of a reply can take the rest of it for a
header. The methods compare the identifier and nothing else, so nothing in the
code excludes that the rest of one reply is accepted as another.

The AME device cannot be opened twice in a process: the manager is static and
never closes its socket before the program ends, so the second `bind()` fails
and `connectSensor()` exits. `OneReceiver` and `DefinedWhileOpen` say what this
protects: were `bind()` to succeed or its failure to be returned, the second
start of the thread would terminate the process, or two handlers would be
installed. After `close()` the receiving thread still calls the handler of the
destroyed sensor until the process ends; the model goes to "undefined" there,
and no comment in the repository promises otherwise.
