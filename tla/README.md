# A verification of readsb in TLA+

`readsb` receives Mode S messages (from an SDR, a file, or other programs over the network),
decodes them, tracks aircraft, and serves the result (raw and Beast streams, JSON and
binCraft files, an HTTP API, traces on disk).  It is a C program of about a dozen
cooperating threads that share most of their state through global variables, with mutexes,
atomics and "stop everybody for a moment" sections.  This directory holds TLA+ models of the
parts where that sharing is delicate, the TLC runs that check them, and proofs of the
results that matter most.

Every definition refers to the code of this repository; `PROJECT.json` maps each one to its
lines.

## 1. Inventory

| Component | Files | State | Operations | What is hard |
|---|---|---|---|---|
| thread pool | `threadpool.c` | `task_count`, `pending_count`, `tasks` (atomics), `terminate`, two mutex/condvar pairs, per-thread buffers | create, run, reset_buffers, destroy; worker loop | lock-free claiming, order of the three stores, lost wakeups, weak CAS |
| sample FIFO | `sdr_rtlsdr.c`, `sdr_soapy.c`, `sdr_hackrf.c`, `sdr_plutosdr.c`, `sdr_ifile.c`, the loop of `decodeEntryPoint` in `readsb.c` | `mag_buffers[12]`, `first_free_buffer`, `first_filled_buffer`, reader mutex | USB callback, file reader, decode loop, watchdog | buffer contents are accessed outside the mutex; dropping with hysteresis; continuity and time across gaps |
| decode threads | `net_io.c` (`decodeTask`, `handleEpoll`, `modesReadFromClient`, `processClient`, `drainMessageBuffer`) | message buffers, `activeClient`, per-client buffer positions, `decodeLock`/`trackLock`/`outputLock` | epoll events, reads, parsing, tracking, output | locks are given up in the middle of a client; another task takes the client over |
| threads and exit | `readsb.c`, `util.c`, `sdr.c` | one `threadT` (mutex, condvar) per thread, `exit`, `exitSoon` | create, timed wait, signal and join; `priorityTasksRun` stops six threads | lock order; threads that give up their own mutex while they wait; join with a timeout |
| aircraft list | `globe_index.c`, `track.c`, `aircraft.c` | hash table of aircraft, `aircraftActive`, one `craftArray` per globe tile | add, remove, scan with reader count, `trackRemoveStale` | readers without a mutex, removal by moving the last element, reallocation |
| API buffers | `api.c` | two `apiBuffer`s, `apiFlip`, per-thread listings | `apiUpdate`, request handling | double buffering against slow readers; a count read before the lock |
| API connections | `api.c` | stacks of free connections, `epoll` registrations, `responseBytesBuffered` | accept, read, send, time out, close, shut down | partial writes, stale epoll events, accounting of buffered bytes |
| ICAO filter | `icao_filter.c` | two open-addressing tables, `occupied`, `active` | add, test, expire, grow | expiry by swapping tables, growth in the middle of a period |
| network services | `net_io.c`, `anet.c` | services, clients, connectors, writers | accept, connect with back-off, flush, close | reconnection after close, slow clients, heartbeat |
| network formats | `net_io.c` (`read*`, `decode*`, `modesSend*`, `outputMessage`, `ping*`) | per client: receiver id, garbage counter, ping; per writer: last receiver id | writers and readers of Beast, raw, SBS, ASTERIX, Planefinder and command streams; forwarding; pings | streams cut anywhere; doubled escapes; what a format has no word for; marks over several instances |
| tracking | `track.c` | per-field source and validity, reliability counters | `trackUpdateFromMessage`, expiry | precedence of sources, staleness |
| trace writing | `readsb.c`, `globe_index.c` | per-aircraft trace buffers, `writeTraces` task state | periodic sweep in a pool with time limits | a sweep must visit every aircraft although tasks stop and resume |
| state saving | `globe_index.c`, `aircraft.c` | state blobs, `replace_state` | save, load | the program is restarted in between |
| statistics | `stats.c` | current and aggregated statistics | add, reset, windows | windows of 1, 5 and 15 minutes |
| receiver table | `receiver.c` | hash table | create, get, time out | bounded chains |
| Mode S, Comm-B, CRC, Mode A/C, CPR | `mode_s.c`, `comm_b.c`, `crc.c`, `mode_ac.c`, `cpr.c` | none (tables) | pure functions | numeric edges |
| demodulator, converters | `demod_2400.c`, `convert.c` | correlation state | signal processing | out of reach of TLC |
| JSON and terminal output | `json_out.c`, `interactive.c` | the cache of each aircraft's recent file | formatting | reads state other threads own; the cache is kept up with a trace that changes at both ends |
| other SDR drivers | `sdr_bladerf.c`, `sdr_ubladerf.c`, `sdr_beast.c` | the same ring, a serial line | vendor library calls | as the RTL-SDR driver |
| UAT converter | `uat2esnt/` | none (a CRC table) | a line of the other data link becomes up to seven squitters | bit fields packed twice; units and codes that differ between the two links |
| vendored code, tools | `minilzo/`, `compat/`, `oneoff/`, `geomag.c`, `fasthash.c` | | | not part of the program's own concurrency |

How they interact.  The reader thread fills the sample FIFO; the decode thread demodulates
its buffers, or polls network clients, and calls the tracker, which updates the aircraft and
the aircraft lists; the JSON, globe, API and upkeep threads read them.  Once a second the
upkeep thread locks the mutexes of all threads that touch aircraft (`priorityTasksRun`) and
removes what is stale.  The main thread only waits for a signal and joins the others.

What makes each component correct:

* thread pool: each task once; `threadpool_run` blocks until all are finished; no lost
  wakeup; termination.
* sample FIFO: nobody writes what is being demodulated; every sample accounted for; gaps
  flagged; timestamps exact; a wedged device ends the program.
* decode threads: every message tracked and output once; nothing left behind; one task per
  client group; no deadlock.
* threads and exit: while `priorityTasksRun` works, no other thread is in its critical part;
  no deadlock; all threads joined.
* aircraft list: what is in a list is exactly what says so of itself; no reader loses an
  element or reads freed memory.
* API: a request reads a listing nobody rewrites; every byte buffered is given back; every
  connection struct is either free or open.
* ICAO filter: an address is remembered for at least one period; probes end; only what a
  transponder announced gets in.
* reception: a message is refused, or accepted as it was sent; a clean copy wins.
* network formats: what one instance sends is what the next takes for it, whole, from the
  same receiver and with the same marks; a measured delay is the delay.
* Mode S, Comm-B, Mode A/C: the fields that come out are those that were put in.
* tracking: fresh data of a better source stay; a position that is published is where the
  aircraft was; what a rejected message did is undone.
* traces: what is recorded is a log that only loses its old end; what is recorded is shown,
  and the files of a day have all of it.
* network services: every open descriptor has one owner; what was output for a client
  reaches it whole and in order or the client is closed; the connector gets through.

## 2. Plan

Order of work, the most important behaviour first.

| # | Modules | Abstract specification | Proofs | State |
|---|---|---|---|---|
| 1 | `TaskBatch`, `ThreadPool`, `ThreadPoolProofs` | `TaskBatch`: a batch of tasks | all safety properties, refinement | done |
| 2 | `MagFifo`, `MagFifoProofs` | | `SeparateBuffers`, `StreamExact` | done |
| 3 | `DecodePool`, `DecodePoolProofs`, on what `TaskBatch` promises | | `InputExclusive`, `EveryMessageOnce` | done |
| 4 | `AircraftLists`, `AircraftListsProofs`, with the stop-the-world of `priorityTasksRun` | a set per list, `Flagged` | `ReadersSafe`, `ListsMatchFlags`, `ListsComplete` | done |
| 5 | `NetServices`, `NetServicesProofs` | a stream per client | `ReferencesValid`, `StreamComplete` | done |
| 6 | `Tracking` | | | model done |
| 7 | `IcaoFilter`, `Reception` | `AddressMemory`: the addresses of two periods | | model done |
| 8 | `TraceMemory`, `TraceFiles` | `TraceLog`: a log of positions | | model done |
| 9 | `ApiConnections`, `ApiConnectionsProofs`, `ApiBuffers`, `ApiBuffersProofs` | | `RepliesInOrder`, `NothingLeaks`, `FreshRequestsReadStableBuffer` | done |
| 10 | `Framing`, `SbsFormat`, `Asterix`, `HexFormat`, `CommB`, `ModeSFields`, `UatFields`, `Forwarding`, `Pings`, `TracePoint`, `TraceCache`, composed by `Relay`; `RelayProofs` | what was sent | `MarksSurvive`, `DelayMeasured` | done |

## 3. The modules

Control points (`pc`, `phase`, ...) are where a thread can be between two steps that others
can observe.  Operators marked `Fault:` are variants of an operator with one mistake in it.
No specification uses them: with one of them in place of the original, some property of the
module's run is violated, which shows what the property depends on. Bounds are CONSTANTS
with `bound` in their comment.

### ThreadPool, TaskBatch

`threadpool.c`.  `RunPending`, `RunTasks` and `RunCount` are the three stores of
`threadpool_run` in order, `RunWake` to `RunRelock` its broadcast and its wait on
`master_cond`.  The worker's loop is `Load`, `Claim` (the compare-exchange, `ClaimFail` when
it fails, which a weak one may do for no reason), `Fetch` of the task, `Finish`, `Notify` by
the last one, and `Lock` to `Awake` for a worker that finds nothing to do. `Destroy*` is
`threadpool_destroy`; the user calls `ResetBuffers` between two runs. Every atomic access is
a step.  `wpc` and `mpc` are the control points, `expected`, `task` and `array` the worker's
locals.  Both condition variables may wake up spuriously.

`TaskBatch` says what a caller sees: submitted, started, finished, returned.  The other
users of pools (`DecodePool`, later trace writing) rely on no more than that: their tasks
run in any order and interleaving, and the caller goes on when all are done.

### MagFifo

`sdr_rtlsdr.c` (the USB callback: `Usb*`), `sdr_ifile.c` (`File*`), and the decode loop of
`readsb.c` (`Decode*`).  `Driver` is what the callbacks of SoapySDR, HackRF and PlutoSDR do
differently: one of these drivers is chosen in the initial state.  An index moves under
`Threads.reader.mutex`, while contents are read and written outside it: filling,
demodulating and resetting are therefore steps of their own.  A buffer holds the number of
the block its samples come from, the block its overlap comes from, its length, its dropped
count and its timestamp, all in units of samples.  `wakeDecode` signals without the decode
mutex, so the signal may reach nobody; the wait ends anyhow after its time limit.  The
watchdog counts the turns of the decode loop without data.

The device may deliver a block of any size in `BlockLengths`, among them one larger than a
buffer, and may stop for ever; the user may ask for exit at any time.

### DecodePool

`modesNetPeriodicWork` with `--decode-threads 2`: `decodeTask`, `handleEpoll`,
`modesReadFromClient`, `processClient`, `drainMessageBuffer`, and `netDrainMessageBuffers`
as the demodulator calls it.  `decodeLock`, `trackLock` and `outputLock` are their owners.
A task works on one client (`cl`), parses a message or reads a chunk per step, and in
`Track` gives up `decodeLock` in the middle of the client. `stage` tells which part of
`decodeTask` it is in: the input group, the clients other tasks left behind (through
`activeClient`), the output group.

### AircraftLists

`struct craftArray` and everything that changes one: `ca_add` (`Add`, `Grow`, `Store`,
`Length`, `Leave`), `ca_remove` (`Move`, `Clear`, `Shrink`), the decode thread that calls
them for a message (`Message`: a new aircraft, a new tile, the active flag), readers
(`ca_lock_read`, the scan, `ca_unlock_read`), the upkeep thread that locks the threads'
mutexes one after the other, removes what is stale and unlocks (`PriorityTasks` to
`UnlockThread`), and the replacement of an aircraft from a state file (`ReplaceAircraft`,
`load_aircraft`, under stopped threads).  A list is an array with room behind its length;
`Garbage` is memory `realloc` gave and nobody wrote.  While the threads are stopped the
calls of the upkeep thread are one step per aircraft.

`StoresReordered` lets the length become visible before the entry, as a compiler or a weakly
ordered processor may do with two plain stores.

### NetServices

One service of `net_io.c` with a listening socket, a writer and a connector, and the passes
of `modesNetPeriodicWork` with one decode thread: `EpollWait`, the messages the demodulator
outputs (`Output`), the events (`AcceptEvent`, `ConnectEvent`, `ClientEvent`, `SkipClosed`),
`FlushDue`/`FlushLater` (`checkFlushService`), and `serviceReconnectCallback`
(`ReconnectLater`, `Reconnect`, `DropSilent`). Descriptors are small numbers that the kernel
reuses, so that an event can meet a number that means something else by now; a `struct
client` lives in memory until `serviceFreeClients`, so an event can meet one that is closed.
Handlers are functions on a record of the tables (`World`), sets of them where a system call
may end in several ways: `send()` takes all, a part, or nothing, or fails.  Output is
counted in units of the writer's stream, and `from` is the unit a client's stream starts
with.

Times do not appear: whether a timer has run out is a choice, restricted only where the code
orders two of them (data waits in the writer for less than a heartbeat interval).

### ApiConnections

One thread of `api.c` with its kernel and clients: `Wakeup` (`epoll_wait`, whose batch is
handled event by event, so that an event may be stale when its turn comes), `accept` with
the stack of free structs, reading, the outcome of parsing (`Kinds`), replies that `send()`
takes in parts, requests delayed while too many reply bytes are held in memory, time-outs,
errors and the end of a connection.  A handler is a function on a record of the variables, a
set of such records where a system call may end in several ways.  A request is its last
chunk; a reply is counted in units.

### ApiBuffers

The two buffers of `api.c`: `StartUpdate` to `FinishUpdate` is `apiUpdate` with the unlocked
read of the number of aircraft, the fill under the read lock, the sort, the JSON, and the
stores to `apiFlip` one after the other; `BeginRequest` and `EndRequest` are a request,
which reads the buffer it found.  `ApiReq` is the answer to a request over a list: bisection
by longitude (`Bisect`, `FindLonRange`), boxes across 180 degrees, circles, names, and the
filters.  Positions are whole degrees on the sphere: the distance of `greatcircle` is
compared by its cosine (`Nearness`, from a table), and the box around a circle has the half
width of the code, the radius divided by the cosine of the latitude (`LonDiff`).  The
requests are every kind of selection with every kind of filter.  How many entries lie behind
the memory of a list (`behind`) and how many aircraft came since they were counted (`came`)
are history.

### Tracking

`trackUpdateFromMessage` for one aircraft: `Receive` is one message with everything it does,
`TrackRemoveStale` the maintenance once a second.  A message is a record; the handler works
on `s`, the aircraft with the message, from `Version` to `Position`, then `Restored` and
`Blamed`.  Positions are points of one meridian in units of 100 m, and the compact position
reports of `cpr.c` are computed for them in integer arithmetic with the program's 59 and 60
zones, so that a pair of halves that do not belong together decodes to a place in another
zone, as it does in the program.  Times are the program's milliseconds, and so are the
thresholds.  The aircraft moves at the constant speed of its environment, and a message may
carry that ground speed, in knots: from it the program takes how far apart the halves of a
pair may be (`CprMaxElapsed`: 10 s if the speed is not known, otherwise what 19 s are at 500
knots, at most 30 s; on the ground 25 s, or 50 s up to 25 knots), how far the aircraft may
have come (`Knots`, `Reach`), and whether an uncertain ground state ends one on the ground
(`AirGround`).  All other fields of a message (heading, air speeds, rates, callsign, ...) are
accepted by the same rule and are one `datum`.

### IcaoFilter, AddressMemory, Reception

`Reception` takes a message from the bits to the decision.  A message is the set of its one
bits, an address or a remainder the set of its exponents, so that the parity of `crc.c` is
computed bit for bit with the program's own polynomial, and so are its tables of correctable
errors.  `FromRadio` slices a message at several phases into the two buffers of
`demod_2400.c` and decodes the best (`score_phase`, `scoreModesMessage`); `FromNetwork`
decodes it as it comes.  `IcaoFilter` is the pair of hash tables with any hash function;
`AddressMemory` is what it promises.

### TraceMemory, TraceLog

The trace of one aircraft: positions are added to a buffer (`AddPosition`, with the buffered
position behind the last one; `AddBuffered` and `AddAgain` if that one is used first),
compressed into chunks, pruned and cut (`Maintain`, `Delete`) by whole tuples of four, saved
while the decode thread goes on, and loaded again (`Restart`).  `save_blob` copies `struct
aircraft` without a lock: `CopyField` copies one of the five fields that matter, in the order
in which they lie in the struct and each as it is by then, so that the pointer to the buffer,
the two lengths, the time and the flag may be of different moments; `SaveFile` then takes the
positions from the buffer the decode thread uses, and a copy whose pointer is still NULL ends
the process (`SaveFault`).  `SaveError` and `SaveTruncated` are its failures.  `TraceLog` is a
log of positions, of which only the old end is forgotten.

### TraceFiles

The marks (`trace_write`) and counters of an aircraft, which the decode thread and the tasks
of the upkeep thread both write without a lock: `Decode` is the bookkeeping of a position,
step by step; `TaskStep` is a sweep's task that stops at its time limit and is resumed; the
recent, full and permanent files are intervals of positions.  The day change, the hour in
which yesterday stays open, and a restart are in the model.

### Framing, SbsFormat, Asterix, HexFormat, CommB, ModeSFields, UatFields, Forwarding, Pings, TracePoint, TraceCache, Relay

One readsb sends to another.  `Framing` is a connection: `Send` writes an item of a format,
`SendqDiscarded` and `ReadDiscarded` are the two places where a stream gets a gap, `Recv` is
a read that ends anywhere, and `Process` is one iteration of the loop of `readBeast`,
`readAscii`, `readBeastcommand`, `readAsterix` or `readPlanefinder` with its handler.  The
values the framing tells apart are strings, every other byte is data.  `SbsFormat`
(`modesSendSBSOutput`, `decodeSbsLine`), `Asterix` (`modesSendAsterixOutput`,
`decodeAsterixMessage`) and `HexFormat` (`decodeHexMessage`) are the two directions of a
format, as functions; `CommB` is `decodeCommB` with the score and the values of each
register's decoder; `ModeSFields` has the fields of replies, squitters and Mode A/C
(`mode_s.c`, `mode_ac.c`).  `UatFields` has a downlink frame of the other data link from its
line (`decodeUatMessage`, `uat_decode.c`) to the squitters it is converted to (`uat2esnt.c`),
with positions, speeds and check sums computed, and what is read from those.  `Forwarding` is `outputMessage` and what the next instance takes
a message for, `Pings` the measurement of a delay.

Two modules are about what is written of an aircraft's trace.  `TracePoint` packs what is
known of an aircraft into the records of a point (`to_state`, `to_state_all`) and writes it
(`sprintTracePoint`, `sprintAircraftObject`), each member with its width, its steps and its
rounding.  `TraceCache` is the cache of texts from which the recent file is made
(`checkTraceCache`, `generateTraceJson`); `After` is what can happen to the aircraft: another
position, a pause, maintenance, a trace that loses its old end or is replaced, a file.

`Relay` composes them.  Its first half is `Framing`; in its second half a message is
converted: `Choose` takes one with its environment, `AddField` builds messages field by
field, `Hop` hands one on to another instance, configured in any of the ways of `Nodes`.  For the recent file the "message" is the aircraft
itself, and `Continue` takes it one step on.

## 4. The runs

All runs pass, each in a few minutes; the number of distinct states is that of the
complete search.

| Run | Instance | Distinct states | Shows |
|---|---|---|---|
| `ThreadPool` | two workers, at most two tasks, two runs | 19 340 | each task once, the call blocks until all finished, right array, buffers stay, no lost wakeup; `TaskBatch` is implemented; run and destroy return |
| `MagFifoRing` | ring of 4, up to 5 blocks of 2 or 3 samples, every driver | 314 313 | nobody writes the buffer being demodulated; all samples accounted for, at the right time (`SamplesCounted`); order, gaps, overlap (`StreamExact`); the end of a file, of a pause and of a dead device (`RingServed`) |
| `DecodePoolShared` | two tasks, one input client, 4 messages, buffers of 2 | 409 534 | each message tracked and output once though two tasks take turns, nothing left behind; one task in the input group; no deadlock among the tasks |
| `AircraftListsActive` | two aircraft that fly in `Flights`, a reader of `aircraftActive` | 99 074 | lists and flags agree; a reader holds no freed aircraft, misses none that stays, and its array is not reallocated; stopping all threads returns |
| `NetServicesBeast` | six services, up to two peers and a connector with two addresses | 92 524 | every descriptor has one owner, events and pointers are valid; streams are complete; the connector gets through; output is delivered |
| `ApiServe` | two clients, two connection structs, six mixes of requests | 66 702 | no struct and no byte of a reply is lost; replies whole and in order; requests answered |
| `ApiBuffers` | five aircraft, two threads, requests of every kind | 891 332 | a request that ends within the 5 ms of grace reads a buffer nobody rewrites; lists are exactly what was asked for, and of a circle what its box holds (`CirclesComplete` below) |
| `Tracking` | twelve environments, 4 messages and the pauses between them | 219 090 | positions are true, bad messages leave no trace, no unearned jump, better sources stay |
| `Reception` | five receivers, up to four flipped bits in every combination of chosen places | 7 524 | nothing is invented: the filter only has what was announced, and what is accepted was sent; the filter implements `AddressMemory`; a clean phase wins |
| `TraceMemory` | up to 10 time units, tuples of 2, chunks of 6 | 366 833 | the trace is a log with every point accounted for (`TraceConsistent`), through compression, pruning, deletion, a save beside the decoder, a crash |
| `TraceFiles` | two aircraft, up to 6 positions, a midnight, a restart | 574 351 | files have no hole and days are complete (`FilesComplete`); every position is shown in the end |
| `Relay` | feeds of five formats, up to 3 items and a gap; messages of twelve kinds with two added fields; six configurations, four hops; a clock of 64; a recent file of 4 points over 12 time units | 566 301 | every message arrives once, from its receiver, but those a gap is in; what a format has a word for comes back, a UAT frame too; a point of a trace shows what was known and a recent file its points; marks survive; delays are right |

Why the bounds are enough.

* *ThreadPool*: a lost wakeup, a stale `tasks` pointer or a late broadcast takes one worker
  that is late by a run, so two runs and two workers show it; two tasks let one worker take
  both.  What holds for more is proved, not extrapolated.
* *MagFifo*: the ring's cases are empty, one apart, half full (the end of dropping), one
  short of full, full; four buffers make half and one different.  Five blocks fill the ring
  once and go round it.  A block is whole samples: the odd byte at the end of an RTL-SDR
  block is left out.  The watchdog's 200 and 100 turns are 3 and 2: what counts is that the
  second is smaller than the first.
* *DecodePool*: three or four messages against a buffer of two make a task drain in the
  middle of a client, and reads of two make it come back for more.
* *AircraftLists*: two aircraft are what it takes for `ca_remove` to move one into the gap
  of the other; `AllocStep` 1 makes the second addition reallocate.
* *NetServices*: two peers and three memory places let a descriptor and a `struct client` be
  used again while an event of the former user is waiting; two addresses, the second of
  which answers, make the connector go through its list.  A service is one of six
  configurations, so that peers, connector, heartbeats and output are combined in pairs and
  not all at once.  Memory for clients is bounded (`Slots`): a peer connects only while one
  place would be left (`Spare`), and closed clients are freed when it is scarce.
  `config.units` bounds the output, `SendqMax` is one unit short of two writer buffers.

* *ApiConnections*: two clients with one or two structs let a struct be used again while a
  stale event is in the batch; replies of two units are sent in parts.
* *ApiBuffers*: an interval of 4 ticks with 2 of grace makes an update start late, on time
  and skip one; entries with equal longitudes, at 180 degrees and without a position are
  what the bisection has to tell apart.  `Late` = 1 aircraft may come between the count and
  the lock, which is one more than a list without slack has room for.  Circles lie at the
  equator, at 30, 60, 67 and 84 degrees, near and across 180 degrees, small, over a pole and
  around the globe.  `AnswersExact` asks for every aircraft of a circle where the box suffices
  (`BoxSuffices`), which is where the radius times the tangent of the latitude is at most
  about 4 degrees, and for nothing but aircraft of the circle everywhere.
* *Tracking*: four messages are an outlier, its repetition, a correct message between and
  the one that decides; an aircraft that has been tracked for long is an initial state, so
  that the messages need not first build it up.  In two of the environments of honest
  receivers the window for the pair is nearly used up: `Fast` flies 200 m/s and says so, so
  that halves 24.4 s apart are paired, and `Taxi` moves at 10 m/s on the ground, with halves
  40 s apart; in both a second receiver is late, by 2.5 s and by 5 s.  A window of 28 s in the
  place of 24.4 s already makes `TruePositions` fail.
* *Reception*: the properties hold for up to four flipped bits, and six are a message of
  their own (`Codeword`); tables of two and four slots collide, fill and grow.
* *Relay*: three items are a marker, a message of its receiver and a message of another one;
  every field is shorter than the program's, but at least one byte that may be an escape
  stands at each place that matters (first, last, before a doubled one).  Two added fields
  are a pair that interacts; a conversion has no case of three.  A feed says whether its
  reads may end anywhere: the readers of ASTERIX and Planefinder, the UUID and the command
  `WO` need whole items (see below).  Four hops pass every output twice; that more change
  nothing is proved, as is every size of the clock.  UAT frames say a few
  things each: speeds on the ground at which the code's step changes, limits of altitudes,
  rates and clamped values, positions near the equator, the poles, the date line and where
  the number of zones changes.  Of an aircraft whose point is packed everything is known or
  nothing, but for one field with another value, age or source.  The recent file has 4 points
  where the program has 92, and the cache 8 entries for its 100:
  within 12 time units it is filled, compacted, started again because its reference is too
  old, freed and out of room (the texts of object 4 fit and those of object 7 do not).
* *TraceMemory*, *TraceFiles*: sizes are the least for which tuples, chunks, reserve and the
  counters of the recent file (4 positions) come apart.  One save, one restart and a silence
  meet within 7 time units, in which a trace begins, gets a chunk and a buffered position.

### Fairness, and why the code justifies it

* *ThreadPool*: every thread runs (WF); a worker that wants a mutex, a compare-exchange or a
  broadcast gets through in the end (SF): mutexes are held for a few instructions, and a
  weak compare-exchange does not fail for ever.
* *MagFifo*: both threads run, timed waits time out, a mutex that keeps being released is
  obtained (SF).  The device owes nothing: `SilentDeviceEnds` is about a device that stops.
* *DecodePool*: WF of every task and of the main thread; the work of a round is bounded by
  `network_time_limit`, so no task is overtaken for ever.
* *AircraftLists*: SF for the threads' mutexes and for the write lock that overlapping
  readers may keep; every thread comes back to its timed wait.  Messages, time and state
  files are not fair.
* *NetServices*: WF of the decode thread, of the resolver and of `connect()`; SF of
  `FlushDue` and `Reconnect`, because `nextFlush` and `next_reconnect` are a finite time
  away and the pass that finds them reached comes again and again; peers read what they get.
  `Reconnects` is about a remote that can be reached from some moment on, which is what the
  variable `up` says; before that moment anything may fail.
* *ApiConnections*: WF of the thread; a client that does not hang up reads what it is sent
  (`Drain`), and need not send anything.
* *TraceFiles*: WF of the decode thread's bookkeeping, of the upkeep thread and of each
  task.  The clock ticks only after a sweep, and a task writes at least `Alloted` traces
  before its time is up: with neither, nothing could be promised.

### Where the code does not do what it says

The following are stated as properties of the modules; TLC refutes them with the constants
given here.  They are not among the runs above.

* `MagFifo!LostSamplesExact` (`readsb.c:886`; `Sources = {"rtlsdr"}`, `N = 3`, `Full = 2`,
  `Trailing = 1`, `BlockLengths = {2}`, `MaxBlocks = 6`): `samples_lost` is computed from a
  buffer after it was handed back to the reader, which may have reset its length.
* `DecodePool!OutputExclusive` (`net_io.c:5378`; one input and one output client, `Sdr =
  FALSE`, `Alloc = 2`, `MaxSent = 3`, `MaxRead = 2`, `MaxRounds = 1`): two tasks in
  `processClient` for one client of the output group, although "each group can only be
  processed by one thread at a time" (`net_io.c:5293`).
* `DecodePool!PoolRunReturns` (`net_io.c:6008`; `Sdr = TRUE`, `MaxSent = 2`): an SDR with
  two decode threads leaves `decodeLock` locked (`net_io.c:5943`, `5971`), and the decode
  pool never returns; the help offers two decode threads without a restriction.
* `AircraftLists!ScanComplete` (`globe_index.c:1563`; `ScannedList <- ScanTile` and a
  `Flights` in which two aircraft with positions are in one tile): a reader of a tile misses
  an aircraft that is there all the time, as the decode thread moves it into a gap the
  reader has passed.  The comment at `readsb.c:385-388` says that at worst a new aircraft is
  skipped.
* `NetServices!FdsOwned` (`net_io.c:1143`; `Configs <- Crowd`, `max_fds_net = 0`): above the
  limit of clients the descriptor of the listening socket, or of the last client, is closed
  instead of the new one.
* `NetServices!NeverCrashes` (`net_io.c:500`; `Configs <- Greeting`, `SendsUUID = TRUE`): a
  failed `send()` of the UUID closes the client, whose `service` is then dereferenced.
* `TraceMemory!WholeTuplesOnly` (`globe_index.c:3732`; the constants of `TraceMemory.cfg`):
  `traceDelete` also deletes a tuple that has nothing of the interval, although the comment
  at line 3725 promises to delete a tuple "if stuff we want to delete is contained".
* `TraceMemory!NeverFromNull` (`globe_index.c:2892`; the constants of `TraceMemory.cfg`): the
  first positions of an aircraft, recorded after `trace_current` was copied and before the
  lengths and the flag are, leave a copy with a length and without a buffer, although
  `save_blob` means to "work on local copy of aircraft" (`globe_index.c:2748`).
* `TraceMemory!LengthsAgree` (`track.h:344`; the constants of `TraceMemory.cfg`): a position
  recorded between the copies of the two lengths makes `trace_len`, the "total number of
  points in the trace", one larger than the points saved, and so it stays after a restart.
* `ApiBuffers!CirclesComplete` (`api.c:345`; the constants of `ApiBuffers.cfg`): away from the
  equator the sides of a circle lie nearer to the pole than its center, beyond a box of the
  radius divided by the cosine of the latitude, and "make the box we check a little bigger"
  (`api.c:344`), by 0.2 %, is not enough: aircraft at the sides are not listed.
* `ApiBuffers!ListFits` (`api.c:870`; the constants of `ApiBuffers.cfg`): the list only grows
  if its memory is smaller than the count, so that it may have room for exactly that many; an
  aircraft that comes between the count and the lock is then stored behind it.
* `TraceFiles!LoadedShown` (`globe_index.c:585`; `Mixes <- MCSavedLongAgo`): after a restart
  with a state saved more than an hour ago the first sweep writes nothing, as
  `trace_writeCounter` is 0, yet sets `initialTraceWriteDone` (`readsb.c:956`), although
  `readsb.c:1043` reports "Wrote live traces for aircraft active within the last 24 hours".

Other observations, not part of a run.

Sample FIFO, decode threads, aircraft lists, network:

* A block larger than a buffer is cut at its start without advancing the sample counter
  (`sdr_rtlsdr.c:335-340`), so `TimestampExact` (a part of `SamplesCounted`) states the time
  up to the first such block. librtlsdr delivers blocks of the size asked for.
* With two decode threads the messages of one aircraft from two clients, or of one client in
  two buffers, may be tracked in either order; nothing promises an order.
* A thread may unlock a `write_mutex` of a list that another one locked (the last reader
  unlocks what the first one locked), which POSIX leaves undefined for default mutexes.
* With the stores of `ca_add` reordered (`LengthEarly`) a reader may load an entry nobody
  wrote; readers test for NULL only.  `ListsMatchFlags` and the absence of deadlock do not
  depend on the order.
* Discarding a full send queue in a client's first ten seconds (`net_io.c:1558`) may cut a
  message in the middle and leaves `EPOLLOUT` armed until the next flush of data.
* `createSocketClient` resets `lastReceiverId` for the new client, but messages already in
  the writer's buffer, which it gets too, come without the id of their receiver.
* Data left in the writer when the last client closes is sent to the next one.

API:

* A second request that arrives in the same `recv` as the first is thrown away.
* The limit on wakeups ends a long keep-alive connection with 500, even in the middle of a
  reply; a client that hangs up while its request is delayed makes the thread spin.

Network formats:

* `readBeast`: a receiver id behind the time of a dump is not recognised; a broken escape
  inside an id makes the reader pass over the escape of the next message; `'H'` is never
  reached; `lastReceiverId` is updated before the data is queued, which may be discarded.
  After a gap `readBeastcommand` may lose more than one command.
* The readers of ASTERIX and Planefinder, `read_uuid` and the command `WO` take for granted
  that an item arrives in one read.
* SBS: the test of the 20th field reads `t[21]` (`net_io.c:3122`); a special position
  identification of "-1" is read as set; squawk 0000, speed 0 and a coordinate of 0 are
  taken for absent; a GNSS altitude ("...H") is read as barometric.  Lines that come in as
  MLAT go to the output for all sources too, although `help.h:77` says that needs
  `--forward-mlat-sbs`.
* ASTERIX: the subfields of meteorological data are not skipped; for the categories D1 to
  D7, C2 and B5 no byte is written; the second octet of the quality indicators takes the
  place of an empty first one; VNAV is read as ALT HOLD; the kinds of SIL are mixed up; Mach
  number wins over airspeed; an alert hides the special position identification; the
  high-precision time adds milliseconds where seconds are meant; a longitude of 180 comes
  back as -180; a category of 0 is read where none was sent.
* `beast_set_noforward_timestamp` overwrites the timestamp that tells a result of
  multilateration; the garbage output does not look for the mark.
* The condition at `net_io.c:3939` is reversed: the delay of a message is calculated only if
  the pong is more than 100 ms in the future (`Pings!Recalculated` states the comment).
* `decodeUatMessage` returns at the first message it ignores.
* UAT: the converter writes 0 as the source of a barometric vertical rate (`uat2esnt.c:446`),
  and `mode_s.c:956` reads 1 as barometric, so that the two are exchanged.  Altitudes above
  50 175 ft come back as that; a position on the ground is sent even if there is none, as
  that of 0/0; a speed on the ground is read up to 1.5 steps low; a code format of 1 carries
  the IMF bit where its reader expects NIC-B; a line without a signal level counts as one of
  full level.

Content of messages:

* Comm-B: a report with an FMS altitude alone is taken for weather (BDS 4,4 scores 19); a
  heading report whose two vertical rates differ by more than 2000 ft/min for a track
  report; weather without wind for BDS 1,0, 2,0 or 3,0; the capabilities of an aircraft
  without extended squitter for weather.  `decodeBDS50` compares with the wrong validity
  bit, `decodeBDS44` has `180/256` in integers, which is 0, and refuses a valid pressure;
  `decodeBDS60` ignores the sign of a rate that is marked invalid.
* Squitters: TIS-B and ADS-R identification, test and status messages have no IMF bit and
  count as those of an ICAO address; a position of type 15 at altitude 0 whose coordinate
  bits are low counts as none; the altitude of a DF17 with capability 4 is not read.

Reception and tracking:

* A squitter whose corrected address is unknown scores 700 and may shadow a phase that can
  be decoded, although it is then refused itself.
* A DF11 with an interrogator code from an unknown address is refused from the radio (-1)
  and accepted from the network.
* The comment near `mode_s.c:777` calls itself the only place that adds addresses;
  `readsb.c:310` is another.  The filter forgets the period before when it grows
  (`icao_filter.c:86`).  `prepareErrorTable` reads one entry past the last.
* A refused message that was corrected is forwarded as corrected, without a mark.
* The windows for a pair hold for prompt receivers: with a known speed of 200 m/s and a
  receiver that is 5 s late (`Fast` with `late = 5000`), and on the ground at 70 m/s
  (`Taxi` with `speed = 7` and 136 knots: 25 s are 1.75 km, half a zone is 1.4 km), TLC finds
  `TruePositions` violated by an aircraft that is new: its first pair meets in the wrong zone,
  and no earlier position speaks against it.
* `doLocalCPR` takes the smaller radius of containment where the comment of `doGlobalCPR`
  calls the larger one worse; the 0.25 increment is never reached; `compute_nic` has no rule
  for type 16 in version 1, `compute_rc` has.
* The ring of four discarded positions lets a repeated bad position count again after four
  others within its 4 seconds.

Traces:

* `save_blob` ignores the result of `check_write`, so that a full disk replaces the old
  state by one that can not be loaded (`SaveTruncated`).
* A roll of more than 20.47 degrees does not fit into the 12 bits of `struct state` and wraps,
  although `track.h:130` has a range of 180 for its factor; `TracePoint` makes no claim about
  such a roll (`Cut`).
* The cache of the recent file is compacted when its entries are used up and not when its
  bytes are (`json_out.c:1569`, `1690`): with texts longer than expected the newest points are
  left out until then ("traceCache full, not an issue but fix it!"; `Roomy`).
* A mark set between the reading and the clearing of `trace_write` (`globe_index.c:471-475`)
  is lost until the next one; `EveryPositionShown` excludes exactly those.
* `NoHole` (a part of `FilesComplete`) holds while at most two positions were recorded
  beside writes since the last full one; TLC finds a hole with four.
* At a start between 00:00 and 00:56 `checkNewDay` opens yesterday's directory at once; a
  restart that closes the day before 00:55 may miss the permanent write; after a crash an
  older state may overwrite a fuller permanent file.

Read, but not part of a model: bladeRF drops blocks without counting them in `dropped`, so
that the overlap is copied across the gap.

## 5. The proofs

Eight modules hold theorems that TLAPS checks to the last leaf.  Each proves an inductive
invariant `IInv` (`Init => IInv`, `IInv /\ [Next]_vars => IInv'`, one step per action), from
which the properties follow; TLC has checked every `IInv` as an invariant of the module's
run before it was proved.  Assumed is only what the modules state about their constants,
which TLC evaluates in the runs.

| Module | Theorem | States |
|---|---|---|
| `ThreadPoolProofs` | `TypeCorrect` | `TypeOK` |
| | `TasksExecutedOnce` | `ExactlyOnce` |
| | `RunBlocks` | `BlocksUntilFinished` |
| | `TasksOfThisRun` | `RightArray` |
| | `BuffersSafe` | `BuffersOfATaskStay` |
| | `WakeupsNotLost` | `NoLostWakeup` |
| | `Implementation` | `ImplementsTaskBatch` |
| `MagFifoProofs` | `TypeCorrect` | `TypeOK` |
| | `BuffersSeparate` | `SeparateBuffers` |
| | `StreamCorrect` | `StreamExact` |
| | `SamplesAccounted` | `SamplesCounted` |
| `DecodePoolProofs` | `TypeCorrect` | `TypeOK` |
| | `InputExclusion` | `InputExclusive` |
| | `MessagesOnce` | `EveryMessageOnce` |
| `AircraftListsProofs` | `TypeCorrect` | `TypeOK` |
| | `ListsAgree` | `ListsMatchFlags` |
| | `ReadersSafety` | `ReadersSafe`, an action property |
| | `ListsCompleteness` | `ListsComplete`, if the readers scan the active list |
| `ApiBuffersProofs` | `StableBuffers` | `FreshRequestsReadStableBuffer` |
| `ApiConnectionsProofs` | `TypeCorrect` | `TypeOK` |
| | `ClientsServed` | `RepliesInOrder` |
| | `NoLeak` | `NothingLeaks` |
| `NetServicesProofs` | `StreamsComplete` | `StreamComplete` |
| | `PointersAreValid` | `PointersValid` |
| | `ReferencesAreValid` | `ReferencesValid`, while there are no more clients than `max_fds_net` |
| `RelayProofs` | `MarksLast` | `MarksSurvive` |
| | `DelayCorrect` | `DelayMeasured` |

*ThreadPool.*  Assumed: `WorkersAssumption` (a finite, nonempty set of workers; `Nobody` is
none of them) and `BoundsAssumption` (the bounds are natural numbers, of any size). `IInv`
adds the meaning of the atomics. `PendingIsLeft`: `pending_count` is `task_count` plus the
number of workers that hold a task, plus what is announced and not visible yet.  Hence a
master that reads zero leaves nobody busy (`QuietOutsideRuns`), hence nobody can see the
next run's array before it is complete (`CurrentArray`), and the tasks of a run are always
divided into free, held and finished (`Partition`).  `NoLostWakeup` needs who owns the
mutexes at which control point (`Locks`).  Five actions touch tasks at all (`TaskFrame`);
the lemmas on `PendingIsLeft` and `Partition` go through those five, and the effect on the
set of busy workers and its size is stated once for a claim and once for a finish.  The
refinement maps a successful compare-exchange to `Start`, the `fetch_sub` to `Finish`, the
store of `task_count` to `Submit`, and everything else to a stutter, or to `Return` and
`Close`.

*MagFifo.*  For a ring of any size, blocks of any lengths, any number of them and every
reader.  The two indexes alone say little, since the contents are accessed outside the
mutex: the invariant says that the reader's copies of the indexes stay right although it
gave up the mutex (`Reserved`), that the decode thread works on the first filled buffer
(`Taken`), that lengths fit (`Lengths`), and, for the stream, that the blocks in the ring
are ordered (`Ordered`, `Flagged`) and continue with the one the reader is about to push
(`Latest`, `FilledNow`).  `SamplesAccounted` is about a sum over the buffers: `Counts` says
which of them hold samples that are not counted yet, and the lemmas on sums (`TotalExists`,
`Counting`) say what one changed length does to the sum.  They are proved by induction in
the form of sets, since no theorem that takes an operator can be used: a nonempty set of
naturals has a least element (`NatMin`), a set of naturals that holds 0 and every successor
is all of them (`NatSetInduction`), and likewise for the subsets of a finite set
(`SubsetInduction`).

*DecodePool.*  For any number of tasks, clients, messages and rounds and every size of a
message buffer.  The invariant says where a task may be and with which client (`Places`),
who has `decodeLock` there (`DecodeLocked`), when a buffer is empty (`Emptied`), which task
still owes the rest of a read although it gave up `decodeLock` in the middle of the client
(`Unparsed`), and what became of each message that was parsed: it is in one buffer, once, or
tracked, or discarded (`Once`, `Accounted`).

*AircraftLists.*  For any number of aircraft, tiles and readers, whether or not the two
stores of `ca_add` are reordered.  The invariant says who holds which thread's mutex
(`Stopped`), that a list's readers are counted (`Counted`), and what each list holds at
every point of `ca_add` and `ca_remove`: its first entries are the aircraft it should hold,
each once, and what is behind them is no aircraft, but for the entry in hand (`Working`,
`Contents`, `Behind`).  What a reader loaded is an aircraft that is not freed before it lets
go (`Loaded`), and what it must still meet lies ahead of it (`Scanning`).  A scan of a
tile's list may miss an aircraft, as section 4 shows; `ListsCompleteness` is therefore about
the active list, from which nothing is removed but while the threads are stopped.

*ApiBuffers.*  For any number of threads and aircraft and every interval.  `Pointed` says
which buffer the threads point to at every point of an update, `Aged` that a request that
still reads the buffer that will be written next has used up the pause, up to what is left
of it.

*ApiConnections.*  For any number of clients and connection structs, chunks of any size and
any limit on the bytes in memory.  `RepliesInOrder` is not inductive, since nothing in it
says that the next unit sent belongs to the reply whose last unit the client received.
`Tie` ties an open connection to its client: what was sent of the reply is what ends the
client's stream, what was received before belongs to earlier requests, and what is on its
way belongs to later ones.  `NothingLeaks` counts; the invariant says it without counting
(`Structs`: the stack holds each closed struct once) and adds that a closed struct holds no
bytes.  A handler makes several calls, and every lemma about one is about a world, the
record that the handlers pass on: a sound world stays sound.  The folds (the sum of the
bytes, the end of all connections, the loop of `acceptCon`) are handled by induction over
the subsets of a finite set, as for *MagFifo*.

*NetServices.*  For any number of clients, descriptors and addresses and every mix of
connections.  `Linked` says that the events of a descriptor are reported to an open client
that has it, that only the connector's client is marked as its own, and that the connector's
address list, client and descriptor exist in the states that use them.  `Streams` is
`StreamComplete` up to the last flush; `Buffered` says that the writer holds the units since
then, which a flush needs.  `EventsOk` is about the events of a pass that are still to be
handled: their memory is not freed before `serviceFreeClients`, which runs when there are
none.  `IInv` is inductive without an assumption on the number of clients.  `Whole`, that
each open descriptor has its owner, is not: above `max_fds_net` the accepted descriptor
stays open and another is closed (section 4, `FdsOwned`).  Hence `ReferencesAreValid` is
about executions that stay below the limit.  The runs stay below it too; that the limit
can be exceeded is what `FdsOwned` shows in section 4.

*Relay.*  For any number of instances, hops and times and every size of the ping's clock
(`RelayAssumption`: at least 16, so that an eighth is more than a tick, and an interval
shorter than a turn; its other parts say that fields are added only to messages that are
converted and that the cache is larger than the recent file, in groups of four; no proof
uses the latter).  `MarksSurvive` needs by what a result is known as one of
multilateration (`Known`: its timestamp, or a line with its source) and that a mark is the
timestamp (`Marked`).  `DelayMeasured` does not depend on steps; it rests on lemmas about
remainders (`ModUnique`, `ModAdd`, `ModShift`) and on `RttIsApart`, the comparison of two
clocks.

Model-checked only:

* liveness everywhere (`CallsReturn`, `RingServed`, `PoolRunReturnsUnlocked`,
  `StopTheWorldReturns`, `Reconnects`, `OutputDelivered`, `RequestsAnswered`,
  `EveryPositionShown`): fairness and ENABLED are out of the prover's reach;
* what computes data: `RepliesComplete` sorts and bisects, `EveryMessageDelivered`,
  `ContentAsSent`, `NothingInvented` and `CleanCopyWins` compute bit for bit: what their
  operators compute for every input would need an induction of its own for each;
* `TraceMemory`, whose operators are recursive, and with it `ImplementsLog` and
  `TraceConsistent`;
* `Tracking`, whose handler is arithmetic over a record of two dozen fields;
* `FilesComplete` and `ImplementsMemory`, which are not proved yet.

## 6. What is not modelled

* ThreadPool: the memory order of the atomics is sequential consistency, which is what
  `_Atomic` without an explicit order means.  CPU time counters are left out.
* MagFifo: bladeRF, which fills the ring by a clock of its own; sample conversion and
  demodulation; the odd byte of a block.
* DecodePool: what a message means, timing of a round, and synthetic time.
* AircraftLists: the hash table of aircraft and its quick lookup, the database update under
  stopped threads.
* NetServices: what clients send (`Framing`, and the order of decoding `DecodePool`), the
  length of the back-off, a connector's second address, services without a writer, closing
  at the end of the program, several services at once (they share descriptors and
  `modesClientCount` only).
* ApiConnections: the text of requests, compression; ApiBuffers: the wording of the JSON.
* Tracking: track and air speeds in `speed_check`, and its counters of unreliable speed and
  track (`track.c:2635`), which need nine such messages before they matter; the receiver table (whether a
  position is out of range is an input), discarding by `lastStatus`, duplicates of the UAT
  converter, the schedule of reduced forwarding, the ranking of address types, derived
  geometric altitude, rough receiver positions, output flags.
* Reception: correction of two bits (`--aggressive`), the content of squitters, overrides
  for MLAT, detection of the preamble, `ENABLE_DF24`.
* Network formats: UAT uplink frames, lines shorter than a long frame, what the converter
  decodes and does not use (mode status, target state), the replay of UAT lines, rounding of
  floating-point numbers, `jsonPositionOutput`, `sbsOverrideSquawk`, the text of
  numbers, TIS-B and MLAT records of ASTERIX, which are not sent.
* ModeSFields, CommB: `displayModesMessage`, `checkAcasRaValid` (debug output), the payloads
  of DF16 and DF24.
* TraceMemory: other orders in which the fields of a struct may be copied or stored.  C
  promises none; the builds copy the words of `struct aircraft` from its beginning, and the
  decode thread's stores are in the order of the statements.  A position is its time, so
  that the slot of the buffered position, which may be written anew while it is saved, is
  never torn.
* TraceMemory, TraceFiles: `trace_hist_only`, `replace_state`, compressed days on request, legs, the
  exception for non-ICAO ground vehicles, the buffered position in files.
* Threads and exit: `threadSignalJoin` and its time limit.  Whether a thread is back in time
  depends on how long its work takes, which the models do not have.
* Statistics and the receiver table: counters and a table with time-outs that no other
  modelled part depends on.
* Signal processing, bit fields, floating point, formatting of JSON (but for the points of traces) and binCraft, vendored
  code and separate tools: no state shared between actors, out of TLC's reach, or not the
  program's own logic.  `PROJECT.json` lists every component with its state.
