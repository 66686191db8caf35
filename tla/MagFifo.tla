------------------------------ MODULE MagFifo ------------------------------
(***************************************************************************)
(* The ring of magnitude buffers between the reader thread (the callback   *)
(* or loop of an SDR's driver, or the file reader) and the decode thread.  *)
(*                                                                         *)
(* Both index variables are accessed under Threads.reader.mutex, the       *)
(* contents of a buffer outside of it: the reader fills the buffer at      *)
(* first_free_buffer, the decoder demodulates the one at                   *)
(* first_filled_buffer, and a buffer changes hands when an index moves.    *)
(* A critical section on the mutex is one step here, except that the file  *)
(* reader keeps the mutex from one buffer to the next, and two drivers     *)
(* until they have decided what to do with a block.                        *)
(*                                                                         *)
(* A sample is a unit, a buffer holds Full of them, and the only thing     *)
(* told apart in the data is which block it came from.  Blocks are of      *)
(* whole samples.                                                          *)
(***************************************************************************)
EXTENDS Integers, FiniteSets, FiniteSetsExt

CONSTANTS
    Sources,       \* of "rtlsdr", "soapy", "hackrf", "plutosdr", "ifile": who may read
    N,             \* MODES_MAG_BUFFERS (12)
    Full,          \* sdr_buf_samples
    Trailing,      \* trailing_samples
    BlockLengths,  \* bound: lengths of the blocks the USB device delivers
    MaxBlocks,     \* bound: number of blocks
    WatchdogStart, \* 200 in the code
    WatchdogReset  \* 100 in the code

ASSUME MagFifoAssumption ==
    /\ Sources \subseteq {"rtlsdr", "soapy", "hackrf", "plutosdr", "ifile"}
    /\ N \in Nat /\ N >= 2
    /\ Full \in Nat /\ Trailing \in 1..Full
    /\ BlockLengths \subseteq Nat \ {0}
    /\ MaxBlocks \in Nat \ {0}
    /\ WatchdogStart \in Nat /\ WatchdogReset \in 1..WatchdogStart

VARIABLES
    source,         \* which reader it is
    first_free, first_filled,
    mag,            \* the buffers
    reader_mutex,   \* held by the reader, between two steps?
    rpc,            \* control point of the reader
    out, next,      \* its outbuf and next_free_buffer
    free_bufs,      \* free buffers it counted under the mutex
    dropping,       \* it is dropping blocks until half the ring is free
    block,          \* number and length of the block it holds; history: was one ever cut?
    sampleCounter,
    dpc,            \* control point of the decode thread
    buf,            \* the buffer it took
    watchdog,
    processed, samples_dropped, lost,   \* its statistics
    exitSoon, exit, \* Modes.exitSoon and Modes.exit
    delivered,      \* history: samples the source has delivered
    lastDemod,      \* history: last block demodulated
    lossSeen        \* history: samples_lost if computed from the block demodulated

ring    == <<first_free, first_filled, mag>>
reader  == <<source, rpc, out, next, free_bufs, dropping, block, sampleCounter, delivered>>
decoder == <<dpc, buf, watchdog, processed, samples_dropped, lost, lastDemod, lossSeen>>
program == <<exitSoon, exit>>
vars    == <<ring, reader_mutex, reader, decoder, program>>

Slots == 0..(N - 1)
Inc(i) == (i + 1) % N
Dec(i) == (i + N - 1) % N

\* block 0 is no block: a buffer that was never filled, an overlap of zeros
EmptyBuf == [block |-> 0, overlap |-> 0, length |-> 0, dropped |-> 0, stamp |-> 0]

Init ==
    /\ first_free = 0 /\ first_filled = 0
    /\ mag = [i \in Slots |-> EmptyBuf]
    /\ source \in Sources
    /\ IF source = "ifile" THEN rpc = "top" /\ reader_mutex = TRUE
                           ELSE rpc = "usb" /\ reader_mutex = FALSE
    /\ out = 0 /\ next = 0 /\ free_bufs = 0
    /\ dropping = FALSE
    /\ block = [id |-> 0, len |-> 0, cut |-> FALSE]
    /\ sampleCounter = 0 /\ delivered = 0
    /\ dpc = "top" /\ buf = 0 /\ watchdog = WatchdogStart
    /\ processed = 0 /\ samples_dropped = 0 /\ lost = 0
    /\ lastDemod = 0 /\ lossSeen = 0
    /\ exitSoon = FALSE /\ exit = FALSE

\* pthread_cond_signal without the decode mutex: it reaches only a thread that waits
WakeDecode == dpc' = IF dpc = "waiting" THEN "top" ELSE dpc

DecoderIdle == UNCHANGED <<buf, watchdog, processed, samples_dropped, lost, lastDemod, lossSeen>>

-----------------------------------------------------------------------------
(* The callback of an SDR: rtlsdrCallback, and what the other drivers do differently *)

\* keepsMutex: from the copy of the indices until it knows whether the block is dropped;
\* wakes: a dropped block wakes the decode thread; fails: the driver may return unasked
rtlsdrCallback   == [keepsMutex |-> FALSE, wakes |-> TRUE,  fails |-> TRUE]
soapyRun         == [keepsMutex |-> FALSE, wakes |-> TRUE,  fails |-> TRUE]
hackrfCallback   == [keepsMutex |-> TRUE,  wakes |-> FALSE, fails |-> FALSE]
plutosdrCallback == [keepsMutex |-> TRUE,  wakes |-> FALSE, fails |-> FALSE]

Driver ==
    CASE source = "soapy"    -> soapyRun
      [] source = "hackrf"   -> hackrfCallback
      [] source = "plutosdr" -> plutosdrCallback
      [] OTHER               -> rtlsdrCallback

\* the device hands over a block; the buffer variables are copied under the mutex
UsbBlock ==
    /\ rpc = "usb" /\ block.id < MaxBlocks
    /\ \E len \in BlockLengths :
          /\ block' = [block EXCEPT !.id = @ + 1, !.len = len]
          /\ delivered' = delivered + len
    /\ out' = first_free
    /\ next' = Inc(first_free)
    /\ free_bufs' = (first_filled - Inc(first_free) + N) % N
    /\ rpc' = "usbSize"
    /\ reader_mutex' = Driver.keepsMutex
    /\ UNCHANGED <<ring, source, dropping, sampleCounter, decoder, program>>

\* Fault: the hysteresis is there, the test for a full ring is not.
UsbSizeFullRing ==
    /\ rpc = "usbSize"
    /\ LET discard == IF block.len > Full THEN block.len - Full ELSE 0
       IN  /\ mag' = [mag EXCEPT ![out].dropped = @ + discard]
           /\ block' = [block EXCEPT !.len = @ - discard, !.cut = @ \/ discard > 0]
    /\ rpc' = IF dropping /\ free_bufs < N \div 2 THEN "usbDrop" ELSE "usbFill"
    /\ reader_mutex' = (reader_mutex /\ rpc' = "usbDrop")
    /\ UNCHANGED <<first_free, first_filled, source, out, next, free_bufs, dropping,
                   sampleCounter, delivered, decoder, program>>

\* "weirdness": of a block that is too large the start is discarded
UsbSize ==
    /\ rpc = "usbSize"
    /\ LET discard == IF block.len > Full THEN block.len - Full ELSE 0
       IN  /\ mag' = [mag EXCEPT ![out].dropped = @ + discard]
           /\ block' = [block EXCEPT !.len = @ - discard, !.cut = @ \/ discard > 0]
    /\ rpc' = IF free_bufs = 0 \/ (dropping /\ free_bufs < N \div 2)
              THEN "usbDrop" ELSE "usbFill"
    /\ reader_mutex' = (reader_mutex /\ rpc' = "usbDrop")
    /\ UNCHANGED <<first_free, first_filled, source, out, next, free_bufs, dropping,
                   sampleCounter, delivered, decoder, program>>

\* "FIFO is full. Drop this block."
UsbDrop ==
    /\ rpc = "usbDrop"
    /\ dropping' = TRUE
    /\ mag' = [mag EXCEPT ![out].dropped = @ + block.len]
    /\ sampleCounter' = sampleCounter + block.len
    /\ IF Driver.wakes THEN WakeDecode ELSE UNCHANGED dpc
    /\ rpc' = "usb" /\ reader_mutex' = FALSE
    /\ UNCHANGED <<first_free, first_filled, source, out, next, free_bufs, block,
                   delivered, program>>
    /\ DecoderIdle

\* what a block overlaps with: the end of the previous buffer
TailOf(i) == IF mag[i].length = 0 THEN mag[i].overlap ELSE mag[i].block

\* Fault: the overlap is copied even where samples are missing.
UsbFillAcrossGap ==
    /\ rpc = "usbFill"
    /\ dropping' = FALSE
    /\ mag' = [mag EXCEPT ![out] =
                  [@ EXCEPT !.block = block.id, !.overlap = TailOf(Dec(out)),
                            !.length = block.len, !.stamp = sampleCounter]]
    /\ sampleCounter' = sampleCounter + block.len
    /\ rpc' = "usbPush"
    /\ UNCHANGED <<first_free, first_filled, reader_mutex, source, out, next, free_bufs, block,
                   delivered, decoder, program>>

UsbFill ==
    /\ rpc = "usbFill"
    /\ dropping' = FALSE
    /\ mag' = [mag EXCEPT ![out] =
                  [@ EXCEPT !.block = block.id,
                            !.overlap = IF mag[out].dropped = 0 THEN TailOf(Dec(out)) ELSE 0,
                            !.length = block.len,
                            !.stamp = sampleCounter]]
    /\ sampleCounter' = sampleCounter + block.len
    /\ rpc' = "usbPush"
    /\ UNCHANGED <<first_free, first_filled, reader_mutex, source, out, next, free_bufs, block,
                   delivered, decoder, program>>

\* Fault: the next buffer keeps the dropped count of its last round.
UsbPushNoReset ==
    /\ rpc = "usbPush"
    /\ first_free' = next
    /\ WakeDecode
    /\ rpc' = "usb"
    /\ UNCHANGED <<first_filled, mag, reader_mutex, source, out, next, free_bufs, dropping, block,
                   sampleCounter, delivered, program>>
    /\ DecoderIdle

UsbPush ==
    /\ rpc = "usbPush"
    /\ mag' = [mag EXCEPT ![next].dropped = 0, ![next].length = 0]
    /\ first_free' = next
    /\ WakeDecode
    /\ rpc' = "usb"
    /\ UNCHANGED <<first_filled, reader_mutex, source, out, next, free_bufs, dropping, block,
                   sampleCounter, delivered, program>>
    /\ DecoderIdle

\* the driver's loop or read_async returns: because of Modes.exit, or the device is lost;
\* readerEntryPoint then makes sure that the program exits
UsbReturn ==
    /\ rpc = "usb" /\ (Driver.fails \/ exit)
    /\ rpc' = "closed"
    /\ exitSoon' = (~exit \/ exitSoon)
    /\ UNCHANGED <<exit, ring, reader_mutex, source, out, next, free_bufs, dropping, block,
                   sampleCounter,
                   delivered, decoder>>

Usb == UsbBlock \/ UsbSize \/ UsbDrop \/ UsbFill \/ UsbPush \/ UsbReturn

-----------------------------------------------------------------------------
(* ifileRun; it holds the mutex at "top", "drain" and in between *)

\* "no space for output yet": wait for the decode thread's signal, 50 ms at most
FileWait ==
    /\ rpc = "top" /\ ~exit
    /\ Inc(first_free) = first_filled
    /\ rpc' = "fileWaiting" /\ reader_mutex' = FALSE
    /\ UNCHANGED <<ring, source, out, next, free_bufs, dropping, block, sampleCounter, delivered,
                   decoder, program>>

FileTimeout ==
    /\ rpc = "fileWaiting"
    /\ rpc' = "top" /\ reader_mutex' = TRUE
    /\ UNCHANGED <<ring, source, out, next, free_bufs, dropping, block, sampleCounter, delivered,
                   decoder, program>>

FileTake ==
    /\ rpc = "top" /\ ~exit
    /\ Inc(first_free) # first_filled
    /\ out' = first_free /\ next' = Inc(first_free)
    /\ rpc' = "fileFill" /\ reader_mutex' = FALSE
    /\ UNCHANGED <<ring, source, free_bufs, dropping, block, sampleCounter, delivered, decoder,
                   program>>

\* read until the buffer is full or the file ends, then convert
FileFill ==
    /\ rpc = "fileFill"
    /\ \E len \in 0..Full :
          /\ block.id + 1 = MaxBlocks => len < Full    \* the file is finite
          /\ block' = [block EXCEPT !.id = @ + 1, !.len = len]
          /\ delivered' = delivered + len
          /\ sampleCounter' = sampleCounter + len
          /\ mag' = [mag EXCEPT ![out] =
                        [@ EXCEPT !.block = block.id + 1,
                                  !.overlap = IF mag[Dec(out)].length >= Trailing
                                              THEN TailOf(Dec(out)) ELSE 0,
                                  !.length = len,
                                  !.stamp = sampleCounter]]
    /\ rpc' = "filePush"
    /\ UNCHANGED <<first_free, first_filled, reader_mutex, source, out, next, free_bufs, dropping,
                   decoder, program>>

\* a short block means eof and ends the loop
FilePush ==
    /\ rpc = "filePush"
    /\ first_free' = next
    /\ WakeDecode
    /\ rpc' = IF block.len < Full THEN "drain" ELSE "top"
    /\ reader_mutex' = TRUE
    /\ UNCHANGED <<first_filled, mag, source, out, next, free_bufs, dropping, block, sampleCounter,
                   delivered, program>>
    /\ DecoderIdle

FileStop ==
    /\ rpc = "top" /\ exit
    /\ rpc' = "drain"
    /\ UNCHANGED <<ring, reader_mutex, source, out, next, free_bufs, dropping, block, sampleCounter,
                   delivered, decoder, program>>

\* "Wait for the main thread to consume all data"
FileDrain ==
    /\ rpc = "drain"
    /\ ~exit /\ first_filled # first_free
    /\ WakeDecode
    /\ rpc' = "drainWaiting" /\ reader_mutex' = FALSE
    /\ UNCHANGED <<ring, source, out, next, free_bufs, dropping, block, sampleCounter, delivered,
                   program>>
    /\ DecoderIdle

FileDrainTimeout ==
    /\ rpc = "drainWaiting"
    /\ rpc' = "drain" /\ reader_mutex' = TRUE
    /\ UNCHANGED <<ring, source, out, next, free_bufs, dropping, block, sampleCounter, delivered,
                   decoder, program>>

FileEnd ==
    /\ rpc = "drain"
    /\ exit \/ first_filled = first_free
    /\ exit' = TRUE
    /\ rpc' = "closed" /\ reader_mutex' = FALSE
    /\ UNCHANGED <<exitSoon, ring, source, out, next, free_bufs, dropping, block, sampleCounter,
                   delivered, decoder>>

File ==
    \/ FileWait \/ FileTimeout \/ FileTake \/ FileFill \/ FilePush \/ FileStop
    \/ FileDrain \/ FileDrainTimeout \/ FileEnd

-----------------------------------------------------------------------------
(* decodeEntryPoint, the loop that is not net_only *)

DGoto(from, to) == dpc = from /\ dpc' = to

\* Fault: the watchdog is tested and never counts down.
DecodeTakeNoWatchdog ==
    /\ ~exit /\ ~reader_mutex
    /\ IF first_free # first_filled
       THEN DGoto("top", "demod") /\ buf' = first_filled
       ELSE DGoto("top", "background") /\ UNCHANGED buf
    /\ UNCHANGED <<watchdog, program, ring, reader_mutex, reader, processed, samples_dropped, lost,
                   lastDemod, lossSeen>>

\* under the reader mutex: process one buffer, if there is one
DecodeTake ==
    /\ ~exit /\ ~reader_mutex
    /\ IF first_free # first_filled
       THEN DGoto("top", "demod") /\ buf' = first_filled /\ UNCHANGED <<watchdog, exitSoon>>
       ELSE /\ watchdog' = watchdog - 1
            /\ DGoto("top", IF watchdog - 1 <= 0 THEN "cancel" ELSE "background")
            /\ exitSoon' = (exitSoon \/ watchdog - 1 <= 0)   \* "SDR wedged, exiting!"
            /\ UNCHANGED buf
    /\ UNCHANGED <<exit, ring, reader_mutex, reader, processed, samples_dropped, lost, lastDemod,
                   lossSeen>>

Demodulate ==
    /\ DGoto("demod", "release")
    /\ processed' = processed + mag[buf].length
    /\ samples_dropped' = samples_dropped + mag[buf].dropped
    /\ lastDemod' = mag[buf].block
    /\ lossSeen' = lossSeen + (Full - mag[buf].length)
    /\ UNCHANGED <<ring, reader_mutex, reader, buf, watchdog, lost, program>>

\* "Mark the buffer we just processed as completed" and signal the reader
Release ==
    /\ ~reader_mutex
    /\ DGoto("release", "account")
    /\ first_filled' = Inc(first_filled)
    /\ \/ /\ rpc \in {"fileWaiting", "drainWaiting"}
          /\ rpc' = IF rpc = "fileWaiting" THEN "top" ELSE "drain"
          /\ reader_mutex' = TRUE
       \/ /\ rpc \notin {"fileWaiting", "drainWaiting"}
          /\ UNCHANGED <<rpc, reader_mutex>>
    /\ UNCHANGED <<first_free, mag, source, out, next, free_bufs, dropping, block, sampleCounter,
                   delivered, buf, watchdog, processed, samples_dropped, lost, lastDemod,
                   lossSeen, program>>

\* samples_lost, computed from the buffer that was handed back
Account ==
    /\ DGoto("account", "background")
    /\ lost' = lost + (Full - mag[buf].length)
    /\ watchdog' = WatchdogReset
    /\ UNCHANGED <<ring, reader_mutex, reader, buf, processed, samples_dropped, lastDemod,
                   lossSeen, program>>

\* backgroundTasks, then look for new data under the reader mutex
Background ==
    /\ ~reader_mutex
    /\ DGoto("background", IF first_free = first_filled THEN "wait" ELSE "top")
    /\ UNCHANGED <<ring, reader_mutex, reader, buf, watchdog, processed, samples_dropped, lost,
                   lastDemod, lossSeen, program>>

\* threadTimedWait: "don't wait when we want to exit"
DecodeWait ==
    /\ DGoto("wait", IF exit THEN "top" ELSE "waiting")
    /\ UNCHANGED <<ring, reader_mutex, reader, program>> /\ DecoderIdle

DecodeTimeout ==
    /\ DGoto("waiting", "top")
    /\ UNCHANGED <<ring, reader_mutex, reader, program>> /\ DecoderIdle

DecodeExit ==
    /\ \/ DGoto("top", "exited") /\ exit
       \/ DGoto("cancel", "exited")
    /\ UNCHANGED <<ring, reader_mutex, reader, program>> /\ DecoderIdle

Decode ==
    \/ DecodeTake \/ Demodulate \/ Release \/ Account \/ Background
    \/ DecodeWait \/ DecodeTimeout \/ DecodeExit

-----------------------------------------------------------------------------
(* the main thread *)

\* a signal handler calls setExit
ExitRequest ==
    /\ ~exitSoon /\ exitSoon' = TRUE
    /\ UNCHANGED <<exit, ring, reader_mutex, reader, decoder>>

\* "Signal to threads that program is exiting"
MainExit ==
    /\ exitSoon /\ ~exit
    /\ exit' = TRUE
    /\ UNCHANGED <<exitSoon, ring, reader_mutex, reader, decoder>>

Next == Usb \/ File \/ Decode \/ ExitRequest \/ MainExit

Spec == Init /\ [][Next]_vars

(***************************************************************************)
(* The decode thread and the file reader keep running, their timed waits   *)
(* time out, and a mutex that keeps being released is obtained.  Nothing   *)
(* obliges the device to deliver a block, or to return from read_async.    *)
(***************************************************************************)
Fairness ==
    /\ WF_vars(Decode) /\ SF_vars(DecodeTake) /\ SF_vars(Release) /\ SF_vars(Background)
    /\ WF_vars(File) /\ WF_vars(MainExit)
    /\ WF_vars(UsbSize \/ UsbDrop \/ UsbFill \/ UsbPush)

FairSpec == Spec /\ Fairness

-----------------------------------------------------------------------------
(* Properties *)

Demodulating == dpc \in {"demod", "release"}

\* the buffers that wait for the decode thread, oldest first from first_filled
Filled == {i \in Slots : (i - first_filled + N) % N < (first_free - first_filled + N) % N}

\* those it has not counted in its statistics yet
Pending == IF dpc = "release" THEN Filled \ {buf} ELSE Filled

Before(i) == {j \in Pending : (j - first_filled + N) % N < (i - first_filled + N) % N}

SamplesIn(slots) == FoldSet(LAMBDA i, sum : sum + mag[i].length + mag[i].dropped, 0, slots)

\* what a buffer may hold
Buffer == [block : 0..MaxBlocks, overlap : 0..MaxBlocks, length : 0..Full, dropped : Nat, stamp : Nat]

\* The type of every variable.
TypeOK ==
    /\ source \in Sources
    /\ first_free \in Slots /\ first_filled \in Slots
    /\ mag \in [Slots -> Buffer]
    /\ reader_mutex \in BOOLEAN /\ dropping \in BOOLEAN /\ exitSoon \in BOOLEAN /\ exit \in BOOLEAN
    /\ rpc \in {"usb", "usbSize", "usbDrop", "usbFill", "usbPush", "top", "fileWaiting",
                "fileFill", "filePush", "drain", "drainWaiting", "closed"}
    /\ dpc \in {"top", "demod", "release", "account", "background", "wait", "waiting",
                "cancel", "exited"}
    /\ out \in Slots /\ next \in Slots /\ buf \in Slots
    /\ free_bufs \in 0..(N - 1)
    /\ block \in [id : 0..MaxBlocks, len : Nat, cut : BOOLEAN]
    /\ watchdog \in 0..WatchdogStart
    /\ sampleCounter \in Nat /\ delivered \in Nat /\ processed \in Nat
    /\ samples_dropped \in Nat /\ lost \in Nat /\ lossSeen \in Nat
    /\ lastDemod \in 0..MaxBlocks

\* The reader never writes a buffer that is being demodulated, neither the one it fills
\* nor, when it pushes, the one it resets for the next block: the decode thread reads
\* buffers without the mutex.
SeparateBuffers ==
    /\ Demodulating /\ rpc \in {"usbSize", "usbDrop", "usbFill", "usbPush",
                                "fileFill", "filePush"} => buf # out
    /\ Demodulating /\ rpc = "usbPush" => buf # next

\* Every sample the source delivered is demodulated, counted as dropped, or in the ring.
SamplesConserved ==
    delivered =
        processed + samples_dropped + SamplesIn(Pending)
        + (IF rpc \in {"usbPush", "filePush"} THEN SamplesIn({first_free})
           ELSE mag[first_free].dropped)
        + (IF rpc \in {"usbSize", "usbDrop", "usbFill"} THEN block.len ELSE 0)

\* Blocks reach the demodulator in order and once, and where blocks are missing before a
\* buffer its dropped count says so.
InOrderGapsFlagged ==
    \A i \in Pending :
        LET earlier == {mag[j].block : j \in Before(i)} \union {lastDemod}
        IN  /\ mag[i].block > Max(earlier)
            /\ mag[i].block > Max(earlier) + 1 => mag[i].dropped > 0

\* A message that straddles two buffers can be decoded: the samples copied in front of a
\* block are the end of the block before it, or zeros where samples are missing.
OverlapContinuous ==
    \A i \in Pending :
        mag[i].overlap = IF mag[i].dropped = 0 THEN mag[i].block - 1 ELSE 0

\* "the sample timestamp for the start of the block": it counts every sample the source
\* delivered before the block, demodulated or dropped, until a block is cut: the discarded
\* start of a block that is too large does not advance the time.
TimestampExact ==
    ~block.cut =>
        \A i \in Pending :
            mag[i].stamp = processed + samples_dropped + SamplesIn(Before(i)) + mag[i].dropped

\* What the decode thread finds in the ring is what the source delivered: in order, with its
\* gaps marked, and the samples in front of each buffer are right.
StreamExact == InOrderGapsFlagged /\ OverlapContinuous

\* No sample goes uncounted, neither in the statistics nor in the time of a buffer.
SamplesCounted == SamplesConserved /\ TimestampExact

\* samples_lost counts what the demodulated buffers were short of (the statement that
\* computes it runs after "Mark the buffer we just processed as completed").
LostSamplesExact == dpc = "background" => lost = lossSeen

\* The file reader ends the program at the end of the file only when every sample of it
\* has been demodulated ("Wait for the main thread to consume all data").
FileConsumed ==
    [][rpc = "drain" /\ rpc' = "closed" /\ ~exit => processed = delivered]_vars

\* What was pushed is demodulated: when the device pauses the ring empties, unless the
\* program exits.  wakeDecode may signal nobody, but the decode thread looks again after 80 ms.
PushedIsDemodulated == Filled # {} ~> Filled = {} \/ exitSoon

\* A device that delivers nothing any more ends the program ("SDR wedged, exiting!"), and
\* the decode thread leaves its loop.
SilentDeviceEnds == <>(dpc = "exited")

\* Whatever the source does (pauses, ends, wedges), the ring is served to the last buffer.
RingServed == FileConsumed /\ PushedIsDemodulated /\ SilentDeviceEnds

=============================================================================
