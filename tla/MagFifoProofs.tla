--------------------------- MODULE MagFifoProofs ---------------------------
(***************************************************************************)
(* Safety of MagFifo.tla for a ring of any size, blocks of any lengths,    *)
(* every reader and any number of blocks.                                  *)
(*                                                                         *)
(* SeparateBuffers and StreamExact speak of what the decode thread reads   *)
(* while the mutex is free.  Their proofs add that the reader's copies of  *)
(* the indices stay right although it gave up the mutex (Reserved), that   *)
(* the decode thread's buffer is the first filled one (Taken), and, for    *)
(* the stream, that the blocks in the ring are ordered (Ordered, Flagged)  *)
(* and continue with the one the reader is about to push (Latest).         *)
(*                                                                         *)
(* SamplesCounted sums over the ring.  That the fold of the sum is         *)
(* defined, and that it splits, is an induction over finite sets of slots, *)
(* drawn from the well-founded orders of WellFoundedInduction and          *)
(* FiniteSetTheorems (SubsetInduction, Counting); the counts themselves    *)
(* are then an inductive invariant like the others (Conserved, OnTime).    *)
(***************************************************************************)
EXTENDS MagFifo, TLAPS, FiniteSetTheorems, WellFoundedInduction

UsbHolding  == {"usbSize", "usbDrop", "usbFill", "usbPush"}
FileHolding == {"fileFill", "filePush"}
FileLoop    == {"top", "fileWaiting", "fileFill"}

\* The reader's copies of the indices are right, and the slot after its own is not the decode
\* thread's when it goes on to fill one.
Reserved ==
    /\ rpc \in UsbHolding \union FileHolding => out = first_free /\ next = Inc(first_free)
    /\ rpc \in {"usbFill", "usbPush"} \union FileHolding => next # first_filled
    /\ rpc = "usbSize" /\ free_bufs # 0 => next # first_filled

\* The decode thread works on the first filled buffer, and leaves when the watchdog is at 0.
Taken ==
    /\ Demodulating => buf = first_filled /\ first_filled # first_free
    /\ dpc \notin {"cancel", "exited"} => watchdog # 0

\* Blocks are never empty for a device, fit into a buffer after UsbSize, and end with a short
\* one in a file.
Lengths ==
    /\ rpc \in UsbHolding => block.len > 0
    /\ rpc \in {"usbDrop", "usbFill", "usbPush"} => block.len <= Full
    /\ rpc \in FileLoop => block.id < MaxBlocks
    /\ rpc = "filePush" => block.len <= Full /\ (block.len = Full => block.id < MaxBlocks)

\* what is known of the indices and the lengths
Control == TypeOK /\ Reserved /\ Taken /\ Lengths

-----------------------------------------------------------------------------
(* The stream of blocks in the ring.                                       *)

\* how far a slot is from the decode thread's
Pos(i) == (i - first_filled + N) % N

\* Blocks get newer from the decode thread on.
Ordered ==
    /\ \A i \in Pending : lastDemod < mag[i].block
    /\ \A i, j \in Pending : Pos(j) < Pos(i) => mag[j].block < mag[i].block

\* the block before the one in slot i
Previous(i) == IF Dec(i) \in Pending THEN mag[Dec(i)].block ELSE lastDemod

\* Blocks are missing only in front of a buffer that says so.
Flagged == \A i \in Pending : mag[i].block > Previous(i) + 1 => mag[i].dropped > 0

\* the slot the reader pushed last
LastSlot == Dec(first_free)

\* The block that was pushed last is the one before the reader's, unless the reader's slot
\* says that blocks were dropped; its end is what the next buffer overlaps with.
Latest ==
    /\ Pending = {} => mag[LastSlot].block = lastDemod
    /\ rpc = "usb" => mag[LastSlot].block <= block.id
    /\ rpc \in UsbHolding \union {"filePush"} => mag[LastSlot].block < block.id
    /\ rpc = "usb" /\ mag[first_free].dropped = 0 => mag[LastSlot].block = block.id
    /\ rpc \in UsbHolding /\ mag[first_free].dropped = 0 => mag[LastSlot].block = block.id - 1
    /\ rpc \in FileLoop => mag[LastSlot].block = block.id
    /\ rpc = "filePush" => mag[LastSlot].block = block.id - 1
    /\ rpc \in {"usb", "usbSize", "usbDrop", "usbFill"} \union FileLoop =>
          TailOf(LastSlot) = mag[LastSlot].block
    /\ rpc \in FileLoop => mag[LastSlot].length >= Trailing \/ mag[LastSlot].block = 0
    /\ rpc \in FileLoop \union {"filePush"} => \A i \in Slots : mag[i].dropped = 0

\* The buffer about to be pushed is filled.
FilledNow ==
    rpc \in {"usbPush", "filePush"} =>
        /\ mag[first_free].block = block.id
        /\ mag[first_free].length = block.len
        /\ mag[first_free].overlap = IF mag[first_free].dropped = 0 THEN block.id - 1 ELSE 0

\* the blocks that wait, and the next one
Stream == Ordered /\ Flagged /\ OverlapContinuous /\ Latest /\ FilledNow

-----------------------------------------------------------------------------
(* The samples in the ring.                                                *)

\* the reader is about to push its slot
Pushes == rpc \in {"usbPush", "filePush"}

\* what the reader holds, and what is in its slot
Held   == IF rpc \in {"usbSize", "usbDrop", "usbFill"} THEN block.len ELSE 0
InSlot == (IF Pushes THEN mag[first_free].length ELSE 0) + mag[first_free].dropped

\* SamplesIn, of any ring
In(m, slots) == FoldSet(LAMBDA i, sum : sum + m[i].length + m[i].dropped, 0, slots)

\* Every sample delivered is somewhere.
Conserved == delivered = processed + samples_dropped + In(mag, Pending) + InSlot + Held

\* Until a block is cut, the counter of samples is exact, and so is the time of each buffer.
OnTime ==
    ~block.cut =>
        /\ sampleCounter + Held = delivered
        /\ Pushes => mag[first_free].stamp + mag[first_free].length = sampleCounter
        /\ \A i \in Pending :
              mag[i].stamp = processed + samples_dropped + In(mag, Before(i)) + mag[i].dropped

Counts == Conserved /\ OnTime

\* the inductive invariant
IInv == Control /\ Stream /\ Counts

-----------------------------------------------------------------------------
(* The arithmetic of the ring.                                             *)

\* The neighbours of a slot.
LEMMA Ring ==
  ASSUME NEW i \in Slots
  PROVE  /\ Inc(i) \in Slots /\ Inc(i) # i /\ Dec(Inc(i)) = i
         /\ Dec(i) \in Slots /\ Dec(i) # i /\ Inc(Dec(i)) = i
         /\ Inc(i) = IF i = N - 1 THEN 0 ELSE i + 1
<1>1. Inc(i) = IF i = N - 1 THEN 0 ELSE i + 1
  BY MagFifoAssumption DEF Slots, Inc
<1>2. Dec(i) = IF i = 0 THEN N - 1 ELSE i - 1
  BY MagFifoAssumption DEF Slots, Dec
<1>3. Inc(i) \in Slots /\ Inc(i) # i /\ Dec(i) \in Slots /\ Dec(i) # i
  BY <1>1, <1>2, MagFifoAssumption DEF Slots
<1>4. Dec(Inc(i)) = i
  BY <1>1, MagFifoAssumption DEF Slots, Dec
<1>5. Inc(Dec(i)) = i
  BY <1>2, MagFifoAssumption DEF Slots, Inc
<1>6. QED
  BY <1>1, <1>3, <1>4, <1>5

\* How far one slot is from another one.
LEMMA Distance ==
  ASSUME NEW f \in Slots, NEW i \in Slots
  PROVE  (i - f + N) % N = IF f <= i THEN i - f ELSE i - f + N
BY MagFifoAssumption DEF Slots

\* The filled slots lie between the decode thread's and the reader's.
LEMMA FilledSlots ==
  ASSUME first_free \in Slots, first_filled \in Slots
  PROVE  /\ first_free \notin Filled /\ Dec(first_filled) \notin Filled
         /\ first_filled # first_free => first_filled \in Filled /\ LastSlot \in Filled
         /\ first_filled = first_free => Filled = {}
         /\ \A i \in Filled : /\ i # first_filled => Dec(i) \in Filled /\ Pos(Dec(i)) = Pos(i) - 1
                              /\ Pos(i) <= Pos(LastSlot)
<1> DEFINE D(f, i) == IF f <= i THEN i - f ELSE i - f + N
<1>1. \A i \in Slots : Pos(i) = D(first_filled, i)
  BY Distance DEF Pos
<1>2. Filled = {i \in Slots : D(first_filled, i) < D(first_filled, first_free)}
  BY Distance DEF Filled
<1>3. \A i \in Slots : Dec(i) = IF i = 0 THEN N - 1 ELSE i - 1
  BY MagFifoAssumption DEF Slots, Dec
<1>4. \A i \in Slots : Dec(i) \in Slots
  BY Ring
<1>5. first_free \notin Filled /\ Dec(first_filled) \notin Filled
  BY <1>2, <1>3, MagFifoAssumption DEF Slots
<1>6. first_filled # first_free => first_filled \in Filled /\ LastSlot \in Filled
  BY <1>2, <1>3, <1>4, MagFifoAssumption DEF Slots, LastSlot
<1>7. first_filled = first_free => Filled = {}
  BY <1>2, MagFifoAssumption DEF Slots
<1>8. ASSUME NEW i \in Filled
      PROVE  /\ i # first_filled => Dec(i) \in Filled /\ Pos(Dec(i)) = Pos(i) - 1
             /\ Pos(i) <= Pos(LastSlot)
  <2>1. i \in Slots /\ D(first_filled, i) < D(first_filled, first_free)
    BY <1>2
  <2>2. ASSUME i # first_filled
        PROVE  Dec(i) \in Filled /\ D(first_filled, Dec(i)) = D(first_filled, i) - 1
    BY <1>2, <1>3, <1>4, <2>1, <2>2, MagFifoAssumption DEF Slots
  <2>3. D(first_filled, i) <= D(first_filled, LastSlot)
    BY <1>3, <2>1, MagFifoAssumption DEF Slots, LastSlot
  <2>4. LastSlot \in Slots
    BY <1>4 DEF LastSlot
  <2>5. QED
    BY <1>1, <1>4, <2>1, <2>2, <2>3, <2>4
<1>9. QED
  BY <1>5, <1>6, <1>7, <1>8

\* No two slots are equally far.
LEMMA Positions ==
  ASSUME first_filled \in Slots
  PROVE  /\ \A i \in Slots : Pos(i) \in 0..(N - 1) /\ (Pos(i) = 0 <=> i = first_filled)
         /\ \A i, j \in Slots : Pos(i) = Pos(j) => i = j
<1>1. \A i \in Slots : Pos(i) = IF first_filled <= i THEN i - first_filled ELSE i - first_filled + N
  BY Distance DEF Pos
<1>2. QED
  BY <1>1, MagFifoAssumption DEF Slots

\* The reader pushes its slot.
LEMMA PushSlot ==
  ASSUME first_free \in Slots, first_filled \in Slots, Inc(first_free) # first_filled,
         first_free' = Inc(first_free), first_filled' = first_filled
  PROVE  /\ Filled' = Filled \union {first_free}
         /\ \A i \in Slots : Pos(i)' = Pos(i)
         /\ \A i \in Filled : Pos(i) < Pos(first_free)
         /\ Inc(first_free) \notin Filled
<1> DEFINE D(f, i) == IF f <= i THEN i - f ELSE i - f + N
<1>1. first_free' \in Slots /\ first_free' = IF first_free = N - 1 THEN 0 ELSE first_free + 1
  BY Ring
<1>2. \A i \in Slots : Pos(i) = D(first_filled, i) /\ Pos(i)' = Pos(i)
  BY Distance DEF Pos
<1>3. Filled = {i \in Slots : D(first_filled, i) < D(first_filled, first_free)}
  BY Distance DEF Filled
<1>4. Filled' = {i \in Slots : D(first_filled, i) < D(first_filled, first_free')}
  BY <1>1, Distance DEF Filled
<1>5. D(first_filled, first_free') = D(first_filled, first_free) + 1
  BY <1>1, MagFifoAssumption DEF Slots
<1>6. \A i \in Slots : /\ D(first_filled, i) \in Int
                      /\ D(first_filled, i) = D(first_filled, first_free) => i = first_free
  BY MagFifoAssumption DEF Slots
<1>7. Filled' = Filled \union {first_free}
  <2>1. first_free \in Slots
    OBVIOUS
  <2>2. \A i \in Slots : D(first_filled, i) < D(first_filled, first_free) + 1
           <=> D(first_filled, i) < D(first_filled, first_free) \/ i = first_free
    BY MagFifoAssumption DEF Slots
  <2>3. Filled' = {i \in Slots : D(first_filled, i) < D(first_filled, first_free) + 1}
    BY <1>4, <1>5
  <2>4. QED
    BY <1>3, <2>1, <2>2, <2>3
<1>8. Inc(first_free) \notin Filled
  BY <1>1, <1>3, MagFifoAssumption DEF Slots
<1>9. QED
  BY <1>2, <1>3, <1>7, <1>8

\* The decode thread hands its slot back.
LEMMA ReleaseSlot ==
  ASSUME first_free \in Slots, first_filled \in Slots, first_filled # first_free,
         first_free' = first_free, first_filled' = Inc(first_filled)
  PROVE  /\ Filled' = Filled \ {first_filled}
         /\ \A i \in Filled' : Pos(i)' = Pos(i) - 1
<1> DEFINE D(f, i) == IF f <= i THEN i - f ELSE i - f + N
<1>1. first_filled' \in Slots /\ first_filled' = IF first_filled = N - 1 THEN 0 ELSE first_filled + 1
  BY Ring
<1>2. \A i \in Slots : Pos(i) = D(first_filled, i) /\ Pos(i)' = D(first_filled', i)
  BY <1>1, Distance DEF Pos
<1>3. Filled = {i \in Slots : D(first_filled, i) < D(first_filled, first_free)}
  BY Distance DEF Filled
<1>4. Filled' = {i \in Slots : D(first_filled', i) < D(first_filled', first_free)}
  BY <1>1, Distance DEF Filled
<1>5. \A i \in Slots : i # first_filled => D(first_filled', i) = D(first_filled, i) - 1
  BY <1>1, MagFifoAssumption DEF Slots
<1>6. D(first_filled', first_filled) = N - 1 /\ \A i \in Slots : D(first_filled', i) \in 0..(N - 1)
  BY <1>1, MagFifoAssumption DEF Slots
<1>7. Filled' = Filled \ {first_filled}
  <2>1. first_filled \notin Filled'
    BY <1>4, <1>6, MagFifoAssumption DEF Slots
  <2>2. \A i \in Slots : i # first_filled => (i \in Filled' <=> i \in Filled)
    BY <1>3, <1>4, <1>5, <1>6, MagFifoAssumption DEF Slots
  <2>3. Filled \subseteq Slots /\ Filled' \subseteq Slots
    BY <1>3, <1>4
  <2>4. QED
    BY <2>1, <2>2, <2>3
<1>8. \A i \in Filled' : Pos(i)' = Pos(i) - 1
  BY <1>2, <1>3, <1>5, <1>7
<1>9. QED
  BY <1>7, <1>8

-----------------------------------------------------------------------------
(* The indices.                                                            *)

\* What a buffer holds after it was filled, or reset.
LEMMA BufferType ==
  ASSUME NEW b \in Buffer, NEW id \in 0..MaxBlocks, NEW ov \in 0..MaxBlocks,
         NEW len \in 0..Full, NEW time \in Nat
  PROVE  /\ [b EXCEPT !.block = id, !.overlap = ov, !.length = len, !.stamp = time] \in Buffer
         /\ [b EXCEPT !.dropped = 0, !.length = 0] \in Buffer
<1>1. 0 \in 0..Full
  BY MagFifoAssumption
<1>2. QED
  BY <1>1 DEF Buffer

\* Initially the ring is empty.
LEMMA InitControl == Init => Control
<1> SUFFICES ASSUME Init PROVE Control
  OBVIOUS
<1>1. 0 \in Slots /\ EmptyBuf \in Buffer
  BY MagFifoAssumption DEF Slots, EmptyBuf, Buffer
<1>2. TypeOK
  <2>1. mag \in [Slots -> Buffer] /\ block \in [id : 0..MaxBlocks, len : Nat, cut : BOOLEAN]
    BY <1>1, MagFifoAssumption DEF Init
  <2>2. source \in Sources /\ free_bufs \in 0..(N - 1) /\ watchdog \in 0..WatchdogStart /\ lastDemod \in 0..MaxBlocks
    BY MagFifoAssumption DEF Init
  <2>3. QED
    BY <1>1, <2>1, <2>2 DEF Init, TypeOK
<1>3. Reserved /\ Taken /\ Lengths
  BY MagFifoAssumption DEF Init, Reserved, Taken, Lengths, Demodulating, UsbHolding, FileHolding,
     FileLoop
<1>4. QED
  BY <1>2, <1>3 DEF Control

\* Every step preserves the types and what ties the two threads to their slots.
LEMMA ControlStep ==
  ASSUME Control, [Next]_vars
  PROVE  Control'
<1> USE DEF Control
<1>1. CASE UsbBlock
  <2>1. TypeOK'
    <3>1. Driver.keepsMutex \in BOOLEAN
      BY DEF Driver, rtlsdrCallback, soapyRun, hackrfCallback, plutosdrCallback
    <3>2. (first_filled - Inc(first_free) + N) % N \in 0..(N - 1) /\ Inc(first_free) \in Slots
      <4>1. first_filled \in Slots /\ Inc(first_free) \in Slots
        BY Ring DEF TypeOK
      <4>2. QED
        BY <4>1, MagFifoAssumption DEF Slots
    <3>3. PICK len \in BlockLengths : /\ block' = [block EXCEPT !.id = @ + 1, !.len = len]
                                       /\ delivered' = delivered + len
      BY <1>1 DEF UsbBlock
    <3>4. block' \in [id : 0..MaxBlocks, len : Nat, cut : BOOLEAN] /\ delivered' \in Nat
      <4>1. len \in Nat /\ block.id + 1 \in 0..MaxBlocks
        BY <1>1, MagFifoAssumption DEF UsbBlock, TypeOK
      <4>2. block' \in [id : 0..MaxBlocks, len : Nat, cut : BOOLEAN]
        BY <3>3, <4>1 DEF TypeOK
      <4>3. QED
        BY <3>3, <4>1, <4>2 DEF TypeOK
    <3>5. QED
      BY <1>1, <3>1, <3>2, <3>4 DEF UsbBlock, ring, reader, decoder, program, TypeOK
  <2>6. (first_filled - Inc(first_free) + N) % N # 0 => Inc(first_free) # first_filled
    BY MagFifoAssumption, Ring DEF TypeOK, Slots
  <2>2. Reserved'
    BY <1>1, <2>6 DEF UsbBlock, ring, Reserved, UsbHolding, FileHolding
  <2>3. Taken'
    BY <1>1, MagFifoAssumption, Ring DEF UsbBlock, ring, reader, decoder, program, Taken,
       Demodulating, TypeOK, UsbHolding, FileHolding, FileLoop
  <2>4. Lengths'
    BY <1>1, MagFifoAssumption, Ring DEF UsbBlock, ring, reader, decoder, program, Lengths, TypeOK,
       UsbHolding, FileHolding, FileLoop
  <2>5. QED
    BY <2>1, <2>2, <2>3, <2>4
<1>2. CASE UsbSize
  <2>1. TypeOK'
    <3> DEFINE discard == IF block.len > Full THEN block.len - Full ELSE 0
    <3>1. discard \in Nat /\ block.len - discard \in Nat
      BY MagFifoAssumption DEF TypeOK
    <3>2. block' \in [id : 0..MaxBlocks, len : Nat, cut : BOOLEAN]
      BY <1>2, <3>1 DEF UsbSize, TypeOK
    <3>3. [mag[out] EXCEPT !.dropped = @ + discard] \in Buffer
      BY <3>1 DEF TypeOK, Buffer
    <3>4. mag' \in [Slots -> Buffer]
      BY <1>2, <3>3 DEF UsbSize, TypeOK
    <3>5. QED
      BY <1>2, <3>2, <3>4 DEF UsbSize, ring, reader, decoder, program, TypeOK
  <2>2. Reserved'
    BY <1>2, MagFifoAssumption, Ring DEF UsbSize, ring, reader, decoder, program, Reserved, TypeOK,
       UsbHolding, FileHolding, FileLoop
  <2>3. Taken'
    BY <1>2, MagFifoAssumption, Ring DEF UsbSize, ring, reader, decoder, program, Taken,
       Demodulating, TypeOK, UsbHolding, FileHolding, FileLoop
  <2>4. Lengths'
    BY <1>2, MagFifoAssumption, Ring DEF UsbSize, ring, reader, decoder, program, Lengths, TypeOK,
       UsbHolding, FileHolding, FileLoop
  <2>5. QED
    BY <2>1, <2>2, <2>3, <2>4
<1>3. CASE UsbDrop
  <2>1. TypeOK'
    <3>1. [mag[out] EXCEPT !.dropped = @ + block.len] \in Buffer
      BY DEF TypeOK, Buffer
    <3>2. mag' \in [Slots -> Buffer]
      BY <1>3, <3>1 DEF UsbDrop, TypeOK
    <3>3. sampleCounter' \in Nat /\ dpc' \in {dpc, "top"}
      BY <1>3 DEF UsbDrop, WakeDecode, TypeOK
    <3>4. QED
      BY <1>3, <3>2, <3>3 DEF UsbDrop, DecoderIdle, ring, reader, decoder, program, TypeOK
  <2>2. Reserved'
    BY <1>3, MagFifoAssumption, Ring DEF UsbDrop, WakeDecode, DecoderIdle, ring, reader, decoder,
       program, Reserved, TypeOK, UsbHolding, FileHolding, FileLoop
  <2>3. Taken'
    BY <1>3, MagFifoAssumption, Ring DEF UsbDrop, WakeDecode, DecoderIdle, ring, reader, decoder,
       program, Taken, Demodulating, TypeOK, UsbHolding, FileHolding, FileLoop
  <2>4. Lengths'
    BY <1>3, MagFifoAssumption, Ring DEF UsbDrop, WakeDecode, DecoderIdle, ring, reader, decoder,
       program, Lengths, TypeOK, UsbHolding, FileHolding, FileLoop
  <2>5. QED
    BY <2>1, <2>2, <2>3, <2>4
<1>4. CASE UsbFill
  <2>1. TypeOK'
    <3>1. TailOf(Dec(out)) \in 0..MaxBlocks
      BY Ring DEF TailOf, TypeOK, Buffer
    <3>2. [mag[out] EXCEPT !.block = block.id,
                           !.overlap = IF mag[out].dropped = 0 THEN TailOf(Dec(out)) ELSE 0,
                           !.length = block.len,
                           !.stamp = sampleCounter] \in Buffer
      <4>1. mag[out] \in Buffer /\ block.id \in 0..MaxBlocks /\ block.len \in 0..Full /\ sampleCounter \in Nat
        BY <1>4 DEF UsbFill, TypeOK, Lengths
      <4>2. (IF mag[out].dropped = 0 THEN TailOf(Dec(out)) ELSE 0) \in 0..MaxBlocks
        BY <3>1, MagFifoAssumption
      <4>3. QED
        BY <4>1, <4>2, BufferType
    <3>3. mag' \in [Slots -> Buffer]
      BY <1>4, <3>2 DEF UsbFill, TypeOK
    <3>4. sampleCounter' \in Nat
      BY <1>4 DEF UsbFill, TypeOK
    <3>5. QED
      BY <1>4, <3>3, <3>4 DEF UsbFill, ring, reader, decoder, program, TypeOK
  <2>2. Reserved'
    BY <1>4, MagFifoAssumption, Ring DEF UsbFill, TailOf, ring, reader, decoder, program, Reserved,
       TypeOK, UsbHolding, FileHolding, FileLoop
  <2>3. Taken'
    BY <1>4, MagFifoAssumption, Ring DEF UsbFill, TailOf, ring, reader, decoder, program, Taken,
       Demodulating, TypeOK, UsbHolding, FileHolding, FileLoop
  <2>4. Lengths'
    BY <1>4, MagFifoAssumption, Ring DEF UsbFill, TailOf, ring, reader, decoder, program, Lengths,
       TypeOK, UsbHolding, FileHolding, FileLoop
  <2>5. QED
    BY <2>1, <2>2, <2>3, <2>4
<1>5. CASE UsbPush
  <2>1. TypeOK'
    <3>1. [mag[next] EXCEPT !.dropped = 0, !.length = 0] \in Buffer
      <4>1. mag[next] \in Buffer /\ 0 \in 0..MaxBlocks /\ 0 \in 0..Full
        BY MagFifoAssumption DEF TypeOK
      <4>2. QED
        BY <4>1, BufferType
    <3>2. mag' = [mag EXCEPT ![next] = [mag[next] EXCEPT !.dropped = 0, !.length = 0]]
      BY <1>5 DEF UsbPush, TypeOK
    <3>3. mag' \in [Slots -> Buffer]
      BY <3>1, <3>2 DEF TypeOK
    <3>4. QED
      BY <1>5, <3>3 DEF UsbPush, WakeDecode, DecoderIdle, ring, reader, decoder, program, TypeOK
  <2>2. Reserved'
    BY <1>5, MagFifoAssumption, Ring DEF UsbPush, WakeDecode, DecoderIdle, ring, reader, decoder,
       program, Reserved, TypeOK, UsbHolding, FileHolding, FileLoop
  <2>3. Taken'
    BY <1>5 DEF UsbPush, WakeDecode, DecoderIdle, Taken, Demodulating, Reserved, TypeOK
  <2>4. Lengths'
    BY <1>5, MagFifoAssumption, Ring DEF UsbPush, WakeDecode, DecoderIdle, ring, reader, decoder,
       program, Lengths, TypeOK, UsbHolding, FileHolding, FileLoop
  <2>5. QED
    BY <2>1, <2>2, <2>3, <2>4
<1>6. CASE UsbReturn
  BY <1>6, MagFifoAssumption, Ring DEF UsbReturn, ring, reader, decoder, program, TypeOK, Reserved,
     Taken, Lengths, Demodulating, UsbHolding, FileHolding, FileLoop
<1>7. CASE FileWait
  BY <1>7, MagFifoAssumption, Ring DEF FileWait, ring, reader, decoder, program, TypeOK, Reserved,
     Taken, Lengths, Demodulating, UsbHolding, FileHolding, FileLoop
<1>8. CASE FileTimeout
  BY <1>8, MagFifoAssumption, Ring DEF FileTimeout, ring, reader, decoder, program, TypeOK,
     Reserved, Taken, Lengths, Demodulating, UsbHolding, FileHolding, FileLoop
<1>9. CASE FileTake
  BY <1>9, MagFifoAssumption, Ring DEF FileTake, ring, reader, decoder, program, TypeOK, Reserved,
     Taken, Lengths, Demodulating, UsbHolding, FileHolding, FileLoop
<1>10. CASE FileFill
  <2>1. TypeOK'
    <3>1. PICK len \in 0..Full :
             /\ block' = [block EXCEPT !.id = @ + 1, !.len = len]
             /\ delivered' = delivered + len /\ sampleCounter' = sampleCounter + len
             /\ mag' = [mag EXCEPT ![out] =
                           [@ EXCEPT !.block = block.id + 1,
                                     !.overlap = IF mag[Dec(out)].length >= Trailing
                                                 THEN TailOf(Dec(out)) ELSE 0,
                                     !.length = len,
                                     !.stamp = sampleCounter]]
      BY <1>10 DEF FileFill
    <3>2. len \in Nat /\ block.id + 1 \in 0..MaxBlocks
      BY <1>10, MagFifoAssumption DEF FileFill, TypeOK, Lengths, FileLoop
    <3>3. TailOf(Dec(out)) \in 0..MaxBlocks
      BY Ring DEF TailOf, TypeOK, Buffer
    <3>4. [mag[out] EXCEPT !.block = block.id + 1,
                           !.overlap = IF mag[Dec(out)].length >= Trailing
                                       THEN TailOf(Dec(out)) ELSE 0,
                           !.length = len,
                           !.stamp = sampleCounter] \in Buffer
      <4>1. mag[out] \in Buffer /\ sampleCounter \in Nat
        BY DEF TypeOK
      <4>2. (IF mag[Dec(out)].length >= Trailing THEN TailOf(Dec(out)) ELSE 0) \in 0..MaxBlocks
        BY <3>3, MagFifoAssumption
      <4>3. QED
        BY <3>2, <4>1, <4>2, BufferType
    <3>5. mag' \in [Slots -> Buffer]
      BY <3>1, <3>4 DEF TypeOK
    <3>6. block' \in [id : 0..MaxBlocks, len : Nat, cut : BOOLEAN] /\ delivered' \in Nat /\ sampleCounter' \in Nat
      <4>1. block' \in [id : 0..MaxBlocks, len : Nat, cut : BOOLEAN]
        BY <3>1, <3>2 DEF TypeOK
      <4>2. QED
        BY <3>1, <3>2, <4>1 DEF TypeOK
    <3>7. QED
      BY <1>10, <3>5, <3>6 DEF FileFill, ring, reader, decoder, program, TypeOK
  <2>2. Reserved'
    BY <1>10, MagFifoAssumption, Ring DEF FileFill, TailOf, ring, reader, decoder, program,
       Reserved, TypeOK, UsbHolding, FileHolding, FileLoop
  <2>3. Taken'
    BY <1>10, MagFifoAssumption, Ring DEF FileFill, TailOf, ring, reader, decoder, program, Taken,
       Demodulating, TypeOK, UsbHolding, FileHolding, FileLoop
  <2>4. Lengths'
    BY <1>10, MagFifoAssumption, Ring DEF FileFill, TailOf, ring, reader, decoder, program,
       Lengths, TypeOK, UsbHolding, FileHolding, FileLoop
  <2>5. QED
    BY <2>1, <2>2, <2>3, <2>4
<1>11. CASE FilePush
  BY <1>11, MagFifoAssumption, Ring DEF FilePush, WakeDecode, DecoderIdle, ring, reader, decoder,
     program, TypeOK, Reserved, Taken, Lengths, Demodulating, UsbHolding, FileHolding, FileLoop
<1>12. CASE FileStop
  BY <1>12, MagFifoAssumption, Ring DEF FileStop, ring, reader, decoder, program, TypeOK, Reserved,
     Taken, Lengths, Demodulating, UsbHolding, FileHolding, FileLoop
<1>13. CASE FileDrain
  BY <1>13, MagFifoAssumption, Ring DEF FileDrain, WakeDecode, DecoderIdle, ring, reader, decoder,
     program, TypeOK, Reserved, Taken, Lengths, Demodulating, UsbHolding, FileHolding, FileLoop
<1>14. CASE FileDrainTimeout
  BY <1>14, MagFifoAssumption, Ring DEF FileDrainTimeout, ring, reader, decoder, program, TypeOK,
     Reserved, Taken, Lengths, Demodulating, UsbHolding, FileHolding, FileLoop
<1>15. CASE FileEnd
  BY <1>15, MagFifoAssumption, Ring DEF FileEnd, ring, reader, decoder, program, TypeOK, Reserved,
     Taken, Lengths, Demodulating, UsbHolding, FileHolding, FileLoop
<1>16. CASE DecodeTake
  <2>1. TypeOK'
    <3>1. dpc = "top" /\ watchdog # 0 /\ watchdog - 1 \in 0..WatchdogStart
      BY <1>16, MagFifoAssumption DEF DecodeTake, DGoto, TypeOK, Taken
    <3>2. CASE first_free # first_filled
      BY <1>16, <3>1, <3>2 DEF DecodeTake, DGoto, ring, reader, decoder, program, TypeOK
    <3>3. CASE first_free = first_filled
      BY <1>16, <3>1, <3>3 DEF DecodeTake, DGoto, ring, reader, decoder, program, TypeOK
    <3>4. QED
      BY <3>2, <3>3
  <2>2. Reserved'
    BY <1>16, MagFifoAssumption, Ring DEF DecodeTake, DGoto, ring, reader, decoder, program,
       Reserved, TypeOK, UsbHolding, FileHolding, FileLoop
  <2>3. Taken'
    BY <1>16, MagFifoAssumption, Ring DEF DecodeTake, DGoto, ring, reader, decoder, program, Taken,
       Demodulating, TypeOK, UsbHolding, FileHolding, FileLoop
  <2>4. Lengths'
    BY <1>16, MagFifoAssumption, Ring DEF DecodeTake, DGoto, ring, reader, decoder, program,
       Lengths, TypeOK, UsbHolding, FileHolding, FileLoop
  <2>5. QED
    BY <2>1, <2>2, <2>3, <2>4
<1>17. CASE Demodulate
  <2>1. /\ mag[buf].block \in 0..MaxBlocks /\ mag[buf].dropped \in Nat
        /\ mag[buf].length \in Nat /\ Full - mag[buf].length \in Nat
    BY MagFifoAssumption DEF TypeOK, Buffer
  <2>2. processed' \in Nat /\ samples_dropped' \in Nat /\ lastDemod' \in 0..MaxBlocks /\ lossSeen' \in Nat
    BY <1>17, <2>1, MagFifoAssumption DEF Demodulate, TypeOK
  <2>3. QED
    BY <1>17, <2>2 DEF Demodulate, DGoto, ring, reader, decoder, program, TypeOK, Reserved, Taken,
       Lengths,
       Demodulating
<1>18. CASE Release
  BY <1>18, MagFifoAssumption, Ring DEF Release, DGoto, ring, reader, decoder, program, TypeOK,
     Reserved, Taken, Lengths, Demodulating, UsbHolding, FileHolding, FileLoop
<1>19. CASE Account
  <2>1. /\ mag[buf].block \in 0..MaxBlocks /\ mag[buf].dropped \in Nat
        /\ mag[buf].length \in Nat /\ Full - mag[buf].length \in Nat
    BY MagFifoAssumption DEF TypeOK, Buffer
  <2>2. lost' \in Nat /\ watchdog' \in 0..WatchdogStart /\ watchdog' # 0
    BY <1>19, <2>1, MagFifoAssumption DEF Account, TypeOK
  <2>3. QED
    BY <1>19, <2>2 DEF Account, DGoto, ring, reader, decoder, program, TypeOK, Reserved, Taken,
       Lengths,
       Demodulating
<1>20. CASE Background
  BY <1>20, MagFifoAssumption, Ring DEF Background, DGoto, ring, reader, decoder, program, TypeOK,
     Reserved, Taken, Lengths, Demodulating, UsbHolding, FileHolding, FileLoop
<1>21. CASE DecodeWait
  BY <1>21, MagFifoAssumption, Ring DEF DecodeWait, DGoto, DecoderIdle, ring, reader, decoder,
     program, TypeOK, Reserved, Taken, Lengths, Demodulating, UsbHolding, FileHolding, FileLoop
<1>22. CASE DecodeTimeout
  BY <1>22, MagFifoAssumption, Ring DEF DecodeTimeout, DGoto, DecoderIdle, ring, reader, decoder,
     program, TypeOK, Reserved, Taken, Lengths, Demodulating, UsbHolding, FileHolding, FileLoop
<1>23. CASE DecodeExit
  BY <1>23, MagFifoAssumption, Ring DEF DecodeExit, DGoto, DecoderIdle, ring, reader, decoder,
     program, TypeOK, Reserved, Taken, Lengths, Demodulating, UsbHolding, FileHolding, FileLoop
<1>24. CASE ExitRequest
  BY <1>24, MagFifoAssumption, Ring DEF ExitRequest, ring, reader, decoder, program, TypeOK,
     Reserved, Taken, Lengths, Demodulating, UsbHolding, FileHolding, FileLoop
<1>25. CASE MainExit
  BY <1>25, MagFifoAssumption, Ring DEF MainExit, ring, reader, decoder, program, TypeOK, Reserved,
     Taken, Lengths, Demodulating, UsbHolding, FileHolding, FileLoop
<1>26. CASE UNCHANGED vars
  BY <1>26 DEF vars, ring, reader, decoder, program, TypeOK, Reserved, Taken, Lengths,
     Demodulating, UsbHolding, FileHolding, FileLoop
<1>27. QED
  BY <1>1, <1>2, <1>3, <1>4, <1>5, <1>6, <1>7, <1>8, <1>9, <1>10, <1>11, <1>12, <1>13, <1>14,
     <1>15, <1>16, <1>17, <1>18, <1>19, <1>20, <1>21, <1>22, <1>23, <1>24, <1>25, <1>26 DEF Next,
     Usb, File, Decode

-----------------------------------------------------------------------------
(* The stream.                                                             *)

\* What is known of each buffer.
LEMMA Fields ==
  ASSUME Control, NEW i \in Slots
  PROVE  /\ mag[i].block \in Nat /\ mag[i].overlap \in Nat /\ mag[i].length \in Nat
         /\ mag[i].dropped \in Nat /\ mag[i].length <= Full
BY MagFifoAssumption DEF Control, TypeOK, Buffer

\* The buffers that wait; the last one of them was pushed last.
LEMMA PendingSlots ==
  ASSUME Control
  PROVE  /\ Pending = IF dpc = "release" THEN Filled \ {first_filled} ELSE Filled
         /\ Pending \subseteq Filled /\ Filled \subseteq Slots
         /\ Pending # {} => LastSlot \in Pending
         /\ \A i \in Pending : Pos(i) <= Pos(LastSlot)
         /\ LastSlot \in Slots /\ LastSlot # first_free
<1>1. first_free \in Slots /\ first_filled \in Slots
  BY DEF Control, TypeOK
<1>2. /\ Pending = IF dpc = "release" THEN Filled \ {first_filled} ELSE Filled
      /\ Filled \subseteq Slots
  BY DEF Pending, Control, Taken, Demodulating, Filled
<1>3. LastSlot \in Slots /\ LastSlot # first_free
  BY <1>1, Ring DEF LastSlot
<1>4. \A i \in Pending : Pos(i) <= Pos(LastSlot)
  BY <1>1, <1>2, FilledSlots
<1>5. ASSUME Pending # {}
      PROVE  LastSlot \in Pending
  <2>1. PICK i \in Pending : i \in Filled /\ (dpc = "release" => i # first_filled)
    BY <1>2, <1>5
  <2>2. first_filled # first_free
    BY <1>1, <2>1, FilledSlots
  <2>3. LastSlot \in Filled
    BY <1>1, <2>2, FilledSlots
  <2>4. CASE dpc = "release"
    <3>1. Pos(i) \in 0..(N - 1) /\ Pos(i) # 0
      BY <1>1, <1>2, <2>1, <2>4, Positions
    <3>2. Pos(first_filled) = 0
      BY <1>1, Positions
    <3>3. LastSlot # first_filled
      BY <1>1, <1>4, <2>1, <3>1, <3>2, MagFifoAssumption
    <3>4. QED
      BY <1>2, <2>3, <3>3
  <2>5. QED
    BY <1>2, <2>3, <2>4
<1>6. QED
  BY <1>2, <1>3, <1>4, <1>5

\* a step that leaves what waits in the ring as it is
RingStays ==
    /\ UNCHANGED <<first_free, first_filled, lastDemod>> /\ Pending' = Pending
    /\ \A i \in Slots \ {first_free} : mag'[i] = mag[i]

\* The order of what waits does not depend on the reader's slot.
LEMMA Staying ==
  ASSUME Control, Ordered, Flagged, OverlapContinuous, RingStays
  PROVE  Ordered' /\ Flagged' /\ OverlapContinuous'
<1>1. \A i \in Pending : i \in Slots /\ Dec(i) \in Slots /\ mag'[i] = mag[i]
  BY PendingSlots, FilledSlots, Ring DEF Control, TypeOK, RingStays
<1>2. \A i \in Slots : Pos(i)' = Pos(i)
  BY DEF RingStays, Pos
<1>3. \A i \in Pending : Previous(i)' = Previous(i)
  BY <1>1 DEF RingStays, Previous
<1>4. Ordered'
  BY <1>1, <1>2 DEF RingStays, Ordered
<1>5. Flagged'
  BY <1>1, <1>3 DEF RingStays, Flagged
<1>6. OverlapContinuous'
  BY <1>1 DEF RingStays, OverlapContinuous
<1>7. QED
  BY <1>4, <1>5, <1>6

\* The reader pushes a block that is newer than all that wait.
LEMMA Pushing ==
  ASSUME Control, Ordered, Flagged, OverlapContinuous,
         Pending = {} => mag[LastSlot].block = lastDemod,
         Inc(first_free) # first_filled, first_free' = Inc(first_free),
         UNCHANGED <<first_filled, lastDemod, buf>>, dpc' = "release" <=> dpc = "release",
         \A i \in Slots \ {Inc(first_free)} : mag'[i] = mag[i],
         mag[LastSlot].block < mag[first_free].block,
         mag[LastSlot].block + 1 < mag[first_free].block => mag[first_free].dropped > 0,
         mag[first_free].overlap = IF mag[first_free].dropped = 0 THEN mag[first_free].block - 1 ELSE 0
  PROVE  Ordered' /\ Flagged' /\ OverlapContinuous' /\ Pending' # {}
<1>1. first_free \in Slots /\ first_filled \in Slots
  BY DEF Control, TypeOK
<1>2. /\ Filled' = Filled \union {first_free}
      /\ \A i \in Slots : Pos(i)' = Pos(i)
      /\ \A i \in Filled : Pos(i) < Pos(first_free)
      /\ Inc(first_free) \notin Filled /\ Inc(first_free) # first_free
  BY <1>1, PushSlot, Ring
<1>3. Pending' = Pending \union {first_free} /\ first_free \notin Pending
  <2>1. dpc = "release" => buf = first_filled /\ buf # first_free
    BY DEF Control, Taken, Demodulating
  <2>2. first_free \notin Filled
    BY <1>1, FilledSlots
  <2>3. QED
    BY <1>2, <2>1, <2>2 DEF Pending
<1>4. \A i \in Pending : i \in Slots /\ i \in Filled /\ Dec(i) \in Slots /\ Dec(i) # first_free /\ mag'[i] = mag[i]
  BY <1>2, PendingSlots, Ring
<1>5. mag'[first_free] = mag[first_free]
  BY <1>1, <1>2
<1>6. \A i \in Pending : lastDemod < mag[LastSlot].block /\ mag[i].block <= mag[LastSlot].block
  <2>1. SUFFICES ASSUME NEW i \in Pending
                 PROVE  lastDemod < mag[LastSlot].block /\ mag[i].block <= mag[LastSlot].block
    OBVIOUS
  <2>2. LastSlot \in Pending /\ Pos(i) <= Pos(LastSlot)
    BY <2>1, PendingSlots
  <2>3. lastDemod < mag[LastSlot].block
    BY <2>2 DEF Ordered
  <2>4. CASE Pos(i) = Pos(LastSlot)
    <3>1. i = LastSlot
      BY <1>1, <1>4, <2>1, <2>2, <2>4, PendingSlots, Positions
    <3>2. QED
      BY <1>4, <2>1, <2>3, <3>1, Fields
  <2>5. CASE Pos(i) # Pos(LastSlot)
    <3>1. Pos(i) \in Int /\ Pos(LastSlot) \in Int
      BY <1>1, <1>4, <2>1, PendingSlots, Positions, MagFifoAssumption
    <3>2. mag[i].block < mag[LastSlot].block
      BY <2>1, <2>2, <2>5, <3>1 DEF Ordered
    <3>3. mag[i].block \in Nat /\ mag[LastSlot].block \in Nat
      BY <1>4, <2>1, Fields, PendingSlots
    <3>4. QED
      BY <2>3, <3>2, <3>3
  <2>6. QED
    BY <2>4, <2>5
<1>7. /\ lastDemod < mag[first_free].block
      /\ \A i \in Pending : mag[i].block < mag[first_free].block
  <2>1. mag[LastSlot].block \in Nat /\ mag[first_free].block \in Nat /\ lastDemod \in Nat
    BY <1>1, Fields, PendingSlots, MagFifoAssumption DEF Control, TypeOK
  <2>2. \A i \in Pending : mag[i].block \in Nat
    BY <1>4, Fields
  <2>3. CASE Pending = {}
    BY <2>1, <2>3
  <2>4. CASE Pending # {}
    BY <1>6, <2>1, <2>2, <2>4
  <2>5. QED
    BY <2>3, <2>4
<1>8. Ordered'
  <2>1. \A i \in Pending' : lastDemod' < mag'[i].block
    BY <1>3, <1>4, <1>5, <1>7 DEF Ordered
  <2>2. ASSUME NEW i \in Pending', NEW j \in Pending', Pos(j)' < Pos(i)'
        PROVE  mag'[j].block < mag'[i].block
    <3>1. i \in Slots /\ j \in Slots
      BY <1>1, <1>3, <1>4
    <3>2. Pos(j) < Pos(i) /\ Pos(i) \in Int /\ Pos(j) \in Int
      BY <1>1, <1>2, <2>2, <3>1, Positions, MagFifoAssumption
    <3>3. CASE i \in Pending /\ j \in Pending
      BY <1>4, <3>2, <3>3 DEF Ordered
    <3>4. CASE i = first_free /\ j \in Pending
      BY <1>4, <1>5, <1>7, <3>4
    <3>5. CASE j = first_free
      <4>1. i \in Pending => Pos(i) < Pos(j)
        BY <1>2, <1>4, <3>5
      <4>2. QED
        BY <1>3, <2>2, <3>2, <3>5, <4>1
    <3>6. QED
      BY <1>3, <2>2, <3>3, <3>4, <3>5
  <2>3. QED
    BY <2>1, <2>2 DEF Ordered
<1>9. Flagged'
  <2>1. Dec(first_free) = LastSlot /\ LastSlot # first_free
    BY PendingSlots DEF LastSlot
  <2>2. ASSUME NEW i, i = first_free
        PROVE  Previous(i)' = mag[LastSlot].block
    <3>1. LastSlot \in Pending' <=> LastSlot \in Pending
      BY <1>3, <2>1
    <3>2. LastSlot \in Pending => mag'[LastSlot] = mag[LastSlot]
      BY <1>4
    <3>3. LastSlot \notin Pending => mag[LastSlot].block = lastDemod
      BY PendingSlots
    <3>4. Previous(i)' = IF Dec(i) \in Pending' THEN mag'[Dec(i)].block ELSE lastDemod'
      BY DEF Previous
    <3>5. QED
      BY <2>1, <2>2, <3>1, <3>2, <3>3, <3>4
  <2>3. \A i \in Pending : Previous(i)' = Previous(i)
    BY <1>3, <1>4 DEF Previous
  <2>4. SUFFICES ASSUME NEW i \in Pending'
                 PROVE  mag'[i].block > Previous(i)' + 1 => mag'[i].dropped > 0
    BY DEF Flagged
  <2>5. CASE i = first_free
    BY <1>1, <1>5, <2>2, <2>5, Fields, PendingSlots
  <2>6. CASE i \in Pending
    BY <1>4, <2>3, <2>6 DEF Flagged
  <2>7. QED
    BY <1>3, <2>4, <2>5, <2>6
<1>10. OverlapContinuous'
  BY <1>3, <1>4, <1>5 DEF OverlapContinuous
<1>11. QED
  BY <1>3, <1>8, <1>9, <1>10

\* Demodulating a buffer takes the oldest block.
LEMMA Demodulation ==
  ASSUME Control, Ordered, Flagged, OverlapContinuous, Demodulate
  PROVE  /\ Ordered' /\ Flagged' /\ OverlapContinuous'
         /\ Pending' = {} => mag[LastSlot].block = lastDemod'
<1>1. /\ first_free \in Slots /\ first_filled \in Slots /\ buf = first_filled /\ first_filled # first_free
      /\ dpc = "demod" /\ dpc' = "release" /\ lastDemod' = mag[first_filled].block
      /\ UNCHANGED <<first_free, first_filled, mag, buf>>
  BY DEF Demodulate, DGoto, ring, Control, TypeOK, Taken, Demodulating
<1>2. /\ Pending = Filled /\ Filled' = Filled /\ Pending' = Filled \ {first_filled}
      /\ first_filled \in Filled /\ LastSlot \in Filled /\ Filled \subseteq Slots
      /\ \A i \in Slots : Pos(i)' = Pos(i)
  BY <1>1, FilledSlots DEF Pending, Filled, Pos
<1>3. \A i \in Pending' : Pos(first_filled) < Pos(i) /\ mag[first_filled].block < mag[i].block
  <2>1. SUFFICES ASSUME NEW i \in Pending'
                 PROVE  Pos(first_filled) < Pos(i) /\ mag[first_filled].block < mag[i].block
    OBVIOUS
  <2>2. Pos(first_filled) = 0 /\ Pos(i) \in 0..(N - 1) /\ Pos(i) # 0
    BY <1>1, <1>2, Positions
  <2>3. Pos(first_filled) < Pos(i)
    BY <2>2, MagFifoAssumption
  <2>4. QED
    BY <1>2, <2>3 DEF Ordered
<1>4. Ordered'
  BY <1>1, <1>2, <1>3 DEF Ordered
<1>5. \A i \in Pending' : Previous(i)' = Previous(i)
  <2>1. SUFFICES ASSUME NEW i \in Pending'
                 PROVE  Previous(i)' = Previous(i)
    OBVIOUS
  <2>2. Dec(i) \in Filled
    BY <1>1, <1>2, FilledSlots
  <2>3. QED
    BY <1>1, <1>2, <2>2 DEF Previous
<1>6. Flagged'
  BY <1>1, <1>2, <1>5 DEF Flagged
<1>7. OverlapContinuous'
  BY <1>1, <1>2 DEF OverlapContinuous
<1>8. Pending' = {} => mag[LastSlot].block = lastDemod'
  BY <1>1, <1>2
<1>9. QED
  BY <1>4, <1>6, <1>7, <1>8

\* Handing a buffer back leaves the others as they are.
LEMMA Releasing ==
  ASSUME Control, Ordered, Flagged, OverlapContinuous, Release
  PROVE  Ordered' /\ Flagged' /\ OverlapContinuous' /\ Pending' = Pending
<1>1. /\ first_free \in Slots /\ first_filled \in Slots /\ buf = first_filled /\ first_filled # first_free
      /\ dpc = "release" /\ dpc' = "account" /\ first_filled' = Inc(first_filled)
      /\ UNCHANGED <<first_free, mag, buf, lastDemod>>
  BY DEF Release, DGoto, Control, TypeOK, Taken, Demodulating
<1>2. Filled' = Filled \ {first_filled} /\ \A i \in Filled' : Pos(i)' = Pos(i) - 1
  BY <1>1, ReleaseSlot
<1>3. Pending' = Pending /\ Pending = Filled' /\ Pending \subseteq Slots
  BY <1>1, <1>2 DEF Pending, Filled
<1>4. Ordered'
  <2>1. \A i \in Pending : Pos(i) \in 0..(N - 1)
    BY <1>1, <1>3, Positions
  <2>2. \A i, j \in Pending : Pos(j)' < Pos(i)' => Pos(j) < Pos(i)
    BY <1>2, <1>3, <2>1, MagFifoAssumption
  <2>3. QED
    BY <1>1, <1>3, <2>2 DEF Ordered
<1>5. \A i \in Pending : Previous(i)' = Previous(i)
  BY <1>1, <1>3 DEF Previous
<1>6. Flagged'
  BY <1>1, <1>3, <1>5 DEF Flagged
<1>7. OverlapContinuous'
  BY <1>1, <1>3 DEF OverlapContinuous
<1>8. QED
  BY <1>3, <1>4, <1>6, <1>7

\* a step that leaves the ring and what the reader has of it as it is
StreamStays ==
    /\ UNCHANGED <<first_free, first_filled, mag, lastDemod, block>> /\ Pending' = Pending
    /\ \/ rpc' = rpc
       \/ rpc' \in {"closed", "drain", "drainWaiting"}
       \/ rpc \in FileLoop /\ rpc' \in FileLoop

\* Such a step keeps everything.
LEMMA StreamStaying ==
  ASSUME Control, Stream, StreamStays
  PROVE  Stream'
<1>1. Ordered' /\ Flagged' /\ OverlapContinuous'
  BY Staying DEF Stream, StreamStays, RingStays
<1>2. Latest'
  BY DEF Stream, StreamStays, Latest, LastSlot, TailOf, UsbHolding, FileLoop
<1>3. FilledNow'
  BY DEF Stream, StreamStays, FilledNow, FileLoop
<1>4. QED
  BY <1>1, <1>2, <1>3 DEF Stream

\* Initially nothing waits, and there was no block.
LEMMA InitStream == Init => Stream
<1> SUFFICES ASSUME Init PROVE Stream
  OBVIOUS
<1>1. first_free \in Slots /\ first_filled = first_free /\ LastSlot \in Slots
  BY MagFifoAssumption, Ring DEF Init, LastSlot, Slots
<1>2. Filled = {} /\ Pending = {}
  BY <1>1, FilledSlots DEF Init, Pending
<1>3. \A i \in Slots : mag[i] = [block |-> 0, overlap |-> 0, length |-> 0, dropped |-> 0, stamp |-> 0]
  BY DEF Init, EmptyBuf
<1>4. Ordered /\ Flagged /\ OverlapContinuous
  BY <1>2 DEF Ordered, Flagged, OverlapContinuous
<1>5. rpc \in {"usb", "top"} /\ block.id = 0 /\ lastDemod = 0
  BY DEF Init
<1>6. Latest /\ FilledNow
  BY <1>1, <1>3, <1>5 DEF Latest, FilledNow, TailOf, UsbHolding, FileLoop
<1>7. QED
  BY <1>4, <1>6 DEF Stream

\* Every step keeps the blocks in the ring in order, and the reader's next one after them.
LEMMA StreamStep ==
  ASSUME Control, Stream, [Next]_vars
  PROVE  Stream'
<1> USE DEF Stream
<1> DEFINE Fits == first_free \in Slots /\ LastSlot \in Slots /\ LastSlot # first_free
<1>0. Fits /\ first_free \notin Pending
  BY PendingSlots, FilledSlots DEF Control, TypeOK
<1>1. CASE UsbBlock
  <2>1. RingStays
    BY <1>1 DEF UsbBlock, ring, decoder, RingStays, Pending, Filled
  <2>2. Ordered' /\ Flagged' /\ OverlapContinuous'
    BY <2>1, Staying
  <2>3. block.id' = block.id + 1 /\ block.id \in Nat /\ mag[LastSlot].block \in Nat
    BY <1>0, <1>1, Fields, MagFifoAssumption DEF UsbBlock, Control, TypeOK
  <2>4. Latest'
    BY <1>1, <2>1, <2>3 DEF UsbBlock, ring, decoder, RingStays, Latest, LastSlot, TailOf,
       UsbHolding, FileLoop
  <2>5. FilledNow'
    BY <1>1 DEF UsbBlock, FilledNow
  <2>6. QED
    BY <2>2, <2>4, <2>5
<1>2. CASE UsbSize
  <2> DEFINE discard == IF block.len > Full THEN block.len - Full ELSE 0
  <2>1. /\ out = first_free /\ discard \in Nat /\ mag[out].dropped \in Nat
        /\ mag' = [mag EXCEPT ![out].dropped = @ + discard] /\ block.id' = block.id
    BY <1>0, <1>2, Fields, MagFifoAssumption DEF UsbSize, Control, TypeOK, Reserved, UsbHolding
  <2>2. /\ mag[first_free].dropped' = 0 => mag[first_free].dropped = 0
        /\ \A i \in Slots \ {first_free} : mag'[i] = mag[i]
    BY <1>0, <1>2, <2>1 DEF UsbSize, Control, TypeOK
  <2>3. RingStays
    BY <1>2, <2>2 DEF UsbSize, decoder, RingStays, Pending, Filled
  <2>4. Ordered' /\ Flagged' /\ OverlapContinuous'
    BY <2>3, Staying
  <2>5. Latest'
    BY <1>0, <1>2, <2>1, <2>2, <2>3 DEF UsbSize, decoder, RingStays, Latest, LastSlot, TailOf,
       UsbHolding, FileLoop
  <2>6. FilledNow'
    BY <1>2 DEF UsbSize, FilledNow
  <2>7. QED
    BY <2>4, <2>5, <2>6
<1>3. CASE UsbDrop
  <2>1. /\ out = first_free /\ block.len > 0 /\ block.len \in Nat /\ mag[out].dropped \in Nat
        /\ mag' = [mag EXCEPT ![out].dropped = @ + block.len] /\ block' = block
    BY <1>0, <1>3, Fields DEF UsbDrop, Control, TypeOK, Reserved, Lengths, UsbHolding
  <2>2. /\ mag[first_free].dropped' # 0
        /\ \A i \in Slots \ {first_free} : mag'[i] = mag[i]
    BY <1>0, <1>3, <2>1 DEF UsbDrop, Control, TypeOK
  <2>3. RingStays
    BY <1>3, <2>2 DEF UsbDrop, DecoderIdle, WakeDecode, RingStays, Pending, Filled
  <2>4. Ordered' /\ Flagged' /\ OverlapContinuous'
    BY <2>3, Staying
  <2>5. mag[LastSlot].block < block.id /\ mag[LastSlot].block \in Nat /\ block.id \in Nat
    BY <1>0, <1>3, Fields DEF UsbDrop, Latest, UsbHolding, Control, TypeOK
  <2>6. Latest'
    BY <1>0, <1>3, <2>1, <2>2, <2>3, <2>5 DEF UsbDrop, RingStays, Latest, LastSlot, TailOf,
       UsbHolding, FileLoop
  <2>7. FilledNow'
    BY <1>3 DEF UsbDrop, FilledNow
  <2>8. QED
    BY <2>4, <2>6, <2>7
<1>4. CASE UsbFill
  <2>1. out = first_free /\ Dec(out) = LastSlot /\ block' = block
    BY <1>4 DEF UsbFill, Control, Reserved, UsbHolding, LastSlot
  <2>2. /\ mag'[first_free].dropped = mag[first_free].dropped
        /\ mag'[first_free].block = block.id /\ mag'[first_free].length = block.len
        /\ mag'[first_free].overlap = IF mag[first_free].dropped = 0 THEN TailOf(LastSlot) ELSE 0
        /\ \A i \in Slots \ {first_free} : mag'[i] = mag[i]
    BY <1>0, <1>4, <2>1 DEF UsbFill, Control, TypeOK, Buffer
  <2>3. RingStays
    BY <1>4, <2>2 DEF UsbFill, decoder, RingStays, Pending, Filled
  <2>4. Ordered' /\ Flagged' /\ OverlapContinuous'
    BY <2>3, Staying
  <2>5. Latest'
    BY <1>0, <1>4, <2>1, <2>2, <2>3 DEF UsbFill, RingStays, Latest, LastSlot, UsbHolding, FileLoop
  <2>6. FilledNow'
    BY <1>0, <1>4, <2>1, <2>2, <2>3 DEF UsbFill, RingStays, Latest, FilledNow, UsbHolding
  <2>7. QED
    BY <2>4, <2>5, <2>6
<1>5. CASE UsbPush
  <2>1. next = Inc(first_free) /\ Inc(first_free) # first_filled /\ Inc(first_free) \in Slots
        /\ Inc(first_free) # first_free /\ Dec(Inc(first_free)) = first_free
    BY <1>0, <1>5, Ring DEF UsbPush, Control, Reserved, UsbHolding
  <2>2. /\ \A i \in Slots \ {Inc(first_free)} : mag'[i] = mag[i]
        /\ mag'[Inc(first_free)].dropped = 0
    BY <1>5, <2>1 DEF UsbPush, Control, TypeOK, Buffer
  <2>3. /\ mag[LastSlot].block < block.id /\ mag[first_free].block = block.id
        /\ mag[first_free].dropped = 0 => mag[LastSlot].block = block.id - 1
        /\ mag[first_free].length > 0
    BY <1>5 DEF UsbPush, Latest, FilledNow, UsbHolding, Control, Lengths
  <2>4. mag[LastSlot].block + 1 < mag[first_free].block => mag[first_free].dropped > 0
    BY <1>0, <2>3, Fields
  <2>5. Ordered' /\ Flagged' /\ OverlapContinuous' /\ Pending' # {}
    BY <1>5, <2>1, <2>2, <2>3, <2>4, Pushing
       DEF UsbPush, WakeDecode, DecoderIdle, Latest, FilledNow
  <2>6. LastSlot' = first_free /\ mag'[first_free] = mag[first_free] /\ block' = block /\ rpc' = "usb"
        /\ block.id \in Nat
    BY <1>0, <1>5, <2>1, <2>2 DEF UsbPush, LastSlot, Control, TypeOK
  <2>7. Latest'
    BY <2>3, <2>5, <2>6 DEF Latest, TailOf, UsbHolding, FileLoop
  <2>8. FilledNow'
    BY <2>6 DEF FilledNow
  <2>9. QED
    BY <2>5, <2>7, <2>8
<1>6. CASE UsbReturn
  <2>1. StreamStays
    BY <1>6 DEF UsbReturn, ring, decoder, StreamStays, Pending, Filled, FileLoop
  <2>2. QED
    BY <2>1, StreamStaying
<1>7. CASE FileWait
  <2>1. StreamStays
    BY <1>7 DEF FileWait, ring, decoder, StreamStays, Pending, Filled, FileLoop
  <2>2. QED
    BY <2>1, StreamStaying
<1>8. CASE FileTimeout
  <2>1. StreamStays
    BY <1>8 DEF FileTimeout, ring, decoder, StreamStays, Pending, Filled, FileLoop
  <2>2. QED
    BY <2>1, StreamStaying
<1>9. CASE FileTake
  <2>1. StreamStays
    BY <1>9 DEF FileTake, ring, decoder, StreamStays, Pending, Filled, FileLoop
  <2>2. QED
    BY <2>1, StreamStaying
<1>10. CASE FileFill
  <2>1. out = first_free /\ Dec(out) = LastSlot /\ rpc = "fileFill" /\ rpc' = "filePush"
    BY <1>10 DEF FileFill, Control, Reserved, FileHolding, LastSlot
  <2>2. PICK len \in 0..Full :
           /\ block' = [block EXCEPT !.id = @ + 1, !.len = len]
           /\ mag' = [mag EXCEPT ![out] =
                         [@ EXCEPT !.block = block.id + 1,
                                   !.overlap = IF mag[Dec(out)].length >= Trailing
                                               THEN TailOf(Dec(out)) ELSE 0,
                                   !.length = len,
                                   !.stamp = sampleCounter]]
    BY <1>10 DEF FileFill
  <2>3. block.id' = block.id + 1 /\ block.len' = len /\ block.id \in Nat
    BY <2>2 DEF Control, TypeOK
  <2>4. /\ mag'[first_free].dropped = mag[first_free].dropped
        /\ mag'[first_free].block = block.id + 1 /\ mag'[first_free].length = len
        /\ mag'[first_free].overlap = IF mag[LastSlot].length >= Trailing THEN TailOf(LastSlot) ELSE 0
        /\ \A i \in Slots \ {first_free} : mag'[i] = mag[i]
    BY <1>0, <2>1, <2>2 DEF Control, TypeOK, Buffer
  <2>5. RingStays
    BY <1>10, <2>4 DEF FileFill, decoder, RingStays, Pending, Filled
  <2>6. Ordered' /\ Flagged' /\ OverlapContinuous'
    BY <2>5, Staying
  <2>7. /\ mag[LastSlot].block = block.id /\ TailOf(LastSlot) = mag[LastSlot].block
        /\ mag[LastSlot].length >= Trailing \/ mag[LastSlot].block = 0
        /\ \A i \in Slots : mag[i].dropped = 0
    BY <2>1 DEF Latest, FileLoop
  <2>8. Latest'
    <3>1. \A i \in Slots : mag'[i].dropped = 0
      BY <2>4, <2>7
    <3>2. first_free' = first_free /\ LastSlot' = LastSlot /\ mag'[LastSlot] = mag[LastSlot]
      BY <1>0, <2>4, <2>5 DEF RingStays, LastSlot
    <3>3. Pending' = {} => mag'[LastSlot].block = lastDemod'
      BY <2>5, <3>2 DEF RingStays, Latest
    <3>4. mag[LastSlot].block < block.id + 1
      BY <2>3, <2>7
    <3>5. QED
      BY <2>1, <2>3, <2>7, <3>1, <3>2, <3>3, <3>4 DEF Latest, UsbHolding, FileLoop
  <2>9. FilledNow'
    <3>1. first_free' = first_free /\ first_free \in Slots
      BY <1>0, <2>5 DEF RingStays
    <3>2. mag[first_free].dropped = 0
      BY <2>7, <3>1
    <3>3. mag'[first_free].overlap = block.id
      <4>1. CASE mag[LastSlot].length >= Trailing
        BY <2>4, <2>7, <4>1
      <4>2. CASE ~(mag[LastSlot].length >= Trailing)
        <5>1. mag[LastSlot].block = 0
          BY <2>7, <4>2
        <5>2. QED
          BY <2>4, <2>7, <4>2, <5>1
      <4>3. QED
        BY <4>1, <4>2
    <3>4. /\ mag'[first_free].dropped = 0 /\ mag'[first_free].block = block.id'
          /\ mag'[first_free].length = block.len' /\ mag'[first_free].overlap = block.id' - 1
      BY <2>3, <2>4, <3>2, <3>3
    <3>5. QED
      BY <2>1, <3>1, <3>4 DEF FilledNow
  <2>10. QED
    BY <2>6, <2>8, <2>9
<1>11. CASE FilePush
  <2>1. /\ Inc(first_free) # first_filled /\ first_free' = Inc(first_free)
        /\ Dec(Inc(first_free)) = first_free /\ mag' = mag /\ block' = block
        /\ rpc = "filePush" /\ rpc' = IF block.len < Full THEN "drain" ELSE "top"
    BY <1>0, <1>11, Ring DEF FilePush, Control, Reserved, FileHolding
  <2>2. /\ mag[LastSlot].block = block.id - 1 /\ mag[first_free].block = block.id
        /\ mag[first_free].length = block.len /\ mag[first_free].dropped = 0
        /\ mag[first_free].overlap = block.id - 1 /\ block.id \in Nat
        /\ \A i \in Slots : mag[i].dropped = 0
    BY <1>0, <2>1 DEF Latest, FilledNow, FileLoop, Control, TypeOK
  <2>3. /\ mag[LastSlot].block < mag[first_free].block
        /\ ~(mag[LastSlot].block + 1 < mag[first_free].block)
    BY <2>2
  <2>4. Ordered' /\ Flagged' /\ OverlapContinuous' /\ Pending' # {}
    BY <1>11, <2>1, <2>2, <2>3, Pushing DEF FilePush, WakeDecode, DecoderIdle, Latest
  <2>5. block.len <= Full /\ block.len \in Nat /\ (rpc' = "top" => block.len = Full)
    BY <2>1, MagFifoAssumption DEF Control, Lengths, TypeOK
  <2>6. LastSlot' = first_free
    BY <2>1 DEF LastSlot
  <2>7. rpc' = "top" => TailOf(first_free) = block.id /\ mag[first_free].length >= Trailing
    BY <2>2, <2>5, MagFifoAssumption DEF TailOf
  <2>8. Latest'
    BY <2>1, <2>2, <2>4, <2>6, <2>7 DEF Latest, TailOf, UsbHolding, FileLoop
  <2>9. FilledNow'
    BY <2>1 DEF FilledNow
  <2>10. QED
    BY <2>4, <2>8, <2>9
<1>12. CASE FileStop
  <2>1. StreamStays
    BY <1>12 DEF FileStop, ring, decoder, StreamStays, Pending, Filled, FileLoop
  <2>2. QED
    BY <2>1, StreamStaying
<1>13. CASE FileDrain
  <2>1. StreamStays
    BY <1>13 DEF FileDrain, ring, WakeDecode, DecoderIdle, StreamStays, Pending, Filled, FileLoop
  <2>2. QED
    BY <2>1, StreamStaying
<1>14. CASE FileDrainTimeout
  <2>1. StreamStays
    BY <1>14 DEF FileDrainTimeout, ring, decoder, StreamStays, Pending, Filled, FileLoop
  <2>2. QED
    BY <2>1, StreamStaying
<1>15. CASE FileEnd
  <2>1. StreamStays
    BY <1>15 DEF FileEnd, ring, decoder, StreamStays, Pending, Filled, FileLoop
  <2>2. QED
    BY <2>1, StreamStaying
<1>16. CASE DecodeTake
  <2>1. StreamStays
    BY <1>16 DEF DecodeTake, ring, reader, DGoto, StreamStays, Pending, Filled, FileLoop
  <2>2. QED
    BY <2>1, StreamStaying
<1>17. CASE Demodulate
  <2>1. Ordered' /\ Flagged' /\ OverlapContinuous' /\ (Pending' = {} => mag[LastSlot].block = lastDemod')
    BY <1>17, Demodulation
  <2>2. Latest'
    BY <1>17, <2>1 DEF Demodulate, ring, reader, Latest, LastSlot, TailOf
  <2>3. FilledNow'
    BY <1>17 DEF Demodulate, ring, reader, FilledNow
  <2>4. QED
    BY <2>1, <2>2, <2>3
<1>18. CASE Release
  <2>1. Ordered' /\ Flagged' /\ OverlapContinuous' /\ Pending' = Pending
    BY <1>18, Releasing
  <2>2. rpc' = rpc \/ rpc' = "drain" \/ (rpc = "fileWaiting" /\ rpc' = "top")
    BY <1>18 DEF Release
  <2>3. UNCHANGED <<first_free, mag, block, lastDemod>>
    BY <1>18 DEF Release
  <2>4. Latest'
    BY <2>1, <2>2, <2>3 DEF Latest, LastSlot, TailOf, UsbHolding, FileLoop
  <2>5. FilledNow'
    BY <2>2, <2>3 DEF FilledNow
  <2>6. QED
    BY <2>1, <2>4, <2>5
<1>19. CASE Account
  <2>1. StreamStays
    BY <1>19 DEF Account, ring, reader, DGoto, StreamStays, Pending, Filled, FileLoop
  <2>2. QED
    BY <2>1, StreamStaying
<1>20. CASE Background
  <2>1. StreamStays
    BY <1>20 DEF Background, ring, reader, DGoto, StreamStays, Pending, Filled, FileLoop
  <2>2. QED
    BY <2>1, StreamStaying
<1>21. CASE DecodeWait
  <2>1. StreamStays
    BY <1>21 DEF DecodeWait, ring, reader, DGoto, DecoderIdle, StreamStays, Pending, Filled,
       FileLoop
  <2>2. QED
    BY <2>1, StreamStaying
<1>22. CASE DecodeTimeout
  <2>1. StreamStays
    BY <1>22 DEF DecodeTimeout, ring, reader, DGoto, DecoderIdle, StreamStays, Pending, Filled,
       FileLoop
  <2>2. QED
    BY <2>1, StreamStaying
<1>23. CASE DecodeExit
  <2>1. StreamStays
    BY <1>23 DEF DecodeExit, ring, reader, DGoto, DecoderIdle, StreamStays, Pending, Filled,
       FileLoop
  <2>2. QED
    BY <2>1, StreamStaying
<1>24. CASE ExitRequest
  <2>1. StreamStays
    BY <1>24 DEF ExitRequest, ring, reader, decoder, StreamStays, Pending, Filled, FileLoop
  <2>2. QED
    BY <2>1, StreamStaying
<1>25. CASE MainExit
  <2>1. StreamStays
    BY <1>25 DEF MainExit, ring, reader, decoder, StreamStays, Pending, Filled, FileLoop
  <2>2. QED
    BY <2>1, StreamStaying
<1>26. CASE UNCHANGED vars
  <2>1. StreamStays
    BY <1>26 DEF vars, ring, reader, decoder, StreamStays, Pending, Filled, FileLoop
  <2>2. QED
    BY <2>1, StreamStaying
<1>27. QED
  BY <1>1, <1>2, <1>3, <1>4, <1>5, <1>6, <1>7, <1>8, <1>9, <1>10, <1>11, <1>12, <1>13, <1>14,
     <1>15, <1>16, <1>17, <1>18, <1>19, <1>20, <1>21, <1>22, <1>23, <1>24, <1>25, <1>26 DEF Next,
     Usb, File, Decode

-----------------------------------------------------------------------------
(* Sums over sets of slots.  FoldSet chooses a function that satisfies a   *)
(* recursive equation over the subsets; that there is one is proved here.  *)

\* the element the fold removes first
Item(slots) == CHOOSE i \in slots : TRUE

\* g is a function the fold over S may choose.
IsTotal(m, S, g) ==
   g = [s \in SUBSET S |-> IF s = {} THEN 0 ELSE g[s \ {Item(s)}] + m[Item(s)].length + m[Item(s)].dropped]

\* The fold is such a function at S, if there is one.
LEMMA InDef ==
  ASSUME NEW m, NEW S, \E g : IsTotal(m, S, g)
  PROVE  \E g : IsTotal(m, S, g) /\ In(m, S) = g[S]
BY DEF In, FoldSet, MapThenFoldSet, IsTotal, Item

\* the order of the numbers
Less == {ss \in Nat \X Nat : ss[1] < ss[2]}

\* The order of the numbers is well-founded.
LEMMA LessWF == IsWellFoundedOn(Less, Nat)
BY NatLessThanWellFounded DEF OpToRel, Less

\* A nonempty set of numbers has a least one.
LEMMA NatMin == \A T : T \subseteq Nat /\ T # {} => \E x \in T : \A y \in T : x <= y
<1> SUFFICES ASSUME NEW T, T \subseteq Nat, T # {} PROVE \E x \in T : \A y \in T : x <= y
  OBVIOUS
<1>1. PICK x \in T : \A y \in T : ~ (<<y, x>> \in Less)
  BY LessWF, WFMin
<1>2. ASSUME NEW y \in T, y < x PROVE FALSE
  <2>1. <<y, x>> \in Nat \X Nat
    OBVIOUS
  <2> QED
    BY <1>1, <1>2, <2>1 DEF Less
<1> QED
  BY <1>2

\* Induction, for sets of numbers.
LEMMA NatSetInduction == ASSUME NEW T, 0 \in T, \A n \in Nat : n \in T => n + 1 \in T PROVE Nat \subseteq T
<1>1. SUFFICES ASSUME Nat \ T # {} PROVE FALSE
  OBVIOUS
<1>2. PICK m \in Nat \ T : \A y \in Nat \ T : m <= y
  BY <1>1, NatMin
<1>3. m # 0 /\ m - 1 \in Nat /\ m - 1 \in T
  BY <1>2
<1> QED
  BY <1>2, <1>3

\* Induction over the subsets of a finite set: a set that has every subset all of whose
\* proper subsets it has, has them all.
LEMMA SubsetInduction ==
  ASSUME NEW S, IsFiniteSet(S), NEW T,
         \A s \in SUBSET S : (\A t \in SUBSET S : t \subseteq s /\ t # s => t \in T) => s \in T
  PROVE  SUBSET S \subseteq T
<1>1. IsFiniteSet(S)
  OBVIOUS
<1> DEFINE R == StrictSubsetOrdering(S)
           U == (SUBSET S) \ T
<1>2. IsWellFoundedOn(StrictSubsetOrdering(S), FiniteSubsetsOf(S))
  BY FS_StrictSubsetOrderingWellFounded
<1>3. FiniteSubsetsOf(S) = SUBSET S
  BY FS_Subset DEF FiniteSubsetsOf
<1>4. SUFFICES ASSUME U # {} PROVE FALSE
  OBVIOUS
<1>7. U \subseteq FiniteSubsetsOf(S)
  BY <1>3
<1>5. PICK x \in U : \A y \in U : ~ (<<y, x>> \in R)
  <2> HIDE DEF U
  <2> QED
    BY <1>2, <1>4, <1>7, WFMin
<1>6. ASSUME NEW t \in SUBSET S, t \subseteq x, t # x PROVE t \in T
  <2>1. x \in SUBSET S
    BY <1>5
  <2>2. <<t, x>> \in R
    BY <1>6, <2>1 DEF StrictSubsetOrdering
  <2> QED
    BY <1>5, <2>2
<1> QED
  BY <1>5, <1>6

\* The recursive equation has a solution: one for the subsets of up to n elements gives one
\* for those of n + 1.
LEMMA TotalExists ==
  ASSUME NEW m, NEW S, IsFiniteSet(S)
  PROVE  \E g : IsTotal(m, S, g)
<1> DEFINE Val(g, s) == IF s = {} THEN 0 ELSE g[s \ {Item(s)}] + m[Item(s)].length + m[Item(s)].dropped
           Small(n) == {s \in SUBSET S : Cardinality(s) <= n}
           Have == {n \in Nat : \E g : g = [s \in Small(n) |-> Val(g, s)]}
<1>1. \A s \in SUBSET S : IsFiniteSet(s) /\ Cardinality(s) \in Nat
  BY FS_Subset, FS_CardinalityType
<1>2. 0 \in Have
  <2>1. \A s \in Small(0) : s = {}
    BY <1>1, FS_EmptySet
  <2>2. [s \in Small(0) |-> 0] = [s \in Small(0) |-> Val([t \in Small(0) |-> 0], s)]
    BY <2>1
  <2> QED
    BY <2>2
<1>3. ASSUME NEW n \in Nat, n \in Have PROVE n + 1 \in Have
  <2>1. PICK g : g = [s \in Small(n) |-> Val(g, s)]
    BY <1>3
  <2> DEFINE h == [s \in Small(n + 1) |-> Val(g, s)]
  <2>2. \A s \in Small(n) : h[s] = g[s]
    <3>1. Small(n) \subseteq Small(n + 1)
      BY <1>1
    <3> QED
      BY <2>1, <3>1
  <2>3. \A s \in Small(n + 1) : s # {} => s \ {Item(s)} \in Small(n)
    <3> SUFFICES ASSUME NEW s \in Small(n + 1), s # {} PROVE s \ {Item(s)} \in Small(n)
      OBVIOUS
    <3>1. Item(s) \in s
      BY DEF Item
    <3>2. Cardinality(s \ {Item(s)}) = Cardinality(s) - 1
      BY <1>1, <3>1, FS_RemoveElement
    <3> QED
      BY <1>1, <3>2
  <2>4. ASSUME NEW s \in Small(n + 1)
        PROVE  Val(h, s) = Val(g, s)
    <3>1. s # {} => h[s \ {Item(s)}] = g[s \ {Item(s)}]
      BY <2>2, <2>3
    <3> HIDE DEF h
    <3> QED
      BY <3>1
  <2>5. h = [s \in Small(n + 1) |-> Val(h, s)]
    BY <2>4
  <2> HIDE DEF h, Small, Val
  <2> QED
    BY <2>5
<1>4. Nat \subseteq Have
  <2> HIDE DEF Have
  <2> QED
    BY <1>2, <1>3, NatSetInduction
<1>5. Cardinality(S) \in Have
  BY <1>1, <1>4
<1>6. Small(Cardinality(S)) = SUBSET S
  BY <1>1, FS_Subset
<1>7. PICK g : g = [s \in Small(Cardinality(S)) |-> Val(g, s)]
  BY <1>5
<1> QED
  BY <1>6, <1>7 DEF IsTotal

\* Two rings hold the same number of samples in every slot of S.
Agree(m, n, S) == \A i \in S : m[i].length = n[i].length /\ m[i].dropped = n[i].dropped

\* Solutions over two sets and two rings agree on the subsets on which the rings do.
LEMMA TotalSame ==
  ASSUME NEW m, NEW n, NEW S, NEW U, NEW V, IsFiniteSet(S), S \subseteq U, S \subseteq V,
         NEW g, NEW h, IsTotal(m, U, g), IsTotal(n, V, h), Agree(m, n, S)
  PROVE  \A s \in SUBSET S : g[s] = h[s]
<1> DEFINE T == {s \in SUBSET S : g[s] = h[s]}
<1>1. ASSUME NEW s \in SUBSET S, \A t \in SUBSET S : t \subseteq s /\ t # s => t \in T
      PROVE  s \in T
  <2>1. s \in SUBSET U /\ s \in SUBSET V
    OBVIOUS
  <2>2. CASE s = {}
    BY <2>1, <2>2 DEF IsTotal
  <2>3. CASE s # {}
    <3>1. Item(s) \in s
      BY <2>3 DEF Item
    <3>2. s \ {Item(s)} \in T
      BY <1>1, <3>1
    <3>3. /\ g[s] = g[s \ {Item(s)}] + m[Item(s)].length + m[Item(s)].dropped
          /\ h[s] = h[s \ {Item(s)}] + n[Item(s)].length + n[Item(s)].dropped
      BY <2>1, <2>3 DEF IsTotal
    <3> QED
      BY <3>1, <3>2, <3>3 DEF Agree
  <2> QED
    BY <2>2, <2>3
<1>2. SUBSET S \subseteq T
  <2> HIDE DEF T
  <2> QED
    BY <1>1, SubsetInduction
<1> QED
  BY <1>2

\* A solution may split off any element, not only the one it chooses.
LEMMA TotalStep ==
  ASSUME NEW S \in SUBSET Slots, IsFiniteSet(S), NEW m \in [Slots -> Buffer], NEW g, IsTotal(m, S, g)
  PROVE  \A s \in SUBSET S : g[s] \in Nat /\ \A x \in s : g[s] = g[s \ {x}] + m[x].length + m[x].dropped
<1> DEFINE W(x) == m[x].length + m[x].dropped
           T == {s \in SUBSET S : g[s] \in Nat /\ \A x \in s : g[s] = g[s \ {x}] + W(x)}
<1>0. \A x \in S : m[x].length \in Nat /\ m[x].dropped \in Nat /\ W(x) \in Nat
  BY MagFifoAssumption DEF Buffer
<1>1. ASSUME NEW s \in SUBSET S, \A t \in SUBSET S : t \subseteq s /\ t # s => t \in T
      PROVE  s \in T
  <2>1. CASE s = {}
    BY <2>1 DEF IsTotal
  <2>2. CASE s # {}
    <3> DEFINE c == Item(s)
    <3>1. c \in s
      BY <2>2 DEF Item
    <3>2. s \ {c} \in T
      BY <1>1, <3>1
    <3>3. g[s] = g[s \ {c}] + m[c].length + m[c].dropped
      BY <2>2 DEF IsTotal
    <3>4. g[s] = g[s \ {c}] + W(c) /\ g[s] \in Nat /\ g[s \ {c}] \in Nat
      BY <1>0, <3>1, <3>2, <3>3
    <3>5. ASSUME NEW x \in s, x # c
          PROVE  g[s] = g[s \ {x}] + W(x)
      <4>1. s \ {x} \in T /\ c \in s \ {x} /\ x \in s \ {c}
        BY <1>1, <3>1, <3>5
      <4>2. (s \ {x}) \ {c} = (s \ {c}) \ {x}
        OBVIOUS
      <4>3. (s \ {x}) \ {c} \in T
        BY <1>1, <3>5
      <4>4. g[s \ {x}] = g[(s \ {x}) \ {c}] + W(c) /\ g[s \ {c}] = g[(s \ {c}) \ {x}] + W(x)
        BY <3>2, <4>1
      <4>5. W(c) \in Nat /\ W(x) \in Nat /\ g[(s \ {x}) \ {c}] \in Nat
        BY <1>0, <3>1, <3>5, <4>3
      <4>7. g[s \ {x}] = g[(s \ {c}) \ {x}] + W(c) /\ g[(s \ {c}) \ {x}] \in Nat
        BY <4>1, <4>2, <4>4, <4>5
      <4> DEFINE all == g[s]   lessC == g[s \ {c}]   lessX == g[s \ {x}]   less == g[(s \ {c}) \ {x}]
                 wc == W(c)    wx == W(x)
      <4>8. /\ all = lessC + wc /\ lessC = less + wx /\ lessX = less + wc
            /\ less \in Nat /\ wc \in Nat /\ wx \in Nat
        BY <3>4, <4>4, <4>5, <4>7
      <4>9. all = lessX + wx
        <5> HIDE DEF all, lessC, lessX, less, wc, wx
        <5> QED
          BY <4>8
      <4> QED
        BY <4>9
    <3> QED
      BY <3>4, <3>5
  <2> QED
    BY <2>1, <2>2
<1>2. SUBSET S \subseteq T
  <2> HIDE DEF T
  <2> QED
    BY <1>1, SubsetInduction
<1>3. ASSUME NEW s \in SUBSET S, NEW x \in s
      PROVE  g[s] = g[s \ {x}] + m[x].length + m[x].dropped
  <2>1. g[s] = g[s \ {x}] + W(x) /\ g[s \ {x}] \in Nat
    BY <1>2
  <2> QED
    BY <1>0, <2>1
<1> QED
  BY <1>2, <1>3

\* What is used of the sum: of nothing, of one slot more, and that it depends on the slots
\* it is about only.
LEMMA Counting ==
  ASSUME NEW m \in [Slots -> Buffer]
  PROVE  /\ In(m, {}) = 0
         /\ \A S \in SUBSET Slots : In(m, S) \in Nat
         /\ \A S \in SUBSET Slots : \A x \in S : In(m, S) = In(m, S \ {x}) + m[x].length + m[x].dropped
         /\ \A n \in [Slots -> Buffer] : \A S \in SUBSET Slots :
              Agree(m, n, S) => In(m, S) = In(n, S)
<1>1. \A S \in SUBSET Slots : IsFiniteSet(S)
  <2>1. IsFiniteSet(Slots)
    BY FS_Interval, MagFifoAssumption DEF Slots
  <2> QED
    BY <2>1, FS_Subset
<1>2. \A S \in SUBSET Slots, n \in [Slots -> Buffer] : \E g : IsTotal(n, S, g) /\ In(n, S) = g[S]
  BY <1>1, TotalExists, InDef
<1>3. In(m, {}) = 0
  <2>1. PICK g : IsTotal(m, {}, g) /\ In(m, {}) = g[{}]
    BY <1>2
  <2> QED
    BY <2>1 DEF IsTotal
<1>4. ASSUME NEW S \in SUBSET Slots
      PROVE  In(m, S) \in Nat /\ \A x \in S : In(m, S) = In(m, S \ {x}) + m[x].length + m[x].dropped
  <2>1. PICK g : IsTotal(m, S, g) /\ In(m, S) = g[S]
    BY <1>2
  <2>2. In(m, S) \in Nat /\ \A x \in S : In(m, S) = g[S \ {x}] + m[x].length + m[x].dropped
    <3>1. \A s \in SUBSET S : g[s] \in Nat /\ \A x \in s : g[s] = g[s \ {x}] + m[x].length + m[x].dropped
      BY <1>1, <2>1, TotalStep
    <3> QED
      BY <2>1, <3>1
  <2>3. ASSUME NEW x \in S PROVE In(m, S \ {x}) = g[S \ {x}]
    <3>1. PICK h : IsTotal(m, S \ {x}, h) /\ In(m, S \ {x}) = h[S \ {x}]
      BY <1>2
    <3>2. \A s \in SUBSET (S \ {x}) : h[s] = g[s]
      <4>1. IsFiniteSet(S \ {x}) /\ S \ {x} \subseteq S \ {x} /\ S \ {x} \subseteq S
        BY <1>1
      <4>2. Agree(m, m, S \ {x})
        BY DEF Agree
      <4> QED
        BY <2>1, <3>1, <4>1, <4>2, TotalSame
    <3> QED
      BY <3>1, <3>2
  <2> QED
    BY <2>2, <2>3
<1>5. ASSUME NEW n \in [Slots -> Buffer], NEW S \in SUBSET Slots, Agree(m, n, S)
      PROVE  In(m, S) = In(n, S)
  <2>1. PICK g : IsTotal(m, S, g) /\ In(m, S) = g[S]
    BY <1>2
  <2>2. PICK h : IsTotal(n, S, h) /\ In(n, S) = h[S]
    BY <1>2
  <2>3. \A s \in SUBSET S : g[s] = h[s]
    <3>1. IsFiniteSet(S) /\ S \subseteq S
      BY <1>1
    <3> QED
      BY <1>5, <2>1, <2>2, <3>1, TotalSame
  <2> QED
    BY <2>1, <2>2, <2>3
<1> QED
  BY <1>3, <1>4, <1>5

-----------------------------------------------------------------------------
(* The samples are counted.                                                *)

\* A step that moves no sample.
CountsStay ==
    /\ UNCHANGED <<delivered, processed, samples_dropped, sampleCounter, block, mag, first_free>>
    /\ Pending' = Pending /\ \A i \in Pending : Before(i)' = Before(i)
    /\ Pushes' = Pushes /\ Held' = Held

\* Such a step preserves the counts.
LEMMA CountsStaying ==
  ASSUME Counts, CountsStay
  PROVE  Counts'
<1>1. Conserved'
  BY DEF Counts, CountsStay, Conserved, InSlot
<1>2. OnTime'
  BY DEF Counts, CountsStay, OnTime
<1>3. QED
  BY <1>1, <1>2 DEF Counts

\* What the counts range over.
LEMMA CountTypes ==
  ASSUME Control
  PROVE  /\ first_free \in Slots /\ mag \in [Slots -> Buffer]
         /\ Pending \subseteq Slots /\ first_free \notin Pending
         /\ delivered \in Nat /\ processed \in Nat /\ samples_dropped \in Nat
         /\ sampleCounter \in Nat /\ block.len \in Nat
         /\ \A i \in Slots : mag[i].length \in Nat /\ mag[i].dropped \in Nat /\ mag[i].stamp \in Nat
         /\ In(mag, Pending) \in Nat
         /\ \A S \in SUBSET Slots : In(mag, S) \in Nat
         /\ \A i \in Pending : Before(i) \subseteq Pending
         /\ Held \in Nat /\ InSlot \in Nat
<1>1. first_free \in Slots /\ mag \in [Slots -> Buffer] /\ Pending \subseteq Slots /\ first_free \notin Pending
  BY PendingSlots, FilledSlots DEF Control, TypeOK
<1>2. /\ delivered \in Nat /\ processed \in Nat /\ samples_dropped \in Nat
      /\ sampleCounter \in Nat /\ block.len \in Nat
  BY DEF Control, TypeOK
<1>3. \A i \in Slots : mag[i].length \in Nat /\ mag[i].dropped \in Nat /\ mag[i].stamp \in Nat
  BY <1>1, MagFifoAssumption DEF Buffer
<1>4. \A S \in SUBSET Slots : In(mag, S) \in Nat
  BY <1>1, Counting
<1>5. \A i \in Pending : Before(i) \subseteq Pending
  BY DEF Before
<1>6. Held \in Nat /\ InSlot \in Nat
  BY <1>1, <1>2, <1>3 DEF Held, InSlot
<1>7. QED
  BY <1>1, <1>2, <1>3, <1>4, <1>5, <1>6

\* Changing the slot of the reader does not change what is in the others.
LEMMA SlotApart ==
  ASSUME Control, Control', UNCHANGED <<first_free, first_filled>>, Pending' = Pending,
         \A i \in Slots \ {first_free} : mag'[i] = mag[i]
  PROVE  /\ In(mag', Pending) = In(mag, Pending)
         /\ \A i \in Pending : /\ Before(i)' = Before(i) /\ mag'[i] = mag[i]
                               /\ In(mag', Before(i)) = In(mag, Before(i))
<1>1. /\ mag \in [Slots -> Buffer] /\ mag' \in [Slots -> Buffer] /\ Pending \subseteq Slots
      /\ first_free \notin Pending /\ \A i \in Pending : Before(i) \subseteq Pending
  BY CountTypes DEF Control, TypeOK
<1>2. \A i \in Pending : mag'[i] = mag[i]
  BY <1>1
<1>3. Agree(mag', mag, Pending) /\ \A i \in Pending : Agree(mag', mag, Before(i))
  BY <1>1, <1>2 DEF Agree
<1>4. \A S \in SUBSET Slots : Agree(mag', mag, S) => In(mag', S) = In(mag, S)
  BY <1>1, Counting
<1>5. \A i \in Pending : Before(i)' = Before(i)
  BY DEF Before
<1>6. QED
  BY <1>1, <1>2, <1>3, <1>4, <1>5

\* The reader pushes its slot: its samples wait behind all the others.
LEMMA PushCounted ==
  ASSUME Control, Control', Inc(first_free) # first_filled, first_free' = Inc(first_free),
         UNCHANGED <<first_filled, buf>>, dpc' = "release" <=> dpc = "release",
         \A i \in Slots \ {Inc(first_free)} : mag'[i] = mag[i]
  PROVE  /\ Pending' = Pending \union {first_free}
         /\ In(mag', Pending') = In(mag, Pending) + mag[first_free].length + mag[first_free].dropped
         /\ mag'[first_free] = mag[first_free]
         /\ \A i \in Slots : i = first_free => Before(i)' = Pending
         /\ In(mag', Pending) = In(mag, Pending)
         /\ \A i \in Pending : /\ Before(i)' = Before(i) /\ mag'[i] = mag[i]
                               /\ In(mag', Before(i)) = In(mag, Before(i))
<1>1. /\ first_free \in Slots /\ first_filled \in Slots /\ mag \in [Slots -> Buffer]
      /\ mag' \in [Slots -> Buffer] /\ Pending \subseteq Slots /\ Pending \subseteq Filled
      /\ first_free \notin Pending /\ \A i \in Pending : Before(i) \subseteq Pending
  BY CountTypes, PendingSlots DEF Control, TypeOK
<1>2. /\ Filled' = Filled \union {first_free}
      /\ \A i \in Slots : Pos(i)' = Pos(i)
      /\ \A i \in Filled : Pos(i) < Pos(first_free)
      /\ Inc(first_free) \notin Filled /\ Inc(first_free) # first_free
  BY <1>1, PushSlot, Ring
<1>3. Pending' = Pending \union {first_free}
  <2>1. dpc = "release" => buf = first_filled /\ buf # first_free
    BY DEF Control, Taken, Demodulating
  <2>2. first_free \notin Filled
    BY <1>1, FilledSlots
  <2>3. QED
    BY <1>2, <2>1, <2>2 DEF Pending
<1>4. mag'[first_free] = mag[first_free] /\ \A i \in Pending : mag'[i] = mag[i]
  BY <1>1, <1>2
<1>5. Agree(mag', mag, Pending) /\ \A i \in Pending : Agree(mag', mag, Before(i))
  BY <1>1, <1>4 DEF Agree
<1>6. /\ In(mag', Pending) = In(mag, Pending)
      /\ \A i \in Pending : In(mag', Before(i)) = In(mag, Before(i))
  <2>1. \A S \in SUBSET Slots : Agree(mag', mag, S) => In(mag', S) = In(mag, S)
    BY <1>1, Counting
  <2>2. QED
    BY <1>1, <1>5, <2>1
<1>7. In(mag', Pending') = In(mag', Pending) + mag'[first_free].length + mag'[first_free].dropped
  <2>1. Pending' \in SUBSET Slots /\ first_free \in Pending' /\ Pending' \ {first_free} = Pending
    BY <1>1, <1>3
  <2>2. \A S \in SUBSET Slots : \A x \in S :
           In(mag', S) = In(mag', S \ {x}) + mag'[x].length + mag'[x].dropped
    BY <1>1, Counting
  <2>3. QED
    BY <2>1, <2>2
<1>8. /\ \A i \in Slots : i = first_free => Before(i)' = Pending
      /\ \A i \in Pending : Before(i)' = Before(i)
  <2>1. \A i \in Slots : Before(i)' = {j \in Pending \union {first_free} : Pos(j) < Pos(i)}
    BY <1>1, <1>2, <1>3 DEF Before, Pos
  <2>2. \A i \in Slots : Before(i) = {j \in Pending : Pos(j) < Pos(i)}
    BY DEF Before, Pos
  <2>3. \A i \in Pending : Pos(i) < Pos(first_free) /\ ~(Pos(first_free) < Pos(i))
    <3>1. \A i \in Slots : Pos(i) \in Int
      BY <1>1, Positions, MagFifoAssumption
    <3>2. QED
      BY <1>1, <1>2, <3>1
  <2>4. ~(Pos(first_free) < Pos(first_free))
    BY <1>1, Positions, MagFifoAssumption
  <2>5. \A j \in Pending : Pos(j) < Pos(first_free) /\ ~(Pos(first_free) < Pos(j))
    BY <2>3
  <2>6. ASSUME NEW i \in Slots, i = first_free
        PROVE  Before(i)' = Pending
    <3>1. Before(i)' = {j \in Pending \union {i} : Pos(j) < Pos(i)}
      BY <2>1, <2>6
    <3>2. ~(Pos(i) < Pos(i)) /\ \A j \in Pending : Pos(j) < Pos(i)
      BY <2>4, <2>5, <2>6
    <3>3. QED
      BY <3>1, <3>2
  <2>7. ASSUME NEW i \in Pending
        PROVE  Before(i)' = Before(i)
    <3>1. i \in Slots /\ ~(Pos(first_free) < Pos(i))
      BY <1>1, <2>3
    <3>2. Before(i)' = {j \in Pending \union {first_free} : Pos(j) < Pos(i)}
      BY <2>1, <3>1
    <3>3. Before(i) = {j \in Pending : Pos(j) < Pos(i)}
      BY <2>2, <3>1
    <3>4. QED
      BY <3>1, <3>2, <3>3
  <2>8. QED
    BY <2>6, <2>7
<1>9. QED
  BY <1>3, <1>4, <1>6, <1>7, <1>8

\* Pushing the reader's slot preserves the counts.
LEMMA PushCounts ==
  ASSUME Control, Control', Stream, Counts, Pushes, rpc' \in {"usb", "drain", "top"},
         UNCHANGED <<delivered, processed, samples_dropped, sampleCounter, block, first_filled, buf>>,
         Inc(first_free) # first_filled, first_free' = Inc(first_free), dpc' = "release" <=> dpc = "release",
         \A i \in Slots \ {Inc(first_free)} : mag'[i] = mag[i], mag'[first_free'].dropped = 0
  PROVE  Counts'
<1>1. /\ Pending' = Pending \union {first_free}
      /\ In(mag', Pending') = In(mag, Pending) + mag[first_free].length + mag[first_free].dropped
      /\ mag'[first_free] = mag[first_free]
      /\ \A i \in Slots : i = first_free => Before(i)' = Pending
      /\ In(mag', Pending) = In(mag, Pending)
      /\ \A i \in Pending : /\ Before(i)' = Before(i) /\ mag'[i] = mag[i]
                            /\ In(mag', Before(i)) = In(mag, Before(i))
  BY PushCounted
<1>2. ~Pushes' /\ Held = 0 /\ Held' = 0
      /\ InSlot = mag[first_free].length + mag[first_free].dropped /\ InSlot' = 0
  BY DEF Pushes, Held, InSlot
<1>3. Conserved'
  BY <1>1, <1>2, CountTypes DEF Counts, Conserved
<1>4. ASSUME ~block.cut
      PROVE  /\ sampleCounter = delivered
             /\ mag[first_free].stamp + mag[first_free].length = sampleCounter
             /\ \A i \in Pending : mag[i].stamp = processed + samples_dropped + In(mag, Before(i)) + mag[i].dropped
  BY <1>2, <1>4, CountTypes DEF Counts, OnTime
<1>5. ASSUME ~block.cut
      PROVE  mag[first_free].stamp = processed + samples_dropped + In(mag, Pending) + mag[first_free].dropped
  BY <1>2, <1>4, <1>5, CountTypes DEF Counts, Conserved
<1>6. ASSUME ~block.cut, NEW i \in Pending'
      PROVE  mag'[i].stamp = processed + samples_dropped + In(mag', Before(i)') + mag'[i].dropped
  <2>1. CASE i = first_free
    <3>1. i \in Slots
      BY <2>1, CountTypes
    <3>2. /\ Before(i)' = Pending /\ mag'[i] = mag[i] /\ In(mag', Pending) = In(mag, Pending)
          /\ mag[i].stamp = processed + samples_dropped + In(mag, Pending) + mag[i].dropped
      BY <1>1, <1>5, <1>6, <2>1, <3>1
    <3>3. QED
      BY <3>2
  <2>2. CASE i \in Pending
    BY <1>1, <1>4, <1>6, <2>2
  <2>3. QED
    BY <1>1, <1>6, <2>1, <2>2
<1>8. OnTime'
  BY <1>2, <1>4, <1>6, CountTypes DEF OnTime
<1>7. QED
  BY <1>3, <1>8 DEF Counts

\* Initially nothing was delivered.
LEMMA InitCounts == Init => Counts
<1> SUFFICES ASSUME Init PROVE Counts
  OBVIOUS
<1>1. Control
  BY InitControl
<1>2. Pending = {} /\ mag[first_free].dropped = 0
  <2>1. first_free = first_filled /\ first_free \in Slots /\ dpc = "top"
    BY <1>1 DEF Init, Control, TypeOK
  <2>2. Filled = {}
    BY <2>1, FilledSlots
  <2>3. QED
    BY <2>1, <2>2, MagFifoAssumption DEF Init, Pending, EmptyBuf, Slots
<1>3. In(mag, {}) = 0
  BY <1>1, CountTypes, Counting
<1>4. Held = 0 /\ ~Pushes
  BY DEF Init, Held, Pushes
<1>5. QED
  BY <1>2, <1>3, <1>4 DEF Init, Counts, Conserved, OnTime, InSlot

\* Every step counts the samples it moves.
LEMMA CountsStep ==
  ASSUME Control, Control', Stream, Counts, [Next]_vars
  PROVE  Counts'
<1>1. CASE UsbBlock
  <2>1. PICK len \in BlockLengths : block' = [block EXCEPT !.id = @ + 1, !.len = len] /\ delivered' = delivered + len
    BY <1>1 DEF UsbBlock
  <2>2. /\ UNCHANGED <<processed, samples_dropped, sampleCounter, mag, first_free, first_filled, dpc, buf>>
        /\ rpc = "usb" /\ rpc' = "usbSize"
    BY <1>1 DEF UsbBlock, ring, decoder
  <2>3. block.len' = len /\ block.cut' = block.cut /\ len \in Nat
    BY <2>1, MagFifoAssumption DEF Control, TypeOK
  <2>4. Pending' = Pending /\ \A i \in Pending : Before(i)' = Before(i)
    BY <2>2 DEF Pending, Filled, Before
  <2>5. Held' = len /\ Held = 0 /\ ~Pushes /\ ~Pushes' /\ InSlot' = InSlot
    BY <2>2, <2>3 DEF Held, Pushes, InSlot
  <2>6. Conserved'
    BY <2>1, <2>2, <2>3, <2>4, <2>5, CountTypes DEF Counts, Conserved
  <2>7. OnTime'
    BY <2>1, <2>2, <2>3, <2>4, <2>5, CountTypes DEF Counts, OnTime
  <2>8. QED
    BY <2>6, <2>7 DEF Counts
<1>2. CASE UsbSize
  <2> DEFINE discard == IF block.len > Full THEN block.len - Full ELSE 0
  <2>1. /\ UNCHANGED <<delivered, processed, samples_dropped, sampleCounter, first_free, first_filled, dpc, buf>>
        /\ rpc = "usbSize" /\ rpc' \in {"usbDrop", "usbFill"} /\ out = first_free
    BY <1>2 DEF UsbSize, decoder, Control, Reserved, UsbHolding
  <2>2. /\ mag' = [mag EXCEPT ![out].dropped = @ + discard]
        /\ block' = [block EXCEPT !.len = @ - discard, !.cut = @ \/ discard > 0]
    BY <1>2 DEF UsbSize
  <2>3. /\ \A i \in Slots \ {first_free} : mag'[i] = mag[i]
        /\ mag'[first_free].dropped = mag[first_free].dropped + discard
    BY <2>1, <2>2 DEF Control, TypeOK, Buffer
  <2>4. block.len' = block.len - discard /\ block.cut' = (block.cut \/ discard > 0) /\ discard \in Nat
    BY <2>2, MagFifoAssumption DEF Control, TypeOK
  <2>5. Pending' = Pending
    BY <2>1 DEF Pending, Filled
  <2>6. /\ In(mag', Pending) = In(mag, Pending)
        /\ \A i \in Pending : /\ Before(i)' = Before(i) /\ mag'[i] = mag[i]
                              /\ In(mag', Before(i)) = In(mag, Before(i))
    BY <2>1, <2>3, <2>5, SlotApart
  <2>7. Held = block.len /\ Held' = block.len - discard /\ ~Pushes /\ ~Pushes'
        /\ InSlot = mag[first_free].dropped /\ InSlot' = mag[first_free].dropped + discard
    BY <2>1, <2>3, <2>4, CountTypes DEF Held, Pushes, InSlot
  <2>8. Conserved'
    BY <2>1, <2>4, <2>5, <2>6, <2>7, CountTypes DEF Counts, Conserved
  <2>9. OnTime'
    <3>1. ~block.cut' => ~block.cut /\ discard = 0
      <4> HIDE DEF discard
      <4>1. ~block.cut' => ~block.cut /\ ~(discard > 0)
        BY <2>4, Zenon
      <4>2. QED
        BY <2>4, <4>1
    <3>2. ASSUME ~block.cut, discard = 0
          PROVE  /\ sampleCounter' + Held' = delivered'
                 /\ \A i \in Pending' :
                       mag'[i].stamp = processed' + samples_dropped' + In(mag', Before(i)') + mag'[i].dropped
      <4> HIDE DEF discard
      <4>1. QED
        BY <2>1, <2>5, <2>6, <2>7, <3>2, CountTypes DEF Counts, OnTime
    <3>3. QED
      BY <2>7, <3>1, <3>2 DEF OnTime
  <2>10. QED
    BY <2>8, <2>9 DEF Counts
<1>3. CASE UsbDrop
  <2>1. /\ UNCHANGED <<delivered, processed, samples_dropped, block, first_free, first_filled, buf>>
        /\ sampleCounter' = sampleCounter + block.len
        /\ rpc = "usbDrop" /\ rpc' = "usb" /\ out = first_free /\ (dpc' = "release" <=> dpc = "release")
    BY <1>3 DEF UsbDrop, DecoderIdle, WakeDecode, Control, Reserved, UsbHolding
  <2>2. /\ \A i \in Slots \ {first_free} : mag'[i] = mag[i]
        /\ mag'[first_free].dropped = mag[first_free].dropped + block.len
    BY <1>3, <2>1 DEF UsbDrop, Control, TypeOK, Buffer
  <2>3. Pending' = Pending
    BY <2>1 DEF Pending, Filled
  <2>4. /\ In(mag', Pending) = In(mag, Pending)
        /\ \A i \in Pending : /\ Before(i)' = Before(i) /\ mag'[i] = mag[i]
                              /\ In(mag', Before(i)) = In(mag, Before(i))
    BY <2>1, <2>2, <2>3, SlotApart
  <2>5. Held = block.len /\ Held' = 0 /\ ~Pushes /\ ~Pushes'
        /\ InSlot = mag[first_free].dropped /\ InSlot' = mag[first_free].dropped + block.len
    BY <2>1, <2>2, CountTypes DEF Held, Pushes, InSlot
  <2>6. Conserved'
    BY <2>1, <2>3, <2>4, <2>5, CountTypes DEF Counts, Conserved
  <2>7. OnTime'
    BY <2>1, <2>3, <2>4, <2>5, CountTypes DEF Counts, OnTime
  <2>8. QED
    BY <2>6, <2>7 DEF Counts
<1>4. CASE UsbFill
  <2>1. /\ UNCHANGED <<delivered, processed, samples_dropped, block, first_free, first_filled, buf, dpc>>
        /\ sampleCounter' = sampleCounter + block.len
        /\ rpc = "usbFill" /\ rpc' = "usbPush" /\ out = first_free
    BY <1>4 DEF UsbFill, decoder, Control, Reserved, UsbHolding
  <2>2. /\ \A i \in Slots \ {first_free} : mag'[i] = mag[i]
        /\ mag'[first_free].dropped = mag[first_free].dropped
        /\ mag'[first_free].length = block.len /\ mag'[first_free].stamp = sampleCounter
    BY <1>4, <2>1 DEF UsbFill, Control, TypeOK, Buffer
  <2>3. Pending' = Pending
    BY <2>1 DEF Pending, Filled
  <2>4. /\ In(mag', Pending) = In(mag, Pending)
        /\ \A i \in Pending : /\ Before(i)' = Before(i) /\ mag'[i] = mag[i]
                              /\ In(mag', Before(i)) = In(mag, Before(i))
    BY <2>1, <2>2, <2>3, SlotApart
  <2>5. Held = block.len /\ Held' = 0 /\ ~Pushes /\ Pushes'
        /\ InSlot = mag[first_free].dropped /\ InSlot' = block.len + mag[first_free].dropped
    BY <2>1, <2>2, CountTypes DEF Held, Pushes, InSlot
  <2>6. Conserved'
    BY <2>1, <2>3, <2>4, <2>5, CountTypes DEF Counts, Conserved
  <2>7. OnTime'
    BY <2>1, <2>2, <2>3, <2>4, <2>5, CountTypes DEF Counts, OnTime
  <2>8. QED
    BY <2>6, <2>7 DEF Counts
<1>5. CASE UsbPush
  <2>1. /\ UNCHANGED <<delivered, processed, samples_dropped, sampleCounter, block, first_filled, buf>>
        /\ rpc = "usbPush" /\ rpc' = "usb" /\ next = Inc(first_free) /\ Inc(first_free) # first_filled
        /\ first_free' = Inc(first_free) /\ (dpc' = "release" <=> dpc = "release")
    BY <1>5 DEF UsbPush, DecoderIdle, WakeDecode, Control, Reserved, UsbHolding
  <2>2. /\ \A i \in Slots \ {Inc(first_free)} : mag'[i] = mag[i]
        /\ mag'[first_free'].dropped = 0
    BY <1>5, <2>1, Ring DEF UsbPush, Control, TypeOK, Buffer
  <2>3. QED
    BY <2>1, <2>2, PushCounts DEF Pushes
<1>6. CASE UsbReturn
  <2>1. CountsStay
    BY <1>6 DEF UsbReturn, ring, decoder, CountsStay, Pending, Filled, Before, Pushes, Held
  <2>2. QED
    BY <2>1, CountsStaying
<1>7. CASE FileWait
  <2>1. CountsStay
    BY <1>7 DEF FileWait, ring, decoder, CountsStay, Pending, Filled, Before, Pushes, Held
  <2>2. QED
    BY <2>1, CountsStaying
<1>8. CASE FileTimeout
  <2>1. CountsStay
    BY <1>8 DEF FileTimeout, ring, decoder, CountsStay, Pending, Filled, Before, Pushes, Held
  <2>2. QED
    BY <2>1, CountsStaying
<1>9. CASE FileTake
  <2>1. CountsStay
    BY <1>9 DEF FileTake, ring, decoder, CountsStay, Pending, Filled, Before, Pushes, Held
  <2>2. QED
    BY <2>1, CountsStaying
<1>10. CASE FileFill
  <2>1. PICK len \in 0..Full :
           /\ block' = [block EXCEPT !.id = @ + 1, !.len = len]
           /\ delivered' = delivered + len /\ sampleCounter' = sampleCounter + len
           /\ mag' = [mag EXCEPT ![out] =
                         [@ EXCEPT !.block = block.id + 1,
                                   !.overlap = IF mag[Dec(out)].length >= Trailing
                                               THEN TailOf(Dec(out)) ELSE 0,
                                   !.length = len,
                                   !.stamp = sampleCounter]]
    BY <1>10 DEF FileFill
  <2>2. /\ UNCHANGED <<processed, samples_dropped, first_free, first_filled, buf, dpc>>
        /\ rpc = "fileFill" /\ rpc' = "filePush" /\ out = first_free
    BY <1>10 DEF FileFill, decoder, Control, Reserved, FileHolding
  <2>3. /\ \A i \in Slots \ {first_free} : mag'[i] = mag[i]
        /\ mag'[first_free].dropped = mag[first_free].dropped
        /\ mag'[first_free].length = len /\ mag'[first_free].stamp = sampleCounter
    BY <2>1, <2>2 DEF Control, TypeOK, Buffer
  <2>4. Pending' = Pending
    BY <2>2 DEF Pending, Filled
  <2>5. /\ In(mag', Pending) = In(mag, Pending)
        /\ \A i \in Pending : /\ Before(i)' = Before(i) /\ mag'[i] = mag[i]
                              /\ In(mag', Before(i)) = In(mag, Before(i))
    BY <2>2, <2>3, <2>4, SlotApart
  <2>6. Held = 0 /\ Held' = 0 /\ ~Pushes /\ Pushes'
        /\ InSlot = mag[first_free].dropped /\ InSlot' = len + mag[first_free].dropped
    BY <2>2, <2>3, CountTypes DEF Held, Pushes, InSlot
  <2>7. len \in Nat /\ block.cut' = block.cut
    BY <2>1, MagFifoAssumption DEF Control, TypeOK
  <2>8. delivered' = delivered + len /\ sampleCounter' = sampleCounter + len /\ UNCHANGED <<processed, samples_dropped>>
    BY <2>1, <2>2
  <2>9. Conserved'
    <3>1. delivered = processed + samples_dropped + In(mag, Pending) + mag[first_free].dropped
      BY <2>6, CountTypes DEF Counts, Conserved
    <3>2. delivered' = processed' + samples_dropped' + In(mag', Pending') + (len + mag[first_free].dropped)
      BY <2>4, <2>5, <2>7, <2>8, <3>1, CountTypes
    <3>3. QED
      BY <2>6, <3>2, CountTypes DEF Conserved
  <2>11. OnTime'
    <3>1. ASSUME ~block.cut
          PROVE  /\ sampleCounter = delivered
                 /\ \A i \in Pending :
                       mag[i].stamp = processed + samples_dropped + In(mag, Before(i)) + mag[i].dropped
      BY <2>6, <3>1, CountTypes DEF Counts, OnTime
    <3>2. ASSUME ~block.cut, NEW i \in Pending'
          PROVE  mag'[i].stamp = processed' + samples_dropped' + In(mag', Before(i)') + mag'[i].dropped
      BY <2>4, <2>5, <2>8, <3>1, <3>2
    <3>3. ~block.cut => sampleCounter' = delivered'
      BY <2>7, <2>8, <3>1, CountTypes
    <3>4. ~block.cut => mag'[first_free].stamp + mag'[first_free].length = sampleCounter' /\ sampleCounter' \in Nat
      BY <2>3, <2>7, <2>8, CountTypes
    <3>5. QED
      BY <2>2, <2>6, <2>7, <3>2, <3>3, <3>4 DEF OnTime
  <2>12. QED
    BY <2>9, <2>11 DEF Counts
<1>11. CASE FilePush
  <2>1. /\ UNCHANGED <<delivered, processed, samples_dropped, sampleCounter, block, first_filled, buf, mag>>
        /\ rpc = "filePush" /\ rpc' \in {"drain", "top"} /\ Inc(first_free) # first_filled
        /\ first_free' = Inc(first_free) /\ (dpc' = "release" <=> dpc = "release")
    BY <1>11 DEF FilePush, DecoderIdle, WakeDecode, Control, Reserved, FileHolding
  <2>2. mag'[first_free'].dropped = 0
    BY <2>1 DEF Stream, Latest, FileLoop, Control, TypeOK
  <2>3. QED
    BY <2>1, <2>2, PushCounts DEF Pushes
<1>12. CASE FileStop
  <2>1. CountsStay
    BY <1>12 DEF FileStop, ring, decoder, CountsStay, Pending, Filled, Before, Pushes, Held
  <2>2. QED
    BY <2>1, CountsStaying
<1>13. CASE FileDrain
  <2>1. CountsStay
    BY <1>13 DEF FileDrain, ring, WakeDecode, DecoderIdle, CountsStay, Pending, Filled, Before, Pushes, Held
  <2>2. QED
    BY <2>1, CountsStaying
<1>14. CASE FileDrainTimeout
  <2>1. CountsStay
    BY <1>14 DEF FileDrainTimeout, ring, decoder, CountsStay, Pending, Filled, Before, Pushes, Held
  <2>2. QED
    BY <2>1, CountsStaying
<1>15. CASE FileEnd
  <2>1. CountsStay
    BY <1>15 DEF FileEnd, ring, decoder, CountsStay, Pending, Filled, Before, Pushes, Held
  <2>2. QED
    BY <2>1, CountsStaying
<1>16. CASE DecodeTake
  <2>1. CountsStay
    BY <1>16 DEF DecodeTake, DGoto, ring, reader, CountsStay, Pending, Filled, Before, Pushes, Held
  <2>2. QED
    BY <2>1, CountsStaying
<1>17. CASE Demodulate
  <2>1. /\ UNCHANGED <<delivered, sampleCounter, block, mag, rpc, first_free, first_filled>>
        /\ buf = first_filled /\ first_filled # first_free /\ buf' = buf /\ dpc = "demod" /\ dpc' = "release"
        /\ processed' = processed + mag[first_filled].length
        /\ samples_dropped' = samples_dropped + mag[first_filled].dropped
    BY <1>17 DEF Demodulate, DGoto, ring, reader, Control, Taken, Demodulating
  <2>2. first_filled \in Pending /\ Pending' = Pending \ {first_filled} /\ Pending \subseteq Slots
        /\ first_filled \in Slots
    BY <2>1, FilledSlots, PendingSlots DEF Pending, Filled, Control, TypeOK
  <2>3. \A S \in SUBSET Slots : first_filled \in S =>
           In(mag, S) = In(mag, S \ {first_filled}) + mag[first_filled].length + mag[first_filled].dropped
    BY CountTypes, Counting
  <2>4. ASSUME NEW i \in Pending'
        PROVE  Before(i)' = Before(i) \ {first_filled} /\ first_filled \in Before(i) /\ i \in Pending
    <3>1. Pos(first_filled) = 0 /\ Pos(i) \in 0..(N - 1) /\ Pos(i) # 0
      BY <2>2, <2>4, Positions
    <3>2. Pos(first_filled) < Pos(i)
      BY <3>1, MagFifoAssumption
    <3>3. QED
      BY <2>1, <2>2, <3>2 DEF Before, Pos
  <2>5. Held' = Held /\ InSlot' = InSlot /\ Pushes' = Pushes
    BY <2>1 DEF Held, InSlot, Pushes
  <2>6. In(mag, Pending) = In(mag, Pending') + mag[first_filled].length + mag[first_filled].dropped
    BY <2>2, <2>3
  <2>7. Pending' \subseteq Slots /\ In(mag, Pending') \in Nat
    BY <2>2, CountTypes
  <2>8. Conserved'
    BY <2>1, <2>2, <2>5, <2>6, <2>7, CountTypes DEF Counts, Conserved
  <2>9. ASSUME ~block.cut, NEW i \in Pending'
        PROVE  mag[i].stamp = processed' + samples_dropped' + In(mag, Before(i)') + mag[i].dropped
    <3>1. mag[i].stamp = processed + samples_dropped + In(mag, Before(i)) + mag[i].dropped
      BY <2>4, <2>9 DEF Counts, OnTime
    <3>2. Before(i) \subseteq Slots /\ Before(i) \ {first_filled} \subseteq Slots
      BY <2>2, <2>4, CountTypes
    <3>3. In(mag, Before(i)) = In(mag, Before(i)') + mag[first_filled].length + mag[first_filled].dropped
          /\ In(mag, Before(i)') \in Nat
      BY <2>3, <2>4, <3>2, CountTypes
    <3>4. i \in Slots
      BY <2>2, <2>4
    <3>5. QED
      BY <2>1, <2>2, <3>1, <3>3, <3>4, CountTypes
  <2>10. OnTime'
    BY <2>1, <2>5, <2>9 DEF Counts, OnTime
  <2>11. QED
    BY <2>8, <2>10 DEF Counts
<1>18. CASE Release
  <2>1. Pending' = Pending /\ Ordered'
    BY <1>18, Releasing DEF Stream
  <2>2. UNCHANGED <<delivered, processed, samples_dropped, sampleCounter, block, mag, first_free>>
        /\ first_filled' = Inc(first_filled)
    BY <1>18 DEF Release
  <2>3. Pushes' = Pushes /\ Held' = Held
    BY <1>18 DEF Release, Pushes, Held
  <2>4. \A i \in Pending : Before(i)' = Before(i)
    <3>1. first_free \in Slots /\ first_filled \in Slots /\ first_filled # first_free /\ dpc' = "account"
      BY <1>18 DEF Release, DGoto, Control, TypeOK, Taken, Demodulating
    <3>2. Pending = Filled'
      BY <2>1, <3>1 DEF Pending
    <3>3. \A i \in Pending : Pos(i)' = Pos(i) - 1 /\ Pos(i) \in Int
      BY <2>2, <3>1, <3>2, CountTypes, ReleaseSlot, Positions, MagFifoAssumption
    <3>4. \A i \in Pending : Before(i)' = {j \in Pending : Pos(j)' < Pos(i)'}
      BY <2>1 DEF Before, Pos
    <3>5. \A i \in Pending : Before(i) = {j \in Pending : Pos(j) < Pos(i)}
      BY DEF Before, Pos
    <3>6. \A i, j \in Pending : Pos(j)' < Pos(i)' <=> Pos(j) < Pos(i)
      BY <3>3
    <3>7. QED
      BY <3>4, <3>5, <3>6
  <2>5. CountsStay
    BY <2>1, <2>2, <2>3, <2>4 DEF CountsStay
  <2>6. QED
    BY <2>5, CountsStaying
<1>19. CASE Account
  <2>1. CountsStay
    BY <1>19 DEF Account, DGoto, ring, reader, CountsStay, Pending, Filled, Before, Pushes, Held
  <2>2. QED
    BY <2>1, CountsStaying
<1>20. CASE Background
  <2>1. CountsStay
    BY <1>20 DEF Background, DGoto, ring, reader, CountsStay, Pending, Filled, Before, Pushes, Held
  <2>2. QED
    BY <2>1, CountsStaying
<1>21. CASE DecodeWait
  <2>1. CountsStay
    BY <1>21 DEF DecodeWait, DGoto, DecoderIdle, ring, reader, CountsStay, Pending, Filled, Before, Pushes, Held
  <2>2. QED
    BY <2>1, CountsStaying
<1>22. CASE DecodeTimeout
  <2>1. CountsStay
    BY <1>22 DEF DecodeTimeout, DGoto, DecoderIdle, ring, reader, CountsStay, Pending, Filled, Before, Pushes, Held
  <2>2. QED
    BY <2>1, CountsStaying
<1>23. CASE DecodeExit
  <2>1. CountsStay
    BY <1>23 DEF DecodeExit, DGoto, DecoderIdle, ring, reader, CountsStay, Pending, Filled, Before, Pushes, Held
  <2>2. QED
    BY <2>1, CountsStaying
<1>24. CASE ExitRequest
  <2>1. CountsStay
    BY <1>24 DEF ExitRequest, ring, reader, decoder, CountsStay, Pending, Filled, Before, Pushes, Held
  <2>2. QED
    BY <2>1, CountsStaying
<1>25. CASE MainExit
  <2>1. CountsStay
    BY <1>25 DEF MainExit, ring, reader, decoder, CountsStay, Pending, Filled, Before, Pushes, Held
  <2>2. QED
    BY <2>1, CountsStaying
<1>26. CASE UNCHANGED vars
  <2>1. CountsStay
    BY <1>26 DEF vars, ring, reader, decoder, CountsStay, Pending, Filled, Before, Pushes, Held
  <2>2. QED
    BY <2>1, CountsStaying
<1>27. QED
  BY <1>1, <1>2, <1>3, <1>4, <1>5, <1>6, <1>7, <1>8, <1>9, <1>10, <1>11, <1>12, <1>13, <1>14,
     <1>15, <1>16, <1>17, <1>18, <1>19, <1>20, <1>21, <1>22, <1>23, <1>24, <1>25, <1>26 DEF Next,
     Usb, File, Decode

-----------------------------------------------------------------------------
(* The theorems.                                                           *)

\* IInv is invariant.
THEOREM Invariance == Spec => []IInv
<1>1. Init => IInv
  BY InitControl, InitStream, InitCounts DEF IInv
<1>2. IInv /\ [Next]_vars => IInv'
  BY ControlStep, StreamStep, CountsStep DEF IInv
<1>3. QED
  BY <1>1, <1>2, PTL DEF Spec

\* Every variable keeps its type: no index leaves the ring, no block is longer than a buffer.
THEOREM TypeCorrect == Spec => []TypeOK
<1>1. IInv => TypeOK
  BY DEF IInv, Control
<1>2. QED
  BY <1>1, Invariance, PTL

\* The reader never writes to the buffer that the decode thread reads without the mutex,
\* whatever the size of the ring, although it decides on copies of the indices.
THEOREM BuffersSeparate == Spec => []SeparateBuffers
<1>1. IInv => SeparateBuffers
  BY DEF IInv, Control, Reserved, Taken, SeparateBuffers, UsbHolding, FileHolding
<1>2. QED
  BY <1>1, Invariance, PTL

\* The decode thread gets the blocks in order, with each gap marked, and in front of each
\* block the end of the one before it, or zeros after a gap.
THEOREM StreamCorrect == Spec => []StreamExact
<1>1. IInv => InOrderGapsFlagged
  <2>1. SUFFICES ASSUME IInv, NEW i \in Pending
                 PROVE  LET earlier == {mag[j].block : j \in Before(i)} \union {lastDemod}
                        IN  /\ mag[i].block > Max(earlier)
                            /\ mag[i].block > Max(earlier) + 1 => mag[i].dropped > 0
    BY DEF InOrderGapsFlagged
  <2> DEFINE earlier == {mag[j].block : j \in Before(i)} \union {lastDemod}
  <2>2. /\ Control /\ Ordered /\ Flagged /\ first_free \in Slots /\ first_filled \in Slots
        /\ lastDemod \in Nat /\ i \in Filled /\ i \in Slots
    BY <2>1, PendingSlots, MagFifoAssumption DEF IInv, Stream, Control, TypeOK
  <2>3. \A j \in Before(i) : j \in Pending /\ j \in Slots /\ Pos(j) < Pos(i) /\ mag[j].block \in Nat
    BY <2>2, PendingSlots, Fields DEF Before, Pos
  <2>4. Previous(i) \in earlier /\ \A x \in earlier : x <= Previous(i)
    <3>1. CASE Dec(i) \in Pending
      <4>1. i # first_filled /\ Pos(Dec(i)) = Pos(i) - 1
        BY <2>2, <3>1, FilledSlots, PendingSlots
      <4>2. Pos(i) \in Int /\ Dec(i) \in Slots /\ Pos(Dec(i)) \in Int /\ mag[Dec(i)].block \in Nat
        BY <2>2, Positions, Ring, Fields, MagFifoAssumption
      <4>3. Dec(i) \in Before(i)
        BY <3>1, <4>1, <4>2 DEF Before, Pos
      <4>4. ASSUME NEW j \in Before(i)
            PROVE  mag[j].block <= mag[Dec(i)].block
        <5>1. Pos(j) \in Int /\ Pos(j) <= Pos(Dec(i))
          BY <2>2, <2>3, <4>1, <4>2, Positions, MagFifoAssumption
        <5>2. CASE Pos(j) = Pos(Dec(i))
          BY <2>2, <2>3, <4>2, <5>2, Positions
        <5>3. CASE Pos(j) < Pos(Dec(i))
          BY <2>2, <2>3, <3>1, <4>2, <5>3 DEF Ordered
        <5>4. QED
          BY <4>2, <5>1, <5>2, <5>3
      <4>5. lastDemod <= mag[Dec(i)].block
        BY <2>2, <3>1, <4>2 DEF Ordered
      <4>6. QED
        BY <3>1, <4>3, <4>4, <4>5 DEF Previous
    <3>2. CASE Dec(i) \notin Pending
      <4>1. ASSUME NEW j \in Before(i)
            PROVE  FALSE
        <5>1. Pos(i) \in Int /\ Pos(j) \in 0..(N - 1) /\ (Pos(j) = 0 <=> j = first_filled)
              /\ (Pos(i) = 0 <=> i = first_filled)
          BY <2>2, <2>3, Positions, MagFifoAssumption
        <5>2. i # first_filled
          BY <2>3, <5>1, MagFifoAssumption
        <5>3. Dec(i) \in Filled /\ Pos(Dec(i)) = Pos(i) - 1
          BY <2>2, <5>2, FilledSlots
        <5>4. dpc = "release" /\ Dec(i) = first_filled
          BY <2>2, <3>2, <5>3, PendingSlots
        <5>5. Pos(i) - 1 = 0
          BY <2>2, <5>3, <5>4, Positions
        <5>6. j = first_filled
          BY <2>3, <5>1, <5>5, MagFifoAssumption
        <5>7. QED
          BY <2>2, <2>3, <5>4, <5>6, PendingSlots
      <4>2. earlier = {lastDemod}
        BY <4>1
      <4>3. QED
        BY <2>2, <3>2, <4>2 DEF Previous
    <3>3. QED
      BY <3>1, <3>2
  <2>5. earlier \subseteq Nat /\ Previous(i) \in Nat
    BY <2>2, <2>3, <2>4
  <2>6. Max(earlier) = Previous(i)
    BY <2>4, <2>5 DEF Max
  <2>7. Previous(i) < mag[i].block
    BY <2>1, <2>2, <2>3, <2>4, Fields DEF Ordered, Pos
  <2>8. QED
    BY <2>1, <2>2, <2>5, <2>6, <2>7, Fields DEF Flagged
<1>2. IInv => OverlapContinuous
  BY DEF IInv, Stream
<1>3. QED
  BY <1>1, <1>2, Invariance, PTL DEF StreamExact

\* Every sample the source delivers is demodulated, counted as dropped or still in the ring, and
\* until a block is cut the time of a buffer counts all those before it: for rings and blocks of
\* any size, through any number of dropped blocks (the statistics and sampleTimestamp).
THEOREM SamplesAccounted == Spec => []SamplesCounted
<1>1. ASSUME IInv
      PROVE  SamplesCounted
  <2>1. Control /\ Conserved /\ OnTime
    BY <1>1 DEF IInv, Counts
  <2>2. \A S : SamplesIn(S) = In(mag, S)
    BY DEF SamplesIn, In
  <2>3. first_free \in Slots /\ mag \in [Slots -> Buffer]
    BY <2>1, CountTypes
  <2>4. In(mag, {first_free}) = mag[first_free].length + mag[first_free].dropped
    <3>1. {first_free} \in SUBSET Slots /\ {first_free} \ {first_free} = {}
      BY <2>3
    <3>2. /\ In(mag, {}) = 0
          /\ In(mag, {first_free}) = In(mag, {first_free} \ {first_free})
                                       + mag[first_free].length + mag[first_free].dropped
      BY <2>3, <3>1, Counting
    <3>3. In(mag, {first_free} \ {first_free}) = 0
      BY <3>1, <3>2
    <3>4. mag[first_free].length \in Nat /\ mag[first_free].dropped \in Nat
      BY <2>1, <2>3, CountTypes
    <3>5. QED
      BY <3>2, <3>3, <3>4
  <2>5. SamplesConserved
    BY <2>1, <2>2, <2>4, CountTypes DEF SamplesConserved, Conserved, InSlot, Held, Pushes
  <2>6. TimestampExact
    BY <2>1, <2>2 DEF TimestampExact, OnTime
  <2>7. QED
    BY <2>5, <2>6 DEF SamplesCounted
<1>2. QED
  BY <1>1, Invariance, PTL

=============================================================================
