------------------------------- MODULE Framing -------------------------------
(***************************************************************************)
(* From the bytes of a connection to messages: what an output of another   *)
(* readsb (or a receiver) sends, the reads of modesReadFromClient that cut *)
(* the stream anywhere, and the readers of net_io.c (readBeast, readAscii, *)
(* readBeastcommand, readAsterix, readPlanefinder), one iteration of their *)
(* loops to a step.                                                        *)
(*                                                                         *)
(* A byte is a record: v is its value, of the number of the item it was    *)
(* sent in; the code never sees of.  The values that the framing tells     *)
(* apart are strings ("1a" is the escape, "2" the character), every other  *)
(* value is data.  The sizes of the fields are constants, so that they can *)
(* be smaller than the program's 6, 7, 14 and 8.  A message garbled by a   *)
(* gap in the stream does not pass decodeModesMessage (its CRC).           *)
(***************************************************************************)
EXTENDS Integers, Sequences, SequencesExt, FiniteSetsExt

CONSTANTS
    Feeds,          \* what may be connected, numbered, see FramingAssumption
    TsBytes,        \* of a timestamp: 6
    ShortBytes, LongBytes, AcBytes,     \* of a message: 7, 14, 2
    RidBytes,       \* of a receiver's id: 8
    NowBytes,       \* of the time in a record of the stream: 8
    UuidDigits,     \* hexadecimal digits of a UUID: 32
    BufMax,         \* bufmax less the 4 bytes that are left free
    RestMax,        \* the rest of a read that readBeast keeps: 256
    GARBAGE_THRESHOLD, GarbageRelief,   \* 512; 128 of it are forgotten for each message
    MaxItems, MaxGaps   \* bounds: items that are sent; gaps in the stream

Esc == "1a"
Nul == "00"

ASSUME FramingAssumption ==
    \* fmt: which reader; things: what the other end may send, numbered; any: may a read end in the
    \* middle of an item?; gaps: may bytes be missing?
    /\ \A i \in DOMAIN Feeds : LET f == Feeds[i] IN
        /\ f.fmt \in {"beast", "ascii", "command", "asterix", "planefinder"}
        /\ {f.any, f.gaps, f.netIngest, f.mode_ac, f.accept_synthetic} \subseteq BOOLEAN
    /\ {TsBytes, ShortBytes, LongBytes, AcBytes, RidBytes, NowBytes, UuidDigits, BufMax, RestMax,
        GARBAGE_THRESHOLD, GarbageRelief, MaxItems} \subseteq Nat \ {0}
    /\ MaxGaps \in Nat

VARIABLES
    feed,           \* the number of the feed, never changes
    lastReceiverId, \* of the writer at the other end
    sent,           \* the items sent so far: which thing, with the id of its receiver or not
    link,           \* bytes that have not been read
    buf,            \* c->som to c->eod
    phase,          \* of modesReadFromClient: "recv", "start", "process", "closed"
    c,              \* struct client
    got,            \* what the handler accepted: the item, and the receiver it is taken for
    excused, gaps   \* history: the items a gap may cost; the number of gaps

reader == <<buf, phase, c, got>>
vars   == <<feed, lastReceiverId, sent, link, reader, excused, gaps>>

NoRid == <<>>
Feed  == Feeds[feed]

Init ==
    /\ feed \in DOMAIN Feeds /\ lastReceiverId = NoRid /\ sent = <<>>
    /\ link = <<>> /\ buf = <<>> /\ phase = "recv"
    /\ c = [receiverId |-> NoRid, receiverIdLocked |-> FALSE, garbage |-> 0,
            pingEnabled |-> FALSE]
    /\ got = <<>> /\ excused = {} /\ gaps = 0
-----------------------------------------------------------------------------
(* Writing.  What an item looks like on the line.                          *)

Fill(v, n) == [i \in 1..n |-> v]

Double(bytes) == FlattenSeq([i \in DOMAIN bytes |->
                                IF bytes[i] = Esc THEN <<Esc, Esc>> ELSE <<bytes[i]>>])

\* the id of the receiver, only when it changes
Marker(mm) == IF mm.rid = lastReceiverId THEN <<>> ELSE <<Esc, "e3">> \o Double(mm.rid)

BeastOutput(mm) ==
    Marker(mm) \o <<Esc, mm.type>> \o Double(mm.ts) \o Double(mm.sig) \o Double(mm.msg)

\* a record of the stream: the time of day, as it is, in front of the messages of a
\* millisecond
DumpOutput(mm) == (IF mm.stamped THEN <<Esc, "e8">> \o mm.now ELSE <<>>) \o BeastOutput(mm)

RawOutput(mm) == (IF mm.ts = <<>> THEN <<"*">> ELSE <<"@">> \o mm.ts) \o mm.msg \o <<";", "\n">>

Ping(mm) == <<Esc, "P">> \o Double(mm.ping)

\* other programs: DLE, id, data with DLE doubled, DLE, ETX
Stuffed(bytes) == FlattenSeq([i \in DOMAIN bytes |->
                                IF bytes[i] = "DLE" THEN <<"DLE", "DLE">> ELSE <<bytes[i]>>])
PlanefinderOutput(mm) == <<"DLE", "c1">> \o Stuffed(mm.msg) \o <<"DLE", "ETX">>

OnTheLine(mm) ==
    CASE mm.as = "beast"       -> BeastOutput(mm)
      [] mm.as = "dump"        -> DumpOutput(mm)
      [] mm.as = "raw"         -> RawOutput(mm)
      [] mm.as = "ping"        -> Ping(mm)
      [] mm.as = "planefinder" -> PlanefinderOutput(mm)
      [] mm.as \in {"plain", "id"} -> mm.bytes

\* the messages that follow belong to a receiver that is named here
Marks(mm) == mm.as = "id" \/ (mm.as \in {"beast", "dump"} /\ mm.rid # lastReceiverId)

Send(i) ==
    /\ phase = "recv" /\ Len(sent) < MaxItems
    /\ LET mm == Feed.things[i]
           n  == Len(sent) + 1
       IN  /\ mm.first => sent = <<>>
           /\ link' = link \o [k \in DOMAIN OnTheLine(mm) |-> [v |-> OnTheLine(mm)[k], of |-> n]]
           /\ sent' = Append(sent, [thing |-> i, marks |-> Marks(mm)])
           /\ lastReceiverId' = IF Marks(mm) THEN mm.rid ELSE lastReceiverId
    /\ UNCHANGED <<feed, reader, excused, gaps>>
-----------------------------------------------------------------------------
(* Gaps.  The items that lose bytes and the one that follows may be lost.  *)

ItemsOf(bytes) == {bytes[i].of : i \in DOMAIN bytes}

Lose(bytes) ==
    /\ bytes # <<>> /\ Feed.gaps /\ gaps < MaxGaps
    /\ excused' = excused \union ItemsOf(bytes) \union {Max(ItemsOf(bytes)) + 1}
    /\ gaps' = gaps + 1

\* the queue of the sender is full: what the kernel has not taken is discarded
SendqDiscarded(n) ==
    /\ phase = "recv"
    /\ Lose(SubSeq(link, n + 1, Len(link)))
    /\ link' = SubSeq(link, 1, n)
    /\ UNCHANGED <<feed, lastReceiverId, sent, reader>>

\* c->discard: not enough CPU.  The rest of an earlier read goes too if the loop reads once
\* more before discard is reset.
ReadDiscarded(n, again) ==
    /\ phase = "recv"
    /\ Lose((IF again THEN buf ELSE <<>>) \o SubSeq(link, 1, n))
    /\ link' = SubSeq(link, n + 1, Len(link))
    /\ buf' = IF again THEN <<>> ELSE buf
    /\ UNCHANGED <<feed, lastReceiverId, sent, phase, c, got>>
-----------------------------------------------------------------------------
(* Reading.                                                                *)

\* a buffer that is full is discarded
Room == IF Len(buf) < BufMax THEN BufMax - Len(buf) ELSE BufMax
Kept == IF Len(buf) < BufMax THEN buf ELSE <<>>

WholeItems(n) == link[n].of \notin ItemsOf(SubSeq(link, n + 1, Len(link)))

Recv(n) ==
    /\ phase = "recv" /\ n <= Room /\ (Feed.any \/ WholeItems(n))
    /\ buf' = Kept \o SubSeq(link, 1, n) /\ link' = SubSeq(link, n + 1, Len(link))
    /\ phase' = IF Feed.netIngest THEN "start" ELSE "process"
    /\ c' = IF Len(buf) < BufMax THEN c ELSE [c EXCEPT !.garbage = @ + Len(buf)]
    /\ UNCHANGED <<feed, lastReceiverId, sent, got, excused, gaps>>

Values(bytes) == [i \in DOMAIN bytes |-> bytes[i].v]

From(b, i) == SubSeq(b, i, Len(b))

\* the first place of a value, 0 if there is none
Place(b, v) == SelectInSeq(b, LAMBDA x : x.v = v)

\* What an iteration of a reader's loop does: the rest of the data (som), is it the last
\* one?, the kind of message for the handler ("" is none) and its bytes, the client.
Step(rest, ends, kind, bytes, cl) ==
    [rest |-> rest, ends |-> ends, kind |-> kind, bytes |-> bytes, c |-> cl]

RetryLater(b, cl)       == Step(b, TRUE, "", <<>>, cl)
Skip(b, cl)             == Step(b, FALSE, "", <<>>, cl)
Message(b, kind, m, cl) == Step(b, FALSE, kind, m, cl)
Garbage(cl, n)          == [cl EXCEPT !.garbage = @ + n]

Whole(bytes, rest) == [is |-> "whole", bytes |-> bytes, rest |-> rest]
Broken(rest)       == [is |-> "broken", bytes |-> <<>>, rest |-> rest]
Incomplete         == [is |-> "incomplete", bytes |-> <<>>, rest |-> <<>>]

After(x, u)        == [u EXCEPT !.bytes = <<x>> \o @]

\* Fault: the escape characters that are passed do not make the message longer.
UnescapedShort(b, n) ==
    LET f[p \in 1..(Len(b) + 1), m \in 0..n] ==
            IF m = 0 THEN Whole(<<>>, From(b, p))
            ELSE IF Len(b) - p + 1 < m THEN Incomplete
            ELSE IF b[p].v # Esc \/ m = 1 THEN After(b[p], f[p + 1, m - 1])
            ELSE IF b[p + 1].v # Esc THEN Broken(From(b, p))
            ELSE After(b[p + 1], f[p + 2, m - 2])
    IN  f[1, n]

\* n bytes, doubled escape characters counted once; an escape character followed by another
\* value is the start of a message.  From place p on, m bytes are missing.
Unescaped(b, n) ==
    LET f[p \in 1..(Len(b) + 1), m \in 0..n] ==
            LET left == Len(b) - p + 1 IN
            IF m = 0 THEN Whole(<<>>, From(b, p))
            ELSE IF left < m \/ (b[p].v = Esc /\ left < m + 1) THEN Incomplete
            ELSE IF b[p].v # Esc THEN After(b[p], f[p + 1, m - 1])
            ELSE IF b[p + 1].v # Esc THEN Broken(From(b, p))
            ELSE After(b[p + 1], f[p + 2, m - 1])
    IN  f[1, n]

\* the id of a receiver: the check is made only if a byte follows the pair, and the search
\* for the next message goes on behind the escape character
UnescapedRid(b, n) ==
    LET f[p \in 1..(Len(b) + 1), m \in 0..n] ==
            IF m = 0 THEN Whole(<<>>, From(b, p))
            ELSE IF p > Len(b) THEN Incomplete
            ELSE IF b[p].v # Esc THEN After(b[p], f[p + 1, m - 1])
            ELSE IF p + 2 > Len(b) THEN Incomplete
            ELSE IF b[p + 1].v # Esc THEN Broken(From(b, p + 1))
            ELSE After(b[p + 1], f[p + 2, m - 1])
    IN  f[1, n]

BodyBytes(type) ==
    CASE type = "1" -> TsBytes + 1 + AcBytes
      [] type = "2" -> TsBytes + 1 + ShortBytes
      [] type = "3" -> TsBytes + 1 + LongBytes
      [] type = "5" -> TsBytes + 1 + LongBytes
      [] type = "P" -> 3

\* b starts with the escape character and the type
BeastBody(b, cl) ==
    LET u == Unescaped(From(b, 3), BodyBytes(b[2].v))
    IN  CASE u.is = "incomplete" -> RetryLater(b, cl)
          [] u.is = "broken"     -> Skip(u.rest, Garbage(cl, Len(b) - Len(u.rest)))
          [] u.is = "whole"      ->
                Message(u.rest, b[2].v, <<b[2]>> \o u.bytes,
                     [cl EXCEPT !.garbage = IF @ > GarbageRelief THEN @ - GarbageRelief ELSE @])

\* read_uuid: digits up to a byte that is none, which goes with them; half of them are
\* enough; only once, and nobody asks whether all of them have arrived
IsDigit(x)   == x.v \in {"0", "1", "2", "a"}
DigitsEnd(b) == Min({i \in 1..Len(b) : ~IsDigit(b[i])} \union {UuidDigits + 1, Len(b) + 1})
ReadUuid(b, cl) ==
    IF cl.receiverIdLocked THEN Skip(From(b, UuidDigits + 1), cl)
    ELSE LET e    == DigitsEnd(b)
             rest == From(b, IF e <= UuidDigits THEN e + 1 ELSE e)
         IN  Skip(rest, IF e - 1 < UuidDigits \div 2 THEN cl
                        ELSE [cl EXCEPT !.receiverId = Values(SubSeq(b, 1, e - 1)),
                                        !.receiverIdLocked = TRUE])

\* 'W': the byte after it counts as read even if it has not arrived
ReadCommand(b, cl) ==
    Skip(From(b, 3),
         IF Len(b) >= 3 /\ b[3].v = "O" THEN [cl EXCEPT !.pingEnabled = TRUE] ELSE cl)

BeastMessage(b, cl) ==
    CASE b[2].v \in {"1", "2", "3", "5", "P"} -> BeastBody(b, cl)
      [] b[2].v = "e4" -> ReadUuid(From(b, 3), cl)
      [] b[2].v = "W"  -> ReadCommand(b, cl)
      [] OTHER         -> Skip(From(b, 3), Garbage(cl, 2))

\* what follows a marker is looked at in the same iteration: another marker is no message
AfterMarker(b, cl) ==
    IF b = <<>> \/ b[1].v # Esc THEN Skip(b, cl)
    ELSE IF Len(b) = 1 THEN RetryLater(b, cl)
    ELSE BeastMessage(b, cl)

ReceiverIdMarker(b, cl) ==
    LET u == UnescapedRid(From(b, 3), RidBytes)
    IN  IF u.is = "broken" THEN Skip(u.rest, Garbage(cl, Len(b) - Len(u.rest)))
        ELSE IF u.is = "incomplete" \/ Len(u.rest) < 2 THEN RetryLater(b, cl)
        ELSE AfterMarker(u.rest, IF Feed.netIngest THEN cl
                                 ELSE [cl EXCEPT !.receiverId = Values(u.bytes)])

\* the time of a record: without --devel=accept_synthetic the client is closed
TimeMarker(b, cl) ==
    IF Len(b) < 2 + NowBytes THEN RetryLater(b, cl)
    ELSE IF ~Feed.accept_synthetic THEN Step(b, TRUE, "close", <<>>, cl)
    ELSE AfterMarker(From(b, 3 + NowBytes), cl)

ReadBeast(b, cl) ==
    CASE Place(b, Esc) = 0 -> RetryLater(b, cl)
      [] Place(b, Esc) > 1 -> Skip(From(b, Place(b, Esc)), Garbage(cl, Place(b, Esc) - 1))
      [] Len(b) = 1        -> RetryLater(b, cl)
      [] b[1].v = Esc /\ Len(b) > 1 /\ b[2].v = "e8" -> TimeMarker(b, cl)
      [] b[1].v = Esc /\ Len(b) > 1 /\ b[2].v = "e3" -> ReceiverIdMarker(b, cl)
      [] OTHER             -> BeastMessage(b, cl)

\* bytes that are 0 count as the separator; "\r" before it is removed
Line(b) == IF Len(b) > 1 /\ Last(b).v = "\r" THEN Front(b) ELSE b

ReadAscii(b, cl) ==
    LET e == SelectInSeq(b, LAMBDA x : x.v \in {"\n", Nul})
    IN  IF e = 0 THEN RetryLater(b, cl)
        ELSE Message(From(b, e + 1), "line", Line(SubSeq(b, 1, e - 1)), cl)

\* the place after a command: an escape character that is doubled makes it longer
CommandEnd(b, first, end) ==
    LET f[p \in Nat, eom \in Nat] ==
            IF p > Len(b) \/ p >= eom THEN eom
            ELSE IF b[p].v = Esc THEN f[p + 2, eom + 1] ELSE f[p + 1, eom]
    IN  f[first, end]

ReadBeastCommand(b, cl) ==
    IF Place(b, Esc) = 0 THEN RetryLater(b, cl)
    ELSE IF Place(b, Esc) > 1 THEN Skip(From(b, Place(b, Esc)), cl)
    ELSE IF Len(b) = 1 THEN RetryLater(b, cl)
    ELSE IF b[2].v \notin {"1", "W", "P"} THEN Skip(Tail(b), cl)
    ELSE LET eom == CommandEnd(b, 2, IF b[2].v = "P" THEN 6 ELSE 4)
         IN  IF eom > Len(b) + 1 THEN RetryLater(b, cl)
             ELSE Message(From(b, eom), "command", SubSeq(b, 2, eom - 1), cl)

\* The second byte stands for the two that hold the length.  Nothing asks whether all of the
\* message has arrived: one that was cut by a read is taken from whatever the memory holds.
AsterixLength(b) == IF Len(b) < 2 THEN 0 ELSE CHOOSE n \in 1..BufMax : ToString(n) = b[2].v
ReadAsterix(b, cl) ==
    IF b = <<>> THEN RetryLater(b, cl)
    ELSE IF AsterixLength(b) \notin 1..Len(b) THEN Skip(<<>>, cl)
    ELSE Message(From(b, AsterixLength(b) + 1), "asterix", SubSeq(b, 1, AsterixLength(b)), cl)

\* a message ends at the first DLE ETX, even if this DLE is the second of a pair
PlanefinderEnd(b) ==
    SelectInSeq([i \in 1..(Len(b) - 1) |-> i >= 3 /\ b[i].v = "DLE" /\ b[i + 1].v = "ETX"],
                LAMBDA x : x)

\* a DLE that is the last byte of a read is taken for one inside a message
ReadPlanefinder(b, cl) ==
    LET m == From(b, Place(b, "DLE"))
    IN  IF Place(b, "DLE") = 0 THEN RetryLater(b, cl)
        ELSE IF Len(m) = 1 \/ m[2].v \in {"DLE", "ETX"} THEN Skip(Tail(m), cl)
        ELSE IF PlanefinderEnd(m) = 0 THEN RetryLater(m, cl)
        ELSE Message(From(m, PlanefinderEnd(m) + 2), IF m[2].v = "c1" THEN "c1" ELSE "",
                     SubSeq(m, 1, PlanefinderEnd(m) + 1), cl)

Iteration ==
    CASE Feed.fmt = "beast"       -> ReadBeast(buf, c)
      [] Feed.fmt = "ascii"       -> ReadAscii(buf, c)
      [] Feed.fmt = "command"     -> ReadBeastCommand(buf, c)
      [] Feed.fmt = "asterix"     -> ReadAsterix(buf, c)
      [] Feed.fmt = "planefinder" -> ReadPlanefinder(buf, c)
-----------------------------------------------------------------------------
(* Handlers.                                                               *)

\* the bytes a handler makes the message from
Unstuffed(b) ==
    LET f[p \in 1..(Len(b) + 1)] ==
            IF p > Len(b) THEN <<>>
            ELSE IF b[p].v = "DLE" /\ p < Len(b) THEN <<b[p + 1]>> \o f[p + 2]
            ELSE <<b[p]>> \o f[p + 1]
    IN  f[1]

\* readPingEscaped: after each byte, an escape character is passed over
PingEscaped(b, n) ==
    LET f[p \in Nat, m \in 0..n] ==
            IF m = 0 \/ p > Len(b) THEN <<>>
            ELSE <<b[p]>> \o f[IF p < Len(b) /\ b[p + 1].v = Esc THEN p + 2 ELSE p + 1, m - 1]
    IN  f[1, n]

Read(kind, bytes) ==
    CASE kind = "c1"      -> Unstuffed(SubSeq(bytes, 3, Len(bytes) - 2))
      [] kind = "command" -> <<bytes[1]>> \o
            (IF bytes[1].v = "P" THEN PingEscaped(Tail(bytes), 3) ELSE Tail(bytes))
      [] OTHER            -> bytes

Sent(k) == Feed.things[sent[k].thing]

\* what the handler must make of an item
Content(mm) ==
    CASE mm.as \in {"beast", "dump"} -> <<mm.type>> \o mm.ts \o mm.sig \o mm.msg
      [] mm.as = "raw"         -> Front(RawOutput(mm))
      [] mm.as = "ping"        -> <<"P">> \o mm.ping
      [] mm.as = "planefinder" -> mm.msg
      [] mm.as \in {"plain", "id"} -> mm.content

\* a message that is not what was sent does not pass the checks
Intact(bytes) ==
    /\ bytes # <<>> /\ Cardinality(ItemsOf(bytes)) = 1
    /\ Values(bytes) = Content(Sent(bytes[1].of))

\* decodeBinMessage: Mode A/C only if it is wanted; an answer to a ping from anybody, or if
\* it was enabled
Wanted(kind, cl) ==
    /\ kind = "1" => Feed.mode_ac
    /\ kind = "P" => ~Feed.netIngest \/ cl.pingEnabled

Handled(kind, bytes, cl) ==
    IF kind \notin {"", "close"} /\ Wanted(kind, cl) /\ Intact(Read(kind, bytes))
    THEN Append(got, [of |-> bytes[1].of, rid |-> cl.receiverId]) ELSE got

\* PROXY v1 header of a new connection; one that is incomplete is tried again
IsProxy == Len(buf) >= 6 /\ buf[1].v = "P" /\ buf[2].v = "R"
Eop     == Place(buf, "\r")

StartProcessing ==
    /\ phase = "start"
    /\ IF ~IsProxy THEN phase' = "process" /\ UNCHANGED <<buf, c>>
       ELSE IF Eop \in {0, Len(buf)} THEN phase' = "recv" /\ UNCHANGED <<buf, c>>
       ELSE /\ phase' = "process" /\ buf' = From(buf, Eop + 2)
            /\ c' = [c EXCEPT !.receiverId = Values(SubSeq(buf, 1, Eop - 1))]
    /\ UNCHANGED <<feed, lastReceiverId, sent, link, got, excused, gaps>>

\* readBeast does not keep a long rest; a client with too much garbage is closed
LoopEnds(rest, cl) ==
    LET drop == Feed.fmt = "beast" /\ Len(rest) > RestMax
        g    == IF drop THEN Garbage(cl, Len(rest)) ELSE cl
    IN  /\ buf' = IF drop THEN <<>> ELSE rest
        /\ c' = g
        /\ phase' = IF g.garbage >= GARBAGE_THRESHOLD THEN "closed" ELSE "recv"

Process ==
    /\ phase = "process"
    /\ \E s \in {Iteration} :
        /\ got' = Handled(s.kind, s.bytes, s.c)
        /\ IF s.kind = "close" THEN phase' = "closed" /\ UNCHANGED <<buf, c>>
           ELSE IF s.ends THEN LoopEnds(s.rest, s.c)
           ELSE buf' = s.rest /\ c' = s.c /\ UNCHANGED phase
    /\ UNCHANGED <<feed, lastReceiverId, sent, link, excused, gaps>>

Next ==
    \/ \E i \in DOMAIN Feed.things : Send(i)
    \/ \E n \in 0..(Len(link) - 1) : SendqDiscarded(n)
    \/ \E n \in 1..Len(link), again \in BOOLEAN : ReadDiscarded(n, again)
    \/ \E n \in 1..Len(link) : Recv(n)
    \/ StartProcessing \/ Process

Spec == Init /\ [][Next]_vars
-----------------------------------------------------------------------------
(* Properties.                                                             *)

Arrived(k)   == k \notin ItemsOf(link)
Delivered(k) == \E i \in DOMAIN got : got[i].of = k
IsMessage(k) == Sent(k).counts

\* A message is taken for one of the receiver it came from: the id that counts for it is the
\* one that was sent before it, unless that was lost in a gap.
MarkedBy(k) == Max({0} \union {j \in 1..k : sent[j].marks})
FromItsReceiver ==
    \A i \in DOMAIN got :
        LET m == MarkedBy(got[i].of)
        IN  m # 0 /\ m \notin excused => got[i].rid = Sent(m).rid

\* Every message that has been read, whatever reads it came in, has been given to the
\* handler as it was sent, once and in order; a gap costs the messages it touches and the
\* one after them, and one that is still behind the remains of a message waits for the
\* bytes that follow.  It counts for the receiver it came from.
EveryMessageDelivered ==
    /\ FromItsReceiver
    /\ phase = "recv" =>
        /\ \A k \in DOMAIN sent : IsMessage(k) /\ Arrived(k) /\ k \notin excused =>
                Delivered(k) \/ (gaps > 0 /\ k \in ItemsOf(buf))
        /\ \A i, j \in DOMAIN got : i < j => got[i].of < got[j].of
==============================================================================
