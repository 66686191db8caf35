----------------------------- MODULE Reception -----------------------------
(***************************************************************************)
(* From received bits to accepted messages: the Mode S parity check and    *)
(* its single-bit correction (crc.c), the choice among the phases a        *)
(* preamble is sliced at (demod_2400.c), the score and the decision to     *)
(* accept a message (mode_s.c), and the filter of known addresses that     *)
(* decision reads and feeds (icao_filter.c, module IcaoFilter).            *)
(*                                                                         *)
(* Transponders send messages; on the way bits are flipped.  A message is  *)
(* the set of the positions of its one bits, 0 being sent first; a 24-bit  *)
(* word (an address, a remainder) the set of the exponents of its one      *)
(* bits.  Addition of polynomials over GF(2) is then symmetric difference  *)
(* and the parity computed here is the program's own, bit for bit.         *)
(* A message is kept with its two remainders, over 56 and over 112 bits.   *)
(*                                                                         *)
(* Two-bit correction (--aggressive) is not modelled: nfix is 0 or 1.      *)
(***************************************************************************)
EXTENDS IcaoFilter, Integers

CONSTANTS ShowOnly,       \* Modes.show_only: added to the filter at the start
          Receivers,      \* receivers: [name, nfix, fixDF, decodeAll], the last three
                          \* being Modes.nfix_crc, Modes.fixDF and Modes.decode_all
          Air,            \* what reaches them: [name, air, net, phase]: the messages
                          \* sent (records df, addr, ic), and the sets of bits flipped
                          \* on the way from the network and in a slicing by radio
          MaxPhases       \* phases that pass the preamble test: up to 5

VARIABLES receiver,       \* the receiver at hand
          filter,         \* the filter
          last,           \* what became of the last message
          announced       \* every address a squitter in the air announced so far

vars == <<receiver, filter, last, announced>>

-----------------------------------------------------------------------------
(* Parity.                                                                 *)

SHORT == 56
LONG == 112

Plus(x, y) == (x \ y) \union (y \ x)

(* MODES_GENERATOR_POLY, 0xfff409.                                         *)
Generator == (12 .. 23) \union {10, 3, 0}

(* The remainders of x^0, x^1, ...: one step of the shift register each.   *)
Shift(r) ==
    LET shifted == {k + 1 : k \in r \ {23}}
    IN  IF 23 \in r THEN Plus(shifted, Generator) ELSE shifted
Remainders ==
    FoldLeft(LAMBDA rs, e : Append(rs, Shift(Last(rs))), <<{0}>>, [e \in 1 .. LONG - 1 |-> e])
Remainder(e) == Remainders[e + 1]

(* single_bit_syndrome of position i of a message of that many bits.       *)
Syndrome(i, bits) == Remainder(bits - 1 - i)

modesChecksum(positions, bits) ==
    LET present == {i \in positions : i < bits}
    IN  {e \in 0 .. 23 :
            Cardinality({i \in present : e \in Syndrome(i, bits)}) % 2 = 1}
AsMessage(positions) ==
    [ones |-> positions, short |-> modesChecksum(positions, SHORT),
     long |-> modesChecksum(positions, LONG)]
Crc(msg, bits) == IF bits = SHORT THEN msg.short ELSE msg.long

(* modesChecksumFix, and any other flip of bits: the remainders change by  *)
(* those of the bits flipped.                                              *)
Flip(msg, positions) ==
    [ones |-> Plus(msg.ones, positions),
     short |-> Plus(msg.short, modesChecksum(positions, SHORT)),
     long |-> Plus(msg.long, modesChecksum(positions, LONG))]

(* modesMessageLenByType.                                                  *)
Length(df) == IF df >= 16 THEN LONG ELSE SHORT

(* The positions that may be corrected: all but the format's, and only     *)
(* those whose syndrome no other position shares.                          *)
ErrorTable(bits) ==
    LET errors == {<<i, Syndrome(i, bits)>> : i \in 5 .. bits - 1}
    IN  {e \in errors : \A f \in errors : e[2] = f[2] => e = f}
bitErrorTable_short == ErrorTable(SHORT)
bitErrorTable_long == ErrorTable(LONG)

NoFix == -1
(* modesChecksumDiagnose: the positions to flip; NoFix is its NULL.        *)
Fixes(table, crc) == {e[1] : e \in {f \in table : f[2] = crc}}
OrNone(fixes) == IF receiver.nfix > 0 /\ fixes # {} THEN fixes ELSE {NoFix}
modesChecksumDiagnose(crc, bits) ==
    IF crc = {} THEN {}
    ELSE OrNone(Fixes(IF bits = SHORT THEN bitErrorTable_short ELSE bitErrorTable_long, crc))

-----------------------------------------------------------------------------
(* The fields of a message.                                                *)

FormatBits(df) == {i \in 0 .. 4 : (df \div 2 ^ (4 - i)) % 2 = 1}
Format(msg) ==
    FoldLeft(LAMBDA n, i : 2 * n + (IF i \in msg.ones THEN 1 ELSE 0), 0, <<0, 1, 2, 3, 4>>)
AnnouncedAddress(msg) == {31 - i : i \in msg.ones \cap (8 .. 31)}

(* What a transponder sends: 11, 17 and 18 announce their address, and     *)
(* have an interrogator code or nothing in their parity; the others have   *)
(* the address there.  One bit of content stands for the rest.             *)
Announces(df) == df \in {11, 17, 18}
Sent(t) ==
    LET bits == Length(t.df)
        content == FormatBits(t.df) \union {6}
                   \union (IF Announces(t.df) THEN {31 - e : e \in t.addr} ELSE {29})
        overlay == IF Announces(t.df) THEN t.ic ELSE t.addr
    IN  AsMessage(content \union
            {bits - 1 - e : e \in Plus(modesChecksum(content, bits), overlay)})

(* The messages that arrive: each sent one with each set of bits flipped.  *)
Arrivals ==
    UNION {UNION {LET sent == Sent(t)
                  IN  {[name |-> place.name, t |-> t, sent |-> sent.ones, flipped |-> d,
                        msg |-> Flip(sent, d)] : d \in place.net \union place.phase}
                  : t \in place.air} : place \in Air}
Place == CHOOSE place \in Air : place.name = receiver.name

AsSquitter(msg) == Flip(msg, Plus(msg.ones \cap (0 .. 4), FormatBits(17)))

(* fixDF17msgtype: is this one flipped format bit away from a squitter     *)
(* with the right parity?                                                  *)
FixesTo17(msg) ==
    /\ receiver.fixDF /\ receiver.nfix > 0
    /\ Format(msg) \in {1, 25, 21, 19, 16}
    /\ AsSquitter(msg).long = {}

Known(addr) == icaoFilterTest(filter, addr)

AllZero(msg) == msg.ones \cap (0 .. SHORT - 1) = {}

(* scoreModesMessage, of which only the order matters.                     *)
ScoreByKind(msg, df, crc, fix) ==
    CASE df \in {0, 4, 5, 16, 20, 21} -> IF Known(crc) THEN 1000 ELSE -1
      [] df = 11 /\ crc \ (0 .. 6) # {} ->
            IF fix = {NoFix} THEN -2
            ELSE IF Known(AnnouncedAddress(Flip(msg, fix))) THEN 800 ELSE -1
      [] df = 11 /\ crc = {} -> IF Known(AnnouncedAddress(msg)) THEN 1600 ELSE 750
      [] df = 11 /\ crc # {} /\ crc \ (0 .. 6) = {} ->
            IF Known(AnnouncedAddress(msg)) THEN 1000 ELSE -1
      [] df \in {17, 18} ->
            IF fix = {NoFix} THEN -2
            ELSE (IF Known(AnnouncedAddress(Flip(msg, fix))) THEN 1800 ELSE 1400)
                 \div (Cardinality(fix) + 1)
      [] OTHER -> -2
ScoreAs(msg, df, crc) ==
    ScoreByKind(msg, df, crc, modesChecksumDiagnose(crc, Length(df)))
scoreModesMessage(msg, validbits) ==
    IF validbits = LONG /\ FixesTo17(msg)
    THEN IF Known(AnnouncedAddress(msg)) THEN 900 ELSE 700
    ELSE IF validbits < Length(Format(msg)) \/ AllZero(msg) THEN -2
    ELSE ScoreAs(msg, Format(msg), Crc(msg, Length(Format(msg))))

-----------------------------------------------------------------------------
(* decodeModesMessage: what it returns, the format and the bits after      *)
(* correction, the address, how many bits it corrected, and whether it     *)
(* adds the address to the filter.                                         *)

HEX_UNKNOWN == (0 .. 31) \ {4, 6, 8, 14, 16, 17, 20, 24, 29}   \* 0xDEADBEEF
Refused(msg, df, code) ==
    [result |-> code, df |-> df, msg |-> msg, addr |-> HEX_UNKNOWN, corrected |-> 0]
Accepted(msg, df, addr, corrected) ==
    [result |-> 0, df |-> df, msg |-> msg, addr |-> addr, corrected |-> corrected]

(* Formats whose parity is the sender's address.                           *)
DecodeAddressParity(msg, df, crc) ==
    IF Known(crc) THEN Accepted(msg, df, crc, 0) ELSE Refused(msg, df, -1)

(* Fault: errors that can not be corrected do not end the decoding.        *)
FaultCorrectedAllCallOn(msg, df, fix) ==
    IF fix = {NoFix} THEN Accepted(msg, df, AnnouncedAddress(msg), 0)
    ELSE IF ~ Known(AnnouncedAddress(Flip(msg, fix))) THEN Refused(Flip(msg, fix), df, -1)
    ELSE Accepted(Flip(msg, fix), df, AnnouncedAddress(Flip(msg, fix)), 1)

(* All-call replies: the low seven bits of the parity may hold the         *)
(* interrogator's code; a corrected one must come from a known address.    *)
CorrectedAllCall(msg, df, fix) ==
    IF fix = {NoFix} THEN Refused(msg, df, -2)
    ELSE IF ~ Known(AnnouncedAddress(Flip(msg, fix))) THEN Refused(Flip(msg, fix), df, -1)
    ELSE Accepted(Flip(msg, fix), df, AnnouncedAddress(Flip(msg, fix)), 1)
DecodeAllCall(msg, df, crc) ==
    IF crc \ (0 .. 6) = {} THEN Accepted(msg, df, AnnouncedAddress(msg), 0)
    ELSE CorrectedAllCall(msg, df, modesChecksumDiagnose(crc, SHORT))

(* Squitters: one whose address was corrected must be of a known address.  *)
CorrectedSquitter(msg, df, fix) ==
    IF fix = {NoFix} THEN Refused(msg, df, -2)
    ELSE IF AnnouncedAddress(Flip(msg, fix)) # AnnouncedAddress(msg)
            /\ ~ Known(AnnouncedAddress(Flip(msg, fix))) THEN Refused(Flip(msg, fix), df, -1)
    ELSE Accepted(Flip(msg, fix), df, AnnouncedAddress(Flip(msg, fix)), 1)
DecodeSquitter(msg, df, crc, corrected) ==
    IF crc = {} THEN Accepted(msg, df, AnnouncedAddress(msg), corrected)
    ELSE CorrectedSquitter(msg, df, modesChecksumDiagnose(crc, LONG))

DecodeByKind(msg, df, crc, corrected) ==
    CASE AllZero(msg) -> Refused(msg, df, -2)
      [] ~ AllZero(msg) /\ df \in {0, 4, 5, 16, 20, 21} \union (24 .. 31) ->
            DecodeAddressParity(msg, df, crc)
      [] ~ AllZero(msg) /\ df = 11 -> DecodeAllCall(msg, df, crc)
      [] ~ AllZero(msg) /\ df \in {17, 18} -> DecodeSquitter(msg, df, crc, corrected)
      [] OTHER -> Refused(msg, df, -2)
decodeModesMessage(msg) ==
    IF FixesTo17(msg) THEN DecodeByKind(AsSquitter(msg), 17, AsSquitter(msg).long, 1)
    ELSE DecodeByKind(msg, Format(msg), Crc(msg, Length(Format(msg))), 0)

(* With decode_all a refused message is decoded to its end all the same,   *)
(* for display; it adds no address.                                        *)
IID(d) == d.msg.short \cap (0 .. 6)
ReachesTheEnd(d) == d.result = 0 \/ receiver.decodeAll

(* Fault: corrected messages add their address too.                        *)
FaultAddsCorrected(d) ==
    /\ ReachesTheEnd(d) /\ d.result = 0
    /\ d.df = 17 \/ (d.df = 11 /\ IID(d) = {})

(* No error seen, and an extended squitter or an acquisition squitter.     *)
AddsAddress(d) ==
    /\ ReachesTheEnd(d) /\ d.result = 0
    /\ d.corrected = 0
    /\ d.df = 17 \/ (d.df = 11 /\ IID(d) = {})

FilterAfter(d) == IF AddsAddress(d) THEN icaoFilterAdd(filter, d.addr) ELSE filter

-----------------------------------------------------------------------------
(* The radio: phases that pass the preamble test are sliced and scored one *)
(* after the other, in two buffers of which one keeps the best so far.     *)

(* The formats worth slicing, ENABLE_DF24 not being set.                   *)
ValidShort == {0, 4, 5, 11}
ValidLong == {16, 17, 18, 20, 21}
             \union (IF receiver.fixDF /\ receiver.nfix > 0 THEN {1, 25, 21, 19, 16} ELSE {})

NoBuffer == 0
Blank == AsMessage({})
Search == [buffer |-> <<Blank, Blank>>, free |-> 1, best |-> NoBuffer, score |-> -42]

PhaseScore(msg, df) ==
    IF df \in ValidLong THEN scoreModesMessage(msg, LONG)
    ELSE IF df \in ValidShort THEN scoreModesMessage(msg, SHORT) ELSE -2

(* Fault: the next phase is sliced into the buffer of the best one.        *)
FaultBestOneBuffer(sliced, score) ==
    IF score > sliced.score THEN [sliced EXCEPT !.best = sliced.free, !.score = score] ELSE sliced

Best(sliced, score) ==
    IF score > sliced.score
    THEN [sliced EXCEPT !.best = sliced.free, !.score = score, !.free = 3 - @] ELSE sliced

(* score_phase.                                                            *)
score_phase(s, msg) ==
    IF Format(msg) \in ValidLong \union ValidShort
    THEN Best([s EXCEPT !.buffer[s.free] = msg], PhaseScore(msg, Format(msg)))
    ELSE [s EXCEPT !.score = Max({@, -2})]

-----------------------------------------------------------------------------
(* What is remembered of a message for the properties: whether its sender  *)
(* announced an address under a parity of its own, the most bits flipped   *)
(* in it, whether a slicing of it was clean, and whether what was accepted *)
(* is what was sent (but for the code of an all-call reply's interrogator).*)
Outcome(copy, d, damage, clean) ==
    LET t == copy.t
        end == Length(t.df) - (IF t.df = 11 THEN 7 ELSE 0)
    IN  [announcing |-> Announces(t.df), damage |-> damage, clean |-> clean,
         accepted |-> d.result = 0,
         faithful |-> /\ d.df = t.df
                      /\ d.msg.ones \cap (0 .. end - 1) = copy.sent \cap (0 .. end - 1)]

Nothing == [announcing |-> FALSE, damage |-> 0, clean |-> FALSE,
            accepted |-> FALSE, faithful |-> FALSE]

Acquires(t) == t.df = 17 \/ (t.df = 11 /\ t.ic = {})
Announce(t) ==
    announced' = IF Acquires(t) THEN announced \union {t.addr} ELSE announced

Init ==
    /\ receiver \in Receivers
    /\ filter = icaoFilterAdd(icaoFilterInit, ShowOnly)
    /\ last = Nothing
    /\ announced = {ShowOnly}

(* A message from the network is decoded as it comes.                      *)
FromNetwork(copy) ==
    \E d \in {decodeModesMessage(copy.msg)} :
        /\ filter' = FilterAfter(d)
        /\ last' = Outcome(copy, d, Cardinality(copy.flipped), FALSE)
        /\ Announce(copy.t)
        /\ UNCHANGED receiver

(* From the radio the best phase is decoded, if any is good enough.        *)
DecodeFound(found) == IF found.score < 0 THEN Refused(Blank, 0, found.score)
                      ELSE decodeModesMessage(found.buffer[found.best])
FromRadio(phases) ==
    LET sizes == {Cardinality(phases[i].flipped) : i \in DOMAIN phases}
        search == FoldLeft(LAMBDA s, copy : score_phase(s, copy.msg), Search, phases)
    IN  \E d \in {DecodeFound(search)} :
        /\ filter' = FilterAfter(d)
        /\ last' = Outcome(phases[1], d, Max(sizes), Acquires(phases[1].t) /\ 0 \in sizes)
        /\ Announce(phases[1].t)
        /\ UNCHANGED receiver

(* Every MODES_ICAO_FILTER_TTL, from the background tasks.                 *)
Expire ==
    /\ filter' = icaoFilterExpire(filter)
    /\ last' = Nothing
    /\ UNCHANGED <<receiver, announced>>

Arriving(t, damage) ==
    {copy \in Arrivals : copy.name = receiver.name /\ copy.t = t /\ copy.flipped \in damage}
Next ==
    \/ \E t \in Place.air : \E copy \in Arriving(t, Place.net) : FromNetwork(copy)
    \/ \E t \in Place.air : \E n \in 1 .. MaxPhases :
          \E phases \in [1 .. n -> Arriving(t, Place.phase)] : FromRadio(phases)
    \/ Expire

Spec == Init /\ [][Next]_vars

-----------------------------------------------------------------------------
(* An address is in the filter only if it was announced: no message with   *)
(* up to five flipped bits brings in another, corrected or not, with or    *)
(* without decode_all.  Six can be a message of their own.                 *)
AddressesHeard == Stored(filter, "a") \union Stored(filter, "b") \subseteq announced

(* A message that announces its address and has at most four flipped bits  *)
(* is refused, or accepted as it was sent: crc.c says of single-bit        *)
(* correction that it detects four errors without flagging collisions.     *)
AcceptedIsSent ==
    last.announcing /\ last.accepted /\ last.damage <= 4 => last.faithful

(* Nothing is believed that was not sent: no address, no message.          *)
NothingInvented == AddressesHeard /\ AcceptedIsSent

(* When one of the phases has an acquisition or extended squitter intact,  *)
(* that is what is decoded, whatever the other phases look like, and it is *)
(* accepted: it wins the score, nothing overwrites it, and the decoder     *)
(* agrees with the score.                                                  *)
CleanCopyWins == last.clean => last.accepted /\ last.faithful

(* Every address added is found until it expires, and no other: whatever   *)
(* collides, through growing, shrinking and a full table.                  *)
Aired == {ShowOnly} \union UNION {{t.addr : t \in place.air} : place \in Air}
Memory == INSTANCE AddressMemory WITH
    Address <- Aired,
    Roomy <- 2 ^ MinBits \div GrowPart,
    Full <- 2 ^ MaxBits,
    current <- {a \in Aired : Found(filter, filter.active, a)},
    previous <- {a \in Aired : Found(filter, Other(filter.active), a)}
ImplementsMemory == Memory!MSpec
=============================================================================
