------------------------------- MODULE HexFormat -------------------------------
(***************************************************************************)
(* Messages as lines of hexadecimal digits, and what is beside them: the   *)
(* time stamp and the signal level.  decodeHexMessage reads what the raw   *)
(* output of another readsb and several devices write; decodeBinMessage    *)
(* reads the Beast format, see Framing for its escapes.                    *)
(*                                                                         *)
(* A line is a sequence of characters.  The sizes of a time stamp and of a *)
(* message are constants, to be smaller than the program's.                *)
(***************************************************************************)
EXTENDS Integers, Sequences, SequencesExt, FiniteSetsExt, TLC

CONSTANTS
    TsDigits,                           \* of a time stamp: 12
    AcDigits, ShortDigits, LongDigits   \* of a message: 4, 14, 28

Digits == <<"0", "1", "2", "3", "4", "5", "6", "7", "8", "9", "A", "B", "C", "D", "E", "F">>
HexDigitVal(c) == SelectInSeq(Digits, LAMBDA d : d = c) - 1

Zeros == [i \in 1..TsDigits |-> "0"]

\* the square root of the signal power in 1/255, as it is sent; a signal is never sent as none
SignalByte(level) == IF level > 255 THEN 255 ELSE level
SignalDigits(level) == <<Digits[SignalByte(level) \div 16 + 1], Digits[(SignalByte(level) % 16) + 1]>>

\* modesSendRawOutput
RawLine(mm, mlat) ==
    (IF mlat /\ mm.ts # Zeros THEN <<"@">> \o mm.ts ELSE <<"*">>) \o mm.bits \o <<";">>

\* what devices send
SignalLine(mm)    == <<"<">> \o mm.ts \o SignalDigits(mm.level) \o mm.bits \o <<";">>
TimeLine(mm)      == <<"%">> \o mm.ts \o mm.bits \o <<";">>
ColonLine(mm)     == <<" ", ":">> \o mm.bits \o <<";", " ">>
\* millivolts of the signal, its quality, and the time since the last full second, or not
AerobitsLine(mm)  ==
    <<"*">> \o mm.bits \o <<";", "(", ToString(mm.millivolts), ",", "77">>
    \o (IF mm.pps THEN <<",", ToString(mm.at % 1000), ")">> ELSE <<")">>)

LineOf(mm) ==
    CASE mm.form = "raw"    -> RawLine(mm, FALSE)
      [] mm.form = "mlat"   -> RawLine(mm, TRUE)
      [] mm.form = "signal" -> SignalLine(mm)
      [] mm.form = "time"   -> TimeLine(mm)
      [] mm.form = "colon"  -> ColonLine(mm)
      [] mm.form = "aerobits" -> AerobitsLine(mm)
-----------------------------------------------------------------------------
(* Reading.  What is read: the digits of the message (none if it is refused), *)
(* of its time stamp, its level, and the milliseconds a time stamp was made   *)
(* from if the device has none.                                               *)

Refused == [bits |-> <<>>, ts |-> Zeros, level |-> 0, at |-> <<>>]

Trimmed(line) ==
    LET kept == {i \in DOMAIN line : line[i] # " "}
    IN  IF kept = {} THEN <<>> ELSE SubSeq(line, Min(kept), Max(kept))

\* tokens between the last opening parenthesis and the end
Parenthesis(line) == Max({0} \union {i \in DOMAIN line : line[i] = "("})
Tokens(line) == SelectSeq(SubSeq(line, Parenthesis(line) + 1, Len(line) - 1), LAMBDA x : x # ",")
ValueOf(token) == CHOOSE n \in 0..2000 : ToString(n) = token

\* a time since the last full second that would be half a second ahead is of the second before
PpsSecond(after_pps, now) ==
    IF after_pps > (now % 1000) + 500 THEN (now \div 1000) - 1 ELSE now \div 1000

\* millivolts of at most 1000, squared later like the levels of others
Beside(t, now) ==
    [Refused EXCEPT
        !.level = Min({1000, ValueOf(t[1])}),
        !.at = <<IF Len(t) >= 3 THEN 1000 * PpsSecond(ValueOf(t[3]), now) + ValueOf(t[3]) ELSE now>>]

\* characters in front of the message that are passed over
Prefix(char) == IF char = "%" THEN 1 + TsDigits ELSE 1

\* a message of one of the three sizes, Mode A/C only if it is wanted
Bits(digits, mode_ac, result) ==
    IF /\ Len(digits) \in {AcDigits, ShortDigits, LongDigits}
       /\ Len(digits) = AcDigits => mode_ac
       /\ \A i \in DOMAIN digits : HexDigitVal(digits[i]) # -1
    THEN [result EXCEPT !.bits = digits] ELSE Refused

\* the first character tells what comes before the message
Marked(hex, mode_ac, result) ==
    LET body    == SubSeq(hex, Prefix(hex[1]) + 1, Len(hex) - 1)
        from(n) == SubSeq(body, n + 1, Len(body))
        stamped == [result EXCEPT !.ts = SubSeq(body, 1, TsDigits)]
    IN  CASE hex[1] = "<" /\ Len(body) >= TsDigits + 2 ->
                Bits(from(TsDigits + 2), mode_ac,
                     [stamped EXCEPT !.level = 16 * HexDigitVal(body[TsDigits + 1])
                                               + HexDigitVal(body[TsDigits + 2])])
          [] hex[1] = "@" /\ Len(body) > TsDigits -> Bits(from(TsDigits), mode_ac, stamped)
          [] hex[1] \in {"%", "*", ":"}           -> Bits(body, mode_ac, result)
          [] OTHER                                -> Refused

DecodeHexMessage(line, mode_ac, now) ==
    LET hex    == Trimmed(line)
        beside == hex # <<>> /\ Last(hex) = ")"
        head   == IF beside THEN SubSeq(hex, 1, Parenthesis(hex) - 1) ELSE hex
        t      == Tokens(hex)
    IN  IF \/ head = <<>> \/ (beside /\ Len(t) < 2)
           \/ Last(head) # ";" \/ Len(head) <= AcDigits
        THEN Refused
        ELSE Marked(head, mode_ac, IF beside THEN Beside(t, now) ELSE Refused)
-----------------------------------------------------------------------------
(* What must arrive.                                                         *)

HexRelayed(mm, mode_ac, late) ==
    LET read == DecodeHexMessage(LineOf(mm), mode_ac, mm.at + late)
    IN  IF Len(mm.bits) = AcDigits /\ ~mode_ac THEN read.bits = <<>>
        ELSE /\ read.bits = mm.bits
             /\ mm.form \in {"mlat", "signal"} => read.ts = mm.ts
             /\ mm.form \in {"raw", "time", "colon"} => read.ts = Zeros
             /\ mm.form = "signal" /\ mm.level <= 255 => read.level = mm.level
             /\ mm.form = "aerobits" =>
                    read.level = mm.millivolts
                    /\ read.at = <<IF mm.pps THEN mm.at ELSE mm.at + late>>
==============================================================================
