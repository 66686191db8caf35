----------------------------- MODULE RelayProofs -----------------------------
(***************************************************************************)
(* What a chain of instances keeps of a message, and what a ping measures, *)
(* for every number of instances, however they are configured, and for all *)
(* times.                                                                  *)
(*                                                                         *)
(* MarksSurvive is not inductive: a message of multilateration that is     *)
(* known as such must also be sent as such by the next instance, so the    *)
(* invariant says by what it is known (Known), and what of a mark not to   *)
(* forward is still there (Marked).  DelayMeasured is a statement about    *)
(* clocks that are sent modulo Wrap; it rests on lemmas about remainders.  *)
(***************************************************************************)
EXTENDS Relay, TLAPS
-----------------------------------------------------------------------------
(* Pings.                                                                  *)

\* There is one remainder.
LEMMA ModUnique ==
    ASSUME NEW W \in Nat \ {0}, NEW x \in Int, NEW k \in Int, NEW r \in 0..(W - 1), x = r + k * W
    PROVE  x % W = r
<1>1. PICK q \in Int, s \in 0..(W-1) : x = q * W + s /\ s = x % W
   OBVIOUS
<1>2. (k - q) * W = s - r
   BY <1>1
<1>3. k - q = 0
   <2>1. CASE k - q >= 1
      <3>1. (k-q) * W >= W BY <2>1
      <3> QED BY <3>1, <1>2
   <2>2. CASE k - q <= -1
      <3>1. (k-q) * W <= -W BY <2>2
      <3> QED BY <3>1, <1>2
   <2> QED BY <2>1, <2>2
<1>4. k = q
   BY <1>3
<1>5. r = s
   BY <1>1, <1>4
<1> QED BY <1>1, <1>5

\* A number is its remainder and turns of the clock.
LEMMA ModOf ==
    ASSUME NEW W \in Nat \ {0}, NEW x \in Int
    PROVE  \E k \in Int, r \in 0..(W - 1) : x = r + k * W /\ x % W = r
<1>1. PICK q \in Int, s \in 0..(W-1) : x = q * W + s /\ s = x % W
   OBVIOUS
<1> QED BY <1>1

\* What is added to a clock that is sent is added modulo W.
LEMMA ModAdd ==
    ASSUME NEW W \in Nat \ {0}, NEW x \in Int, NEW y \in 0 .. (W - 1)
    PROVE  (x + y) % W = IF (x % W) + y < W THEN (x % W) + y ELSE (x % W) + y - W
<1>1. PICK k \in Int, r \in 0..(W - 1) : x = r + k * W /\ x % W = r
   BY ModOf
<1>2. CASE r + y < W
   <2>1. x + y = (r + y) + k * W /\ r + y \in 0..(W-1) BY <1>1, <1>2
   <2>2. x + y \in Int OBVIOUS
   <2>3. (x + y) % W = r + y BY <2>1, <2>2, ModUnique
   <2> QED BY <2>3, <1>1, <1>2
<1>3. CASE ~ (r + y < W)
   <2>0. (k + 1) * W = k * W + W OBVIOUS
   <2>1. x + y = (r + y - W) + (k + 1) * W BY <1>1, <2>0
   <2>2. x + y \in Int /\ r + y - W \in 0..(W-1) /\ k + 1 \in Int BY <1>1, <1>3
   <2>3. (x + y) % W = r + y - W BY <2>1, <2>2, ModUnique
   <2> QED BY <2>3, <1>1, <1>3
<1> QED BY <1>2, <1>3

\* Taking the remainder in between changes nothing.
LEMMA ModShift ==
    ASSUME NEW W \in Nat \ {0}, NEW x \in Int, NEW z \in Int
    PROVE  ((x % W) + z) % W = (x + z) % W
<1>1. PICK k \in Int, r \in 0..(W - 1) : x = r + k * W /\ x % W = r
   BY ModOf
<1>2. PICK l \in Int, s \in 0..(W - 1) : r + z = s + l * W /\ (r + z) % W = s
   BY ModOf
<1>3. (k + l) * W = k * W + l * W
   OBVIOUS
<1>4. x + z = s + (k + l) * W
   BY <1>1, <1>2, <1>3
<1>5. (x + z) % W = s
   <2>1. x + z \in Int /\ k + l \in Int OBVIOUS
   <2> QED BY <1>4, <2>1, ModUnique
<1> QED BY <1>1, <1>2, <1>5

\* Two clocks less than an eighth of a turn apart are compared as they are, and so are two of
\* which the wrong one is a tick ahead (pongReceived).
LEMMA RttIsApart ==
    ASSUME NEW a \in Int, NEW D \in Nat, D < Wrap \div 8
    PROVE  /\ Png!Rtt(a % Wrap, a + D) = D
           /\ D = 0 => Png!Rtt((a + 1) % Wrap, a) = 0
<1>w. Wrap \in Nat \ {0} /\ Wrap >= 16
   BY RelayAssumption DEF Png!Clocks
<1>0. PICK h \in Nat : h = Wrap \div 8 /\ 8 * h <= Wrap /\ Wrap <= 8 * h + 7
   BY <1>w
<1>e. PICK g \in Nat : g = (Wrap * 7) \div 8 /\ 8 * g <= 7 * Wrap /\ 7 * Wrap <= 8 * g + 7
   BY <1>w
<1>1. PICK r \in 0..(Wrap - 1) : a % Wrap = r
   BY <1>w, ModOf
<1>2. (a + D) % Wrap = IF r + D < Wrap THEN r + D ELSE r + D - Wrap
   <2>1. D \in 0..(Wrap - 1) BY <1>0, <1>w
   <2> QED BY <2>1, <1>1, <1>w, ModAdd
<1>3. Png!Rtt(a % Wrap, a + D) = D
   <2>1. PICK e \in 0..(Wrap - 1) : e = (a + D) % Wrap
      BY <1>1, <1>2, <1>0, <1>w
   <2>2. CASE r + D < Wrap
      <3>1. e = r + D BY <1>2, <2>1, <2>2
      <3>2. Png!Comparable(e, r) = <<e, r>>
         <4>1. e - r \in -g .. g BY <3>1, <1>0, <1>e, <1>w
         <4> QED BY <4>1, <1>e DEF Png!Comparable
      <3> QED BY <3>1, <3>2, <2>1, <1>1 DEF Png!Rtt
   <2>3. CASE ~ (r + D < Wrap)
      <3>1. e = r + D - Wrap BY <1>2, <2>1, <2>3
      <3>2. Png!Comparable(e, r) = <<e + Wrap, r>>
         <4>1. ~ (e - r \in -g .. g) /\ e < r BY <3>1, <1>0, <1>e, <1>w
         <4> QED BY <4>1, <1>e DEF Png!Comparable
      <3>3. ~ (e + Wrap < r) /\ e + Wrap - r = D BY <3>1, <1>w
      <3>4. Png!Comparable((a + D) % Wrap, a % Wrap) = <<e + Wrap, r>> BY <3>2, <2>1, <1>1
      <3> QED BY <3>3, <3>4, <1>w DEF Png!Rtt
   <2> QED BY <2>2, <2>3
<1>4. ASSUME D = 0 PROVE Png!Rtt((a + 1) % Wrap, a) = 0
   <2>1. (a + 1) % Wrap = IF r + 1 < Wrap THEN r + 1 ELSE r + 1 - Wrap
      <3>1. 1 \in 0..(Wrap - 1) BY <1>w
      <3> QED BY <3>1, <1>1, <1>w, ModAdd
   <2>2. PICK p \in 0..(Wrap - 1) : p = (a + 1) % Wrap
      BY <1>1, <2>1, <1>w
   <2>3. CASE r + 1 < Wrap
      <3>1. p = r + 1 BY <2>1, <2>2, <2>3
      <3>2. Png!Comparable(r, p) = <<r, p>>
         <4>1. r - p \in -g .. g BY <3>1, <1>0, <1>e, <1>w
         <4> QED BY <4>1, <1>e DEF Png!Comparable
      <3> QED BY <3>1, <3>2, <2>2, <1>1 DEF Png!Rtt
   <2>4. CASE ~ (r + 1 < Wrap)
      <3>1. p = 0 /\ r = Wrap - 1 BY <2>1, <2>2, <2>4, <1>w
      <3>2. Png!Comparable(r, p) = <<r, p + Wrap>>
         <4>1. ~ (r - p \in -g .. g) /\ ~ (r < p) BY <3>1, <1>0, <1>e, <1>w
         <4> QED BY <4>1, <1>e DEF Png!Comparable
      <3> QED BY <3>1, <3>2, <2>2, <1>1, <1>w DEF Png!Rtt
   <2> QED BY <2>3, <2>4
<1> QED BY <1>3, <1>4

\* The measured delay is the delay of both ways, up to the tick of the client's clock, for all
\* times and every offset of the client's clock.
LEMMA DelayExact ==
    ASSUME NEW t \in Nat, NEW d1 \in Nat, NEW hold \in Nat, NEW d2 \in Nat,
           NEW offset \in Int, NEW tick \in {0, 1}
    PROVE  Png!RttIsDelay(t, d1, hold, d2, offset, tick)
<1> DEFINE answered == t + d1 + hold
           pong == Png!Pong(t % Wrap, t + d1 + offset, answered + offset + tick)
           D == d1 + d2
           a == t + hold + tick
<1>w. Wrap \in Nat \ {0}
   BY RelayAssumption DEF Png!Clocks
<1>1. pong = a % Wrap
   <2>1. pong = ((t % Wrap) + (hold + tick)) % Wrap
      <3>1. (answered + offset + tick) - (t + d1 + offset) = hold + tick OBVIOUS
      <3> QED BY <3>1 DEF Png!Pong
   <2>2. t + (hold + tick) = a /\ t \in Int /\ hold + tick \in Int OBVIOUS
   <2> HIDE DEF pong, a, answered
   <2> QED BY <2>1, <2>2, <1>w, ModShift
<1>2. SUFFICES ASSUME D < Wrap \div 8
               PROVE  Png!Rtt(pong, answered + d2) = IF D < tick THEN 0 ELSE D - tick
   BY DEF Png!RttIsDelay
<1>3. CASE D < tick
   <2>1. answered + d2 = t + hold /\ a = t + hold + 1 /\ D = 0 BY <1>3
   <2>2. t + hold \in Int OBVIOUS
   <2>3. Png!Rtt((t + hold + 1) % Wrap, t + hold) = 0 BY <2>1, <2>2, <1>2, RttIsApart
   <2> QED BY <2>1, <2>3, <1>1, <1>3
<1>4. CASE ~ (D < tick)
   <2>1. answered + d2 = a + (D - tick) /\ D - tick \in Nat /\ a \in Int BY <1>4
   <2>2. D - tick < Wrap \div 8
      <3>1. Wrap \div 8 \in Nat BY <1>w
      <3> QED BY <1>2, <3>1
   <2>3. Png!Rtt(a % Wrap, a + (D - tick)) = D - tick BY <2>1, <2>2, RttIsApart
   <2> QED BY <2>1, <2>3, <1>1, <1>4
<1> QED BY <1>3, <1>4

\* The next ping is due after an interval at the latest, also when the clock has wrapped.
LEMMA PingsContinue ==
    ASSUME NEW t \in Nat PROVE Png!PingsGoOn(t)
<1>1. /\ Wrap \in Nat \ {0} /\ PingInterval \in 0..(Wrap - 1) /\ PingInterval \in 1..PingInterval
      /\ PingInterval \in Nat
   BY RelayAssumption DEF Png!Clocks
<1>2. PICK r \in 0..(Wrap - 1) : t % Wrap = r
   BY <1>1, ModOf
<1>3. (t + PingInterval) % Wrap =
        IF r + PingInterval < Wrap THEN r + PingInterval ELSE r + PingInterval - Wrap
   <2>1. t \in Int OBVIOUS
   <2> QED BY <2>1, <1>1, <1>2, ModAdd
<1>4. Png!PingDue(r, t + PingInterval)
   BY <1>1, <1>3 DEF Png!PingDue
<1> QED BY <1>1, <1>2, <1>4 DEF Png!PingsGoOn
-----------------------------------------------------------------------------
(* Forwarding.                                                             *)

\* Which outputs take which messages (outputMessage).
LEMMA Outputs ==
  ASSUME NEW node, NEW m \in Fwd!Messages, NEW out \in Fwd!OutputMessage(node, m)
  PROVE  /\ out \in {"raw", "beast", "beast_reduce"} => ~Fwd!noforward(node, m)
         /\ out \in Fwd!BeastOutputs \union {"raw"} => ~m.sbs_in
         /\ out = "raw" => m.source # "MLAT"
         /\ m.source = "MLAT" /\ out \in Fwd!SbsOutputs => out \in {"sbs", "sbs_mlat"}
<1> DEFINE
      is_mlat == m.source = "MLAT"
      open    == ~Fwd!noforward(node, m)
      aircraft == m.messages > 0
      reduced == ~node.sbsReduce \/ m.reduce_forward
      Own     == Fwd!If(node.garbage_ports /\ m.garbage, {"garbage"})
                   \union Fwd!If(aircraft /\ reduced,
                             Fwd!If(~is_mlat \/ node.forward_mlat_sbs, {"sbs"})
                             \union Fwd!If(is_mlat, {"sbs_mlat"}))
                   \union Fwd!If(open /\ ~is_mlat /\ Fwd!RightBits(node, m), {"raw"})
                   \union Fwd!If(open /\ (~is_mlat \/ node.forward_mlat) /\ Fwd!RightBits(node, m),
                             {"beast"} \union Fwd!If(m.reduce_forward, {"beast_reduce"}))
                   \union {"dump"} \union {"asterix"}
      Lines   == Fwd!If(m.sbs_in /\ aircraft /\ reduced, {"sbs"} \union Fwd!SbsExtra(m.source))
<1>1. out \in Fwd!If(Fwd!Emitted(node, m), Own) \/ out \in Lines
  BY Zenon DEF Fwd!OutputMessage, Fwd!If
<1>2. CASE out \in Fwd!If(Fwd!Emitted(node, m), Own)
  <2>1. Fwd!Emitted(node, m) /\ out \in Own
    BY <1>2, Zenon DEF Fwd!If
  <2>2. ~m.sbs_in
    BY <2>1 DEF Fwd!Emitted
  <2>3. \/ out \in {"garbage", "sbs", "dump", "asterix"}
        \/ is_mlat /\ out = "sbs_mlat"
        \/ open /\ ~is_mlat /\ out = "raw"
        \/ open /\ out \in {"beast", "beast_reduce"}
    BY <2>1 DEF Fwd!If
  <2> QED
    BY <2>2, <2>3 DEF Fwd!BeastOutputs, Fwd!SbsOutputs
<1>3. CASE out \in Lines
  <2>1. out \in {"sbs"} \union Fwd!SbsExtra(m.source)
    BY <1>3 DEF Fwd!If
  <2>2. out \in {"sbs", "sbs_replay", "sbs_mlat", "sbs_jaero", "sbs_prio"}
    BY <2>1 DEF Fwd!SbsExtra
  <2>3. is_mlat => out \in {"sbs", "sbs_mlat"}
    BY <2>1 DEF Fwd!SbsExtra
  <2> QED
    BY <2>2, <2>3 DEF Fwd!BeastOutputs
<1> QED
  BY <1>1, <1>2, <1>3

Ways   == Fwd!BeastOutputs \union Fwd!SbsOutputs \union {"raw", "overwritten"}
Handed == [mm : Fwd!Messages, node : DOMAIN Nodes, through : SUBSET Ways]

\* neither through an output for all sources nor with another time stamp
Unchanged(msg) == msg.through \intersect {"sbs", "overwritten"} = {}

\* the mark not to forward is the time stamp
Marked(m) == m.marked => m.ts = "noforward" /\ ~m.sbs_in

\* by what multilateration is known
Known(msg) == msg.mm.mlat /\ Unchanged(msg) => Fwd!TellsMlat(msg.mm)

\* the inductive invariant
IInv ==
    /\ format = "forward" => message \in Handed /\ Known(message) /\ Marked(message.mm)
    /\ format = "ping" => message \in Png!PingMessages

\* the message at the next instance
HopTo(out, k) ==
    [mm   |-> Fwd!Arrives(Nodes[message.node], out, Nodes[k], message.mm),
     node |-> k,
     through |-> message.through \union {out}
          \union Fwd!If(Nodes[message.node].beast_set_noforward_timestamp, {"overwritten"})]

\* Membership is true or false.
LEMMA Truth ==
  ASSUME NEW x, NEW S
  PROVE  \E b \in BOOLEAN : b = (x \in S)
<1>1. (x \in S) \in BOOLEAN
  OBVIOUS
<1> QED
  BY <1>1

\* What the next instance has of a message is a message.
LEMMA ArrivesType ==
  ASSUME NEW node, NEW next, NEW out, NEW m \in Fwd!Messages
  PROVE  /\ Fwd!Arrives(node, out, next, m) \in Fwd!Messages
         /\ Fwd!Arrives(node, out, next, m).mlat = m.mlat
<1> DEFINE Stamps  == {"none", "clock", "mlat", "noforward"}
           Sources == {"MODE_S", "SBS", "MLAT", "JAERO", "PRIO"}
<1>1. Fwd!SentTimestamp(node, m) \in Stamps
  BY DEF Fwd!SentTimestamp, Fwd!Messages
<1>2. PICK ts \in Stamps : ts = Fwd!OnTheWay(node, out, Fwd!SentTimestamp(node, m))
  BY <1>1 DEF Fwd!OnTheWay, Fwd!BeastOutputs
<1>3. Fwd!SbsSource(out) \in Sources
  BY DEF Fwd!SbsSource
<1>4. Fwd!ModesSource(next, m, ts) \in Sources
  BY <1>2 DEF Fwd!ModesSource
<1>5. PICK source \in Sources :
        source = IF out \in Fwd!SbsOutputs THEN Fwd!SbsSource(out) ELSE Fwd!ModesSource(next, m, ts)
  BY <1>3, <1>4
<1>6. PICK sbs \in BOOLEAN : sbs = (out \in Fwd!SbsOutputs)
  BY Truth
<1>7. PICK crc0 \in BOOLEAN : crc0 = ~sbs
  OBVIOUS
<1>8. PICK garbage \in BOOLEAN :
        garbage = (~sbs /\ ts = "none" /\ (next.netIngest \/ next.garbage_ports) /\ m.df # "18")
  OBVIOUS
<1>9. PICK marked \in BOOLEAN :
        marked = (/\ m.marked \/ node.beast_set_noforward_timestamp
                  /\ out \in Fwd!BeastOutputs \/ (out = "raw" /\ node.mlat))
  OBVIOUS
<1>10. Fwd!Arrives(node, out, next, m) =
         [m EXCEPT !.ts = ts, !.sbs_in = sbs, !.correctedbits = 0, !.crc0 = crc0,
                   !.source = source, !.garbage = garbage, !.marked = marked]
  BY <1>2, <1>5, <1>6, <1>7, <1>8, <1>9, Zenon DEF Fwd!Arrives
<1>11. Fwd!Arrives(node, out, next, m) =
         [df |-> m.df, sbs_in |-> sbs, source |-> source, ts |-> ts, crc0 |-> crc0,
          correctedbits |-> 0, messages |-> m.messages, reduce_forward |-> m.reduce_forward,
          garbage |-> garbage, mlat |-> m.mlat, marked |-> marked]
  BY <1>10 DEF Fwd!Messages
<1>12. /\ m.df \in STRING /\ m.messages \in Nat
       /\ m.reduce_forward \in BOOLEAN /\ m.mlat \in BOOLEAN
  BY DEF Fwd!Messages
<1> QED
  BY <1>11, <1>12 DEF Fwd!Messages

\* A mark is still there when a message has passed an instance that looks for it.
LEMMA MarkStays ==
  ASSUME NEW node, NEW next, NEW m \in Fwd!Messages, Marked(m),
         NEW out \in Fwd!OutputMessage(node, m)
  PROVE  Marked(Fwd!Arrives(node, out, next, m))
<1> DEFINE a == Fwd!Arrives(node, out, next, m)
<1> SUFFICES ASSUME a.marked PROVE a.ts = "noforward" /\ ~a.sbs_in
  BY DEF Marked
<1>1. /\ m.marked \/ node.beast_set_noforward_timestamp
      /\ out \in Fwd!BeastOutputs \/ (out = "raw" /\ node.mlat)
  BY DEF Fwd!Arrives, Fwd!Messages
<1>2. Fwd!SentTimestamp(node, m) = "noforward"
  BY <1>1 DEF Fwd!SentTimestamp, Marked
<1>3. Fwd!OnTheWay(node, out, Fwd!SentTimestamp(node, m)) = "noforward"
  BY <1>1, <1>2 DEF Fwd!OnTheWay, Fwd!BeastOutputs
<1>4. a.ts = "noforward"
  BY <1>3 DEF Fwd!Arrives, Fwd!Messages
<1>5. ~(out \in Fwd!SbsOutputs)
  BY <1>1 DEF Fwd!SbsOutputs, Fwd!BeastOutputs
<1> QED
  BY <1>4, <1>5 DEF Fwd!Arrives, Fwd!Messages

\* A result of multilateration still tells so, by an output that is its own and with its
\* time stamp.
LEMMA MlatStays ==
  ASSUME NEW node, NEW next, NEW m \in Fwd!Messages, Fwd!TellsMlat(m),
         NEW out \in Fwd!OutputMessage(node, m),
         out # "sbs", out \in Fwd!BeastOutputs \union Fwd!SbsOutputs \union {"raw"},
         ~node.beast_set_noforward_timestamp
  PROVE  Fwd!TellsMlat(Fwd!Arrives(node, out, next, m))
<1> DEFINE a == Fwd!Arrives(node, out, next, m)
<1>1. m.source = "MLAT"
  BY DEF Fwd!TellsMlat
<1>2. CASE out \in Fwd!SbsOutputs
  <2>1. out = "sbs_mlat"
    BY <1>1, <1>2, Outputs
  <2>2. a.source = "MLAT" /\ a.sbs_in
    BY <2>1, <1>2 DEF Fwd!Arrives, Fwd!Messages, Fwd!SbsSource
  <2> QED
    BY <2>2 DEF Fwd!TellsMlat
<1>3. CASE out \in Fwd!BeastOutputs
  <2>1. ~m.sbs_in /\ m.ts = "mlat"
    BY <1>3, Outputs DEF Fwd!TellsMlat
  <2>2. Fwd!OnTheWay(node, out, Fwd!SentTimestamp(node, m)) = "mlat"
    BY <2>1, <1>3 DEF Fwd!OnTheWay, Fwd!SentTimestamp, Fwd!BeastOutputs
  <2>3. ~(out \in Fwd!SbsOutputs)
    BY <1>3 DEF Fwd!SbsOutputs, Fwd!BeastOutputs
  <2>4. Fwd!ModesSource(next, m, "mlat") = "MLAT"
    BY DEF Fwd!ModesSource
  <2>5. a.source = "MLAT" /\ a.ts = "mlat"
    BY <2>2, <2>3, <2>4 DEF Fwd!Arrives, Fwd!Messages
  <2> QED
    BY <2>5 DEF Fwd!TellsMlat
<1>4. out # "raw"
  BY <1>1, Outputs
<1> QED
  BY <1>2, <1>3, <1>4

-----------------------------------------------------------------------------
(* The steps.                                                              *)

\* A hop to another instance (Hop) keeps the invariant.
LEMMA HopKeeps ==
  ASSUME IInv, NEW out \in Fwd!BeastOutputs \union Fwd!SbsOutputs \union {"raw"},
         NEW k \in DOMAIN Nodes, Hop(out, k)
  PROVE  IInv'
<1> DEFINE node == Nodes[message.node]
           next == Nodes[k]
<1>1. /\ format = "forward" /\ format' = format
      /\ message \in Handed /\ Known(message) /\ Marked(message.mm)
      /\ out \in Fwd!OutputMessage(node, message.mm)
      /\ message' = HopTo(out, k)
  BY DEF Hop, IInv, HopTo
<1>2. message.mm \in Fwd!Messages /\ message.through \in SUBSET Ways
  BY <1>1 DEF Handed
<1>3. /\ message'.mm = Fwd!Arrives(node, out, next, message.mm)
      /\ message'.node = k
      /\ message'.through = message.through \union {out}
            \union Fwd!If(node.beast_set_noforward_timestamp, {"overwritten"})
  BY <1>1 DEF HopTo
<1>4. message' \in Handed
  <2>1. message'.mm \in Fwd!Messages
    BY <1>2, <1>3, ArrivesType
  <2>2. message'.through \in SUBSET Ways
    BY <1>2, <1>3 DEF Fwd!If, Ways
  <2>3. message' = [mm |-> message'.mm, node |-> message'.node, through |-> message'.through]
    BY <1>1 DEF HopTo
  <2> QED
    BY <2>1, <2>2, <2>3, <1>3 DEF Handed
<1>5. Marked(message.mm)'
  <2>1. Marked(message'.mm)
    BY <1>1, <1>2, <1>3, MarkStays
  <2> QED
    BY <2>1 DEF Marked
<1>6. Known(message)'
  <2> SUFFICES ASSUME message'.mm.mlat, Unchanged(message') PROVE Fwd!TellsMlat(message'.mm)
    BY DEF Known, Unchanged, Fwd!TellsMlat
  <2>1. message.mm.mlat
    BY <1>2, <1>3, ArrivesType
  <2>2. out # "sbs" /\ ~node.beast_set_noforward_timestamp /\ Unchanged(message)
    BY <1>3 DEF Unchanged, Fwd!If
  <2>3. Fwd!TellsMlat(message.mm)
    BY <2>1, <2>2, <1>1 DEF Known
  <2> QED
    BY <2>2, <2>3, <1>1, <1>2, <1>3, MlatStays
<1> QED
  BY <1>1, <1>4, <1>5, <1>6 DEF IInv

\* A message at the first instance satisfies it (Choose).
LEMMA ChooseEstablishes ==
  ASSUME NEW fmt \in DOMAIN Conversions, NEW m \in Conversions[fmt], Choose(fmt, m)
  PROVE  IInv'
<1>1. format' = fmt /\ message' = m
  BY DEF Choose
<1>2. ASSUME fmt = "forward"
      PROVE  m \in Handed /\ Known(m) /\ Marked(m.mm)
  <2>1. m \in [mm : Fwd!Messages, node : DOMAIN Nodes, through : {{}}] /\ Fwd!Heard(m.mm)
    BY <1>2, RelayAssumption
  <2>2. m \in Handed
    BY <2>1 DEF Handed
  <2> QED
    BY <2>1, <2>2 DEF Fwd!Heard, Known, Marked
<1>3. fmt = "ping" => m \in Png!PingMessages
  BY RelayAssumption
<1>4. fmt = "forward" => message' \in Handed /\ Known(message)' /\ Marked(message.mm)'
  BY <1>1, <1>2 DEF Known, Marked, Unchanged, Fwd!TellsMlat
<1> QED
  BY <1>1, <1>3, <1>4 DEF IInv

\* Every step of a conversation keeps the invariant.
LEMMA Inductive == IInv /\ [RelayNext]_<<vars, format, message, added>> => IInv'
<1> SUFFICES ASSUME IInv, [RelayNext]_<<vars, format, message, added>> PROVE IInv'
  OBVIOUS
<1>0. ASSUME UNCHANGED <<format, message>> PROVE IInv'
  BY <1>0 DEF IInv, Known, Marked, Unchanged, Fwd!TellsMlat
<1>1. CASE format = "none" /\ Next /\ UNCHANGED <<format, message, added>>
  BY <1>1, <1>0
<1>2. ASSUME NEW fmt \in DOMAIN Conversions, NEW m \in Conversions[fmt], Choose(fmt, m)
      PROVE  IInv'
  BY <1>2, ChooseEstablishes
<1>3. ASSUME format \in DOMAIN Fields, NEW x \in Fields[format], AddField(x[1], x[2])
      PROVE  IInv'
  <2>1. format # "forward" /\ format # "ping"
    BY <1>3, RelayAssumption
  <2>2. format' = format
    BY <1>3 DEF AddField
  <2> QED
    BY <2>1, <2>2 DEF IInv
<1>4. ASSUME NEW out \in Fwd!BeastOutputs \union Fwd!SbsOutputs \union {"raw"},
             NEW k \in DOMAIN Nodes, Hop(out, k)
      PROVE  IInv'
  BY <1>4, HopKeeps
<1>5. ASSUME format = "recent", NEW a, Continue(a)
      PROVE  IInv'
  <2>1. format' = "recent"
    BY <1>5 DEF Continue
  <2> QED
    BY <2>1 DEF IInv
<1>6. CASE UNCHANGED <<vars, format, message, added>>
  BY <1>6, <1>0
<1> QED
  BY <1>1, <1>2, <1>3, <1>4, <1>5, <1>6 DEF RelayNext, none

\* The invariant implies both properties.
LEMMA Consequences == IInv => MarksSurvive /\ DelayMeasured
<1> SUFFICES ASSUME IInv PROVE MarksSurvive /\ DelayMeasured
  OBVIOUS
<1>1. MarksSurvive
  <2> SUFFICES ASSUME format = "forward"
               PROVE  /\ Fwd!KnownAsMlat(message.mm, message.through)
                      /\ Fwd!EndsHere(Nodes[message.node], message.mm)
    BY DEF MarksSurvive
  <2>1. message \in Handed /\ Known(message) /\ Marked(message.mm) /\ message.mm \in Fwd!Messages
    BY DEF IInv, Handed
  <2>2. Fwd!KnownAsMlat(message.mm, message.through)
    BY <2>1 DEF Known, Unchanged, Fwd!KnownAsMlat, Fwd!TellsMlat
  <2>3. ASSUME message.mm.marked, ~Nodes[message.node].beast_forward_noforward,
               NEW out \in Fwd!OutputMessage(Nodes[message.node], message.mm),
               out \in {"raw", "beast", "beast_reduce"}
        PROVE  FALSE
    BY <2>1, <2>3, Outputs DEF Marked, Fwd!noforward
  <2> QED
    BY <2>2, <2>3 DEF Fwd!EndsHere
<1>2. DelayMeasured
  <2> SUFFICES ASSUME format = "ping"
               PROVE  /\ Png!RttIsDelay(message.t, message.d1, message.hold, message.d2,
                                        message.offset, message.tick)
                      /\ Png!PingsGoOn(message.t)
    BY DEF DelayMeasured
  <2>1. message \in Png!PingMessages
    BY DEF IInv
  <2> QED
    BY <2>1, DelayExact, PingsContinue DEF Png!PingMessages
<1> QED
  BY <1>1, <1>2

\* The invariant holds in every state of every conversation.
THEOREM Invariance == RelaySpec => []IInv
<1>1. RelayInit => IInv
  BY DEF RelayInit, IInv, none
<1> QED
  BY <1>1, Inductive, PTL DEF RelaySpec

\* However many instances have handed on a message (outputMessage, decodeModesMessage), what
\* multilateration has computed is known as such, and a mark not to forward is obeyed.
THEOREM MarksLast == RelaySpec => []MarksSurvive
  BY Invariance, Consequences, PTL

\* The delay that is measured with a ping is the delay of its data, and pings do not end, for
\* every clock that wraps (pongReceived, pingSenders).
THEOREM DelayCorrect == RelaySpec => []DelayMeasured
  BY Invariance, Consequences, PTL
==============================================================================
