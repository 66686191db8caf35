--------------------------------- MODULE Pings ---------------------------------
(***************************************************************************)
(* The delay of a client's data, measured with pings.  The receiving side  *)
(* sends its clock (pingSenders), modulo Wrap; the client answers at every *)
(* flush with the ping plus what its own clock says has passed since       *)
(* (pong); the receiving side compares the answer with its clock           *)
(* (pongReceived).  Times are in milliseconds, or in coarser units with a  *)
(* smaller Wrap.                                                           *)
(***************************************************************************)
EXTENDS Integers, Sequences

CONSTANTS
    Wrap,               \* of the clock that is sent: 2^24
    PingInterval        \* 5000

\* less than an eighth of a turn is a delay, if an eighth is more than a tick
Clocks == Wrap \in Nat /\ Wrap >= 16 /\ PingInterval \in 1..(Wrap - 1)

\* is a ping due?  A clock that has wrapped sends one at once.
PingDue(currentPing, now) ==
    now % Wrap >= currentPing + PingInterval \/ now % Wrap < currentPing

\* what the client answers; both clocks run equally fast
Pong(ping, pingReceived, now) == (ping + (now - pingReceived)) % Wrap

\* Fault: a clock that has wrapped is only corrected on the receiving side.
ComparableHere(current, pong) ==
    IF pong - current > (Wrap * 7) \div 8 THEN <<current + Wrap, pong>> ELSE <<current, pong>>

\* the two clocks, comparable
Comparable(current, pong) ==
    IF current - pong \in -((Wrap * 7) \div 8)..((Wrap * 7) \div 8) THEN <<current, pong>>
    ELSE IF current < pong THEN <<current + Wrap, pong>> ELSE <<current, pong + Wrap>>

Rtt(pong, now) ==
    LET p == Comparable(now % Wrap, pong) IN IF p[1] < p[2] THEN 0 ELSE p[1] - p[2]

\* decodeBinMessage: the delay that counts for a message
MessageRtt(c, now) ==
    IF c.pongReceived # 0 /\ c.pongReceived > now + 100 THEN Rtt(c.pong, now) ELSE c.rtt
-----------------------------------------------------------------------------
(* What must hold.  A ping sent at t takes d1 to the client, whose clock is  *)
(* off by any offset; hold later it answers, and d2 later the answer is read. *)
(* The client's clock may tick once more between the two times it is read.   *)

PingMessages == [t : Nat, d1 : Nat, hold : Nat, d2 : Nat, offset : Int, tick : {0, 1}]

RttIsDelay(t, d1, hold, d2, offset, tick) ==
    LET answered == t + d1 + hold
        pong     == Pong(t % Wrap, t + d1 + offset, answered + offset + tick)
    IN  d1 + d2 < Wrap \div 8 =>
            Rtt(pong, answered + d2) = (IF d1 + d2 < tick THEN 0 ELSE d1 + d2 - tick)

\* between two pings at most an interval passes, whatever the clock of the last one
PingsGoOn(t) == \E k \in 1..PingInterval : PingDue(t % Wrap, t + k)

\* What a comment promises (net_io.c:3939): a message that comes more than 100 ms after a
\* pong has its delay calculated anew.
Recalculated(c, now) == now > c.pongReceived + 100 => MessageRtt(c, now) = Rtt(c.pong, now)
==============================================================================
