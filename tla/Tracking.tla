------------------------------- MODULE Tracking -------------------------------
(***************************************************************************)
(* What a received message does to one aircraft (track.c): which data it   *)
(* may replace, how a position is decoded from a CPR pair or relative to    *)
(* the last one, when a position is believed, and how everything a bad,     *)
(* duplicate or garbage position message did is undone from the scratch     *)
(* copy. Times are milliseconds and the thresholds are those of the code.   *)
(* Positions are points, in units of 100 m, of one meridian along which the *)
(* aircraft moves at the constant speed of its environment, in units of      *)
(* 10 m/s, so that a message that arrives late or from a receiver that       *)
(* sends nonsense can be told from the truth. Ground speeds are in knots.   *)
(***************************************************************************)
EXTENDS Integers, Sequences

CONSTANTS
  Mixes,               \* the environments: the options and messages of each
  MaxMessages,         \* bound on the messages received
  JsonReliable,        \* Modes.json_reliable
  PositionPersistence, \* Modes.position_persistence
  NLBounds             \* where the number of longitude zones changes

ASSUME TrackingAssumption ==
  /\ MaxMessages \in Nat
  /\ JsonReliable \in 1..4
  /\ PositionPersistence \in Nat /\ PositionPersistence >= JsonReliable

VARIABLES
  mix,   \* the environment of this behaviour
  now,   \* the time of the last step
  a,     \* the aircraft
  out,   \* the last position given to the trace, and the message it came in
  last,  \* the last message and what became of it
  heard   \* the messages received so far, up to MaxMessages

vars == <<mix, now, a, out, last, heard>>

-----------------------------------------------------------------------------
(* datasource_t, worst first *)
INVALID == 0
INDIRECT == 1
MLAT == 4
MODE_S == 5
JAERO == 6
CHECKED == 7
TISB == 8
ADSB == 10
PRIO == 11

SECONDS == 1000
MINUTES == 60 * SECONDS
TRACK_STALE == 15 * SECONDS
TRACK_EXPIRE == 60 * SECONDS
TRACK_EXPIRE_LONG == 180 * SECONDS
TRACK_EXPIRE_JAERO == 33 * MINUTES
POS_RELIABLE_TIMEOUT == 60 * MINUTES
DISCARD_CACHE == 4
CPR_CACHE == 4
RECEIVERIDBUFFER == 12
Nothing == [source |-> INVALID, last |-> INVALID, updated |-> 0]
ALTITUDE_BARO_RELIABLE_MAX == 20
Half == [enc |-> 0, surface |-> FALSE, nic |-> 0, rc |-> 0]

(* a record of an aircraft nothing is known of; reliability in hundredths *)
Fresh == [known |-> FALSE, seen |-> 0, pos |-> Nothing, rel |-> Nothing,
          even |-> Nothing, odd |-> Nothing, evenCpr |-> Half, oddCpr |-> Half,
          at |-> 0, prev |-> 0, prevTime |-> 0, seenPos |-> 0,
          relAt |-> 0, seenRel |-> 0, seenGlobal |-> 0,
          localRef |-> FALSE, surfaceRef |-> FALSE,
          rOdd |-> 0, rEven |-> 0, recv |-> 0, ids |-> <<>>,
          cache |-> <<>>, disc |-> <<>>, posSurface |-> FALSE,
          ground |-> "invalid", airground |-> Nothing, lastCpr |-> "invalid",
          alt |-> 0, altV |-> Nothing, credit |-> 0,
          version |-> -1, nicA |-> FALSE, nicAV |-> Nothing,
          nicC |-> FALSE, nicCV |-> Nothing, nic |-> 0, rc |-> 0,
          datum |-> 0, datumV |-> Nothing, gs |-> 0, gsV |-> Nothing, gsLast |-> 0,
          squawk |-> 0, squawkV |-> Nothing, tentative |-> 0, tentativeAt |-> 0]

T0 == 10000000
TrueAt(t) == 1000 + (mix.speed * (t - T0)) \div 10000

(* An aircraft that has been tracked for long: every pair of CPR messages   *)
(* of the last seconds agreed.                                              *)
Tracked ==
  LET v == [source |-> ADSB, last |-> ADSB, updated |-> T0]
      x == TrueAt(T0)
  IN [Fresh EXCEPT !.known = TRUE, !.seen = T0, !.pos = v, !.rel = v,
        !.even = [v EXCEPT !.updated = T0 - 400], !.odd = v,
        !.evenCpr = [Half EXCEPT !.enc = x % 6608, !.nic = 8, !.rc = 186],
        !.oddCpr = [Half EXCEPT !.enc = x % 6720, !.nic = 8, !.rc = 186],
        !.nic = 8, !.rc = 186, !.version = 2,
        !.at = x, !.prev = x - 1, !.prevTime = T0 - 400, !.seenPos = T0,
        !.relAt = x, !.seenRel = T0, !.seenGlobal = T0,
        !.localRef = TRUE, !.surfaceRef = TRUE,
        !.rOdd = 100 * PositionPersistence, !.rEven = 100 * PositionPersistence,
        !.recv = 1, !.ids = <<1>>, !.ground = "air",
        !.airground = v, !.lastCpr = "air"]

Abs(x) == IF x < 0 THEN -x ELSE x
Least(x, y) == IF x < y THEN x ELSE y
Most(x, y) == IF x > y THEN x ELSE y
Newest(seq, n) == IF Len(seq) > n THEN SubSeq(seq, 1, n) ELSE seq
-----------------------------------------------------------------------------
(* Compact position reports. 60 even and 59 odd zones go round the earth, a *)
(* report holds the place within its zone; on the ground zones are a        *)
(* quarter of that. Results are <<code, place>>: -2 bad data, -1 try later. *)

Unit(surface) == IF surface THEN 28 ELSE 112
Zone(odd, surface) == (IF odd THEN 60 ELSE 59) * Unit(surface)
Circle == 60 * Zone(FALSE, FALSE)
NL(x) == {b \in NLBounds : b < Abs(x)}
Encode(x, odd, surface) == x % Zone(odd, surface)

(* the two latitudes that an even and an odd report may mean *)
Latitude(e, o, odd, surface) ==
  LET u == Unit(surface)
      j == (2 * (e - o) + u) \div (2 * u)
  IN IF odd THEN Zone(TRUE, surface) * (j % 59) + o
            ELSE Zone(FALSE, surface) * (j % 60) + e

Chosen(lat0, lat1, odd) ==
  IF Abs(lat0) > Circle \div 4 \/ Abs(lat1) > Circle \div 4 THEN <<-2, 0>>
  ELSE IF NL(lat0) # NL(lat1) THEN <<-1, 0>>
  ELSE <<0, IF odd THEN lat1 ELSE lat0>>

DecodeCPRairborne(e, o, odd) ==
  LET Signed(x) == IF x >= 3 * (Circle \div 4) THEN x - Circle ELSE x
  IN Chosen(Signed(Latitude(e, o, FALSE, FALSE)),
            Signed(Latitude(e, o, TRUE, FALSE)), odd)

DecodeCPRsurface(ref, e, o, odd) ==
  LET Near(x) == IF x - ref > Circle \div 8 THEN x - Circle \div 4 ELSE x
  IN Chosen(Near(Latitude(e, o, FALSE, TRUE)), Near(Latitude(e, o, TRUE, TRUE)), odd)

DecodeCPRrelative(ref, enc, odd, surface) ==
  LET z == Zone(odd, surface)
      x == z * (ref \div z + (z + 2 * ((ref % z) - enc)) \div (2 * z)) + enc
  IN IF Abs(x) > Circle \div 4 \/ 2 * Abs(x - ref) > z THEN <<-1, 0>> ELSE <<0, x>>
-----------------------------------------------------------------------------
(* The navigation integrity category and the radius of containment, in      *)
(* metres (0 unknown), that a type of position message stands for.          *)

ComputeNic(type, version, nicA, nicB, nicC) ==
  LET nine == (version = 1 /\ nicA) \/ (version = 2 /\ nicA /\ (IF type = 7 THEN ~nicC ELSE nicB))
      eight == IF nicA /\ nicC THEN 7 ELSE IF nicA \/ nicC THEN 6 ELSE 0
  IN CASE type \in {5, 9, 20} -> 11
       [] type \in {6, 10, 21} -> 10
       [] type \in {7, 11} -> IF nine THEN 9 ELSE 8
       [] type = 8 -> IF version = 2 THEN eight ELSE 0
       [] type \in 12..15 -> 19 - type
       [] type = 16 -> IF nicA /\ nicB THEN 3 ELSE 2
       [] type = 17 -> 1
       [] OTHER -> 0

ComputeRc(type, version, nicA, nicB, nicC) ==
  LET nine == (version = 1 /\ nicA) \/ (version = 2 /\ nicA /\ (IF type = 7 THEN ~nicC ELSE nicB))
      eight == IF nicA THEN (IF nicC THEN 371 ELSE 556) ELSE IF nicC THEN 926 ELSE 0
      thirteen == IF nicA THEN (IF nicB THEN 1112 ELSE 0) ELSE IF nicB THEN 556 ELSE 926
  IN CASE type \in {5, 9, 20} -> 8
       [] type \in {6, 10, 21} -> 25
       [] type \in {7, 11} -> IF nine THEN 75 ELSE 186
       [] type = 8 -> IF version = 2 THEN eight ELSE 0
       [] type = 12 -> 371
       [] type = 13 -> IF version = 2 THEN thirteen
                       ELSE IF version = 1 /\ nicA THEN 1112 ELSE 926
       [] type = 14 -> 1852
       [] type = 15 -> 3704
       [] type = 16 -> IF version \notin {1, 2} THEN 18520
                       ELSE IF nicA /\ (version = 1 \/ nicB) THEN 7408 ELSE 14816
       [] type = 17 -> 37040
       [] OTHER -> 0
-----------------------------------------------------------------------------
(* The handler works on s: the aircraft, the message with what was found    *)
(* out about it so far, and what was published.                             *)

IsPos(m) == m.form \in {"cpr", "sbs"}
Valid(d) == d.source # INVALID
Age(s, d) == Most(0, s.now - d.updated)

PosReliable(c) ==
  /\ Valid(c.pos)
  /\ \/ c.pos.source \in {JAERO, MLAT, INDIRECT}
     \/ c.rOdd >= 100 * JsonReliable /\ c.rEven >= 100 * JsonReliable

(* Fault: data count as stale as soon as the next message arrives. *)
WillAcceptDataAnytime(s, d, src) == src # INVALID /\ s.now >= d.updated

WillAcceptData(s, d, src) ==
  LET m == s.m
      c == s.a
  IN /\ src # INVALID
     /\ s.now >= d.updated
     /\ src >= d.source \/ s.now >= d.updated + TRACK_STALE
     /\ IsPos(m) \/ c.rel.source # JAERO \/ src >= JAERO
     /\ src # JAERO \/ c.rel.last = JAERO \/ s.now >= d.updated + 7 * MINUTES
     /\ \/ ~mix.netReceiverId \/ IsPos(m) \/ c.rel.source < TISB
        \/ s.now - d.updated >= 5 * SECONDS \/ s.now - c.seenRel >= 2200
        \/ \E i \in DOMAIN c.ids : c.ids[i] = m.recv

AcceptedFrom(s, src) ==
  LET kept == IF src = PRIO THEN ADSB ELSE src
  IN [source |-> kept, last |-> kept, updated |-> s.now]

Accepts(s, f) == WillAcceptData(s, s.a[f], s.m.src)
AcceptData(s, f) == [s EXCEPT !.a[f] = AcceptedFrom(s, s.m.src)]

CprDuplicateCheck(s) ==
  LET m == s.m
      Same(e) == /\ s.now - e.ts < 2 * SECONDS
                 /\ e.enc = m.enc /\ e.recv # m.recv
  IN IF \E i \in DOMAIN s.a.cache : Same(s.a.cache[i])
     THEN [s EXCEPT !.m.duplicate = TRUE]
     ELSE [s EXCEPT !.a.cache = Newest(<<[ts |-> s.now, enc |-> m.enc,
                                         recv |-> m.recv]>> \o @, CPR_CACHE)]

DuplicateCheck(s, x) ==
  IF s.m.checked \/ s.m.duplicate THEN s
  ELSE [s EXCEPT !.m.checked = TRUE,
          !.m.duplicate = /\ s.now <= s.a.seenPos + 2 * SECONDS
                          /\ \/ x = s.a.at
                             \/ s.now <= s.a.prevTime + 2 * SECONDS /\ x = s.a.prev]

InDiscCache(s) ==
  \E i \in DOMAIN s.a.disc :
    LET d == s.a.disc[i]
    IN \/ s.now - d.ts < 4 * SECONDS /\ d.enc = s.m.enc
       \/ s.now - d.ts < 300 /\ d.recv = s.m.recv

(* The knots it is thought to fly: those of the last position or of now, and *)
(* more for every second that the speed and the position are not known.     *)
Knots(s, surface) ==
  IF Valid(s.a.gsV)
  THEN Most(s.a.gsLast, s.a.gs) + (3 * Age(s, s.a.gsV)) \div 1000
                                + (3 * Age(s, s.a.pos)) \div 1000
  ELSE IF surface THEN 120 ELSE 900

(* the metres an aircraft may be from where it was, of unknown track *)
Reach(s, surface) ==
  LET elapsed == Age(s, s.a.pos)
      mlat == s.m.src = MLAT
      capped == Least((13 * Knots(s, surface)) \div 10, 2000)
      speed == ((IF mlat THEN (14 * capped) \div 10 + 50 ELSE capped) * 1852) \div 3600
  IN (IF surface THEN 9 ELSE 29) + (IF mlat THEN 250 ELSE 0)
     + (IF elapsed < 2 /\ s.a.recv = s.m.recv /\ s.m.src > MLAT THEN 500 ELSE 0)
     + (((elapsed + 200) \div 10) * speed) \div 100

(* Fault: a better source than that of the published position is not asked  *)
(* for, the last decoded one is enough.                                     *)
OverrideOften(s) ==
  ~s.m.inDisc /\ (s.m.src >= s.a.pos.source \/ s.a.rOdd < 1 \/ s.a.rEven < 1)

Override(s) ==
  LET src == s.m.src
      c == s.a
  IN /\ ~s.m.inDisc
     /\ \/ src = PRIO
        \/ c.rOdd < 1 \/ c.rEven < 1
        \/ s.now - c.pos.updated > POS_RELIABLE_TIMEOUT
        \/ src > c.pos.source /\ src > c.pos.last /\ src > c.rel.source
        \/ src > c.pos.source /\ c.pos.source = INDIRECT
        \/ src <= MLAT /\ Age(s, c.pos) > 45 * SECONDS

SpeedCheck(s, x) ==
  LET d == DuplicateCheck(s, x)
      t == [d EXCEPT !.m.inDisc = d.m.form = "cpr" /\ InDiscCache(d),
                     !.m.dist = Abs(x - d.a.at)]
      surface == /\ Valid(t.a.airground) /\ t.a.ground = "ground" /\ t.a.posSurface
                 /\ t.m.form # "cpr" \/ t.m.surface
      pass == 100 * t.m.dist <= Reach(t, surface) \/ Override(t)
      exceeded == mix.user = {} /\ pass /\ t.m.far /\ mix.garbagePorts
  IN IF d.m.duplicate THEN [ok |-> TRUE, s |-> [d EXCEPT !.m.ignore = TRUE]]
     ELSE IF exceeded
     THEN [ok |-> FALSE, s |-> [t EXCEPT !.m.exceeded = TRUE, !.m.ignore = TRUE,
                                         !.m.bad = TRUE]]
     ELSE [ok |-> pass, s |-> t]

IncrementReliable(s, odd, even) ==
  LET c == s.a
      need == 100 * JsonReliable
      near == /\ c.seenRel # 0 /\ s.now - c.seenRel > POS_RELIABLE_TIMEOUT
              /\ s.m.src > JAERO /\ c.rOdd < need /\ c.rEven < need
              /\ Abs(c.relAt - s.m.at) < 500
      inc == IF s.m.exceeded THEN 25 ELSE 100
      Up(r, hit) == LET b == IF near THEN need ELSE r
                    IN Most(inc, IF hit THEN Least(b + inc, 100 * PositionPersistence)
                                        ELSE b)
  IN [s EXCEPT !.a.seenGlobal = s.now, !.a.localRef = TRUE,
               !.a.rOdd = Up(@, odd), !.a.rEven = Up(@, even)]

AcceptCpr(s) ==
  LET f == IF s.m.odd THEN "odd" ELSE "even"
      nicA == Valid(s.a.nicAV) /\ s.a.nicA
      nicC == Valid(s.a.nicCV) /\ s.a.nicC
      half == [enc |-> s.m.enc, surface |-> s.m.surface,
               nic |-> ComputeNic(s.m.type, s.a.version, nicA, s.m.nicB, nicC),
               rc |-> ComputeRc(s.m.type, s.a.version, nicA, s.m.nicB, nicC)]
  IN IF ~Accepts(s, f) THEN s
     ELSE IF s.m.odd THEN [AcceptData(s, f) EXCEPT !.a.oddCpr = half]
                     ELSE [AcceptData(s, f) EXCEPT !.a.evenCpr = half]

PositionBad(s) ==
  LET m == s.m
      c == [s.a EXCEPT
              !.disc = IF m.form # "cpr" THEN @
                       ELSE Newest(<<[ts |-> s.now, enc |-> m.enc, recv |-> m.recv]>>
                                   \o @, DISCARD_CACHE),
              !.rOdd = @ - 26, !.rEven = @ - 26]
      reset == [s EXCEPT !.a = [c EXCEPT !.rOdd = 0, !.rEven = 0,
                                         !.even.source = INVALID,
                                         !.odd.source = INVALID]]
  IN IF c.rOdd >= 10 /\ c.rEven >= 10 THEN [s EXCEPT !.a = c]
     ELSE IF m.form = "cpr" THEN AcceptCpr(reset) ELSE reset

(* -2 when the place is out of the receiver's range or the speed is not     *)
(* credible                                                                 *)
Checked(s, code, x) ==
  LET far == /\ mix.maxRange > 0
             /\ \E u \in mix.user : Abs(x - u) > mix.maxRange
      check == SpeedCheck(s, x)
  IN IF far THEN [code |-> -2, at |-> x, s |-> s]
     ELSE [code |-> IF check.ok THEN code ELSE -2, at |-> x, s |-> check.s]

DoGlobalCPR(s) ==
  LET c == s.a
      e == c.evenCpr.enc
      o == c.oddCpr.enc
      refs == IF mix.user # {} THEN mix.user
              ELSE IF c.seenPos # 0 /\ c.surfaceRef THEN {c.relAt} ELSE {}
      Surface(ref) == LET r == DecodeCPRsurface(ref, e, o, s.m.odd)
                      IN IF Abs(ref - r[2]) > 4500 THEN <<-1, 0>> ELSE r
      r == IF ~s.m.surface THEN DecodeCPRairborne(e, o, s.m.odd)
           ELSE IF refs = {} THEN <<-1, 0>>
           ELSE Surface(CHOOSE ref \in refs : TRUE)
      worse == [s EXCEPT !.m.nic = Least(c.evenCpr.nic, c.oddCpr.nic),
                         !.m.rc = Most(c.evenCpr.rc, c.oddCpr.rc)]
  IN IF r[1] < 0 THEN [code |-> r[1], at |-> r[2], s |-> s]
     ELSE Checked(worse, 0, r[2])

(* relative to the aircraft (1) or to the receiver (2) *)
DoLocalCPR(s) ==
  LET c == s.a
      own == s.now < c.seenGlobal + 10 * MINUTES /\ c.localRef
      limit == IF own THEN 1852 ELSE Least(mix.maxRange, 6667 - mix.maxRange)
      usable == own \/ (~s.m.surface /\ mix.user # {} /\ limit > 0)
      ref == IF own THEN c.at ELSE CHOOSE u \in mix.user : TRUE
      r == DecodeCPRrelative(ref, s.m.enc, s.m.odd, s.m.surface)
      half == IF s.m.odd THEN c.oddCpr ELSE c.evenCpr
      t == [s EXCEPT !.m.nic = IF own THEN Least(c.nic, half.nic) ELSE half.nic,
                     !.m.rc = IF own THEN Least(c.rc, half.rc) ELSE half.rc]
  IN IF ~usable THEN [code |-> -1, at |-> 0, s |-> s]
     ELSE IF r[1] < 0 \/ Abs(r[2] - ref) > limit THEN [code |-> -1, at |-> 0, s |-> s]
     ELSE Checked(t, IF own THEN 1 ELSE 2, r[2])

(* the category of the report a position was decoded from *)
ReportNic(s) == IF s.m.form # "cpr" THEN 0
                ELSE IF s.m.odd THEN s.a.oddCpr.nic ELSE s.a.evenCpr.nic

(* a position that is good enough goes to the trace *)
Publish(t) ==
  IF ~(PosReliable(t.a) /\ Accepts(t, "rel")) THEN t
  ELSE [AcceptData(t, "rel") EXCEPT
          !.a.relAt = t.m.at, !.a.seenRel = t.now, !.a.surfaceRef = TRUE,
          !.out = [at |-> t.m.at, time |-> t.now, src |-> t.m.src,
                   late |-> t.m.late, reset |-> FALSE, nic |-> t.m.nic,
                   worst |-> ReportNic(t)]]

Keep(d) ==
  LET c == d.a
  IN IF d.m.form = "cpr" /\ (d.m.garbage \/ d.m.bad) THEN d
     ELSE IF d.m.duplicate THEN [d EXCEPT !.m.ignore = TRUE]
     ELSE Publish([d EXCEPT
              !.a.recv = d.m.recv,
              !.a.prev = c.at, !.a.prevTime = c.seenPos,
              !.a.at = d.m.at, !.a.seenPos = d.now,
              !.a.nic = d.m.nic, !.a.rc = d.m.rc,
              !.a.posSurface = Valid(c.airground) /\ c.ground = "ground",
              !.a.ids = IF ~mix.netReceiverId THEN @
                        ELSE Newest(<<d.m.recv>> \o @, RECEIVERIDBUFFER)])

SetPosition(s) ==
  LET inferior == /\ s.now < s.a.seenPos + 10 * MINUTES
                  /\ s.m.src < s.a.pos.last /\ s.m.dist = 0
  IN Keep(DuplicateCheck([s EXCEPT !.m.duplicate = @ \/ inferior], s.m.at))

(* Fault: the time between the halves of a slow aircraft for every one. *)
CprMaxElapsedSlow(s) == 30 * SECONDS

(* How far apart the halves of a pair may be: in the air what a zone leaves  *)
(* at the speed that is known, 19 s at 500 knots; on the ground longer when  *)
(* the message says that the aircraft is slow.                              *)
CprMaxElapsed(s) ==
  IF s.m.surface THEN IF s.m.gs \in 0..25 THEN 50 * SECONDS ELSE 25 * SECONDS
  ELSE IF ~Valid(s.a.gsV) \/ Age(s, s.a.gsV) > 20 * SECONDS THEN 10 * SECONDS
  ELSE Least(30 * SECONDS, (19 * SECONDS * 500) \div Most(s.a.gs, 1))

None(s) == [code |-> -1, at |-> 0, s |-> s]
GlobalCPR(s) ==
  LET c == s.a
      pair == /\ Valid(c.odd) /\ c.odd.source = c.even.source
              /\ c.oddCpr.surface = c.evenCpr.surface
              /\ Abs(c.odd.updated - c.even.updated) <= CprMaxElapsed(s)
  IN IF pair THEN DoGlobalCPR(s) ELSE None(s)
OrLocalCPR(s, global) == IF global.code = -1 THEN DoLocalCPR(s) ELSE global

(* only a position decoded from a pair (code 0) adds to the credit *)
Decoded(r) ==
  LET found == [r.s EXCEPT !.m.at = r.at]
      taken == AcceptData(found, "pos")
      fast == [taken EXCEPT !.a.gsLast = IF Valid(taken.a.gsV) THEN taken.a.gs ELSE @]
  IN IF r.code = -2 THEN [found EXCEPT !.m.bad = TRUE]
     ELSE IF r.code = -1 \/ ~Accepts(found, "pos") THEN r.s
     ELSE SetPosition(IF r.code = 0
                      THEN IncrementReliable(fast, r.s.m.odd, ~r.s.m.odd) ELSE fast)

UpdatePosition(s0) ==
  LET s == [s0 EXCEPT !.a.posSurface = Valid(s0.a.airground) /\ s0.a.ground = "ground"]
  IN Decoded(OrLocalCPR(s, GlobalCPR(s)))

(* a position that came decoded: MLAT, JAERO, SBS *)
Use(s) == SetPosition(IncrementReliable(s, TRUE, TRUE))
Forced(old) == IF Accepts(old, "pos") THEN AcceptData(old, "pos") ELSE old
CheckedSbs(check) ==
  IF ~check.ok THEN [check.s EXCEPT !.m.bad = TRUE]
  ELSE IF Accepts(check.s, "pos") THEN Use(AcceptData(check.s, "pos"))
  ELSE check.s
SbsPosition(s) ==
  LET far == mix.maxRange > 0 /\ s.m.src # JAERO
             /\ \E u \in mix.user : Abs(s.m.at - u) > mix.maxRange
      force == s.m.src = MLAT /\ s.now - s.a.seenRel > TRACK_STALE
  IN IF far THEN s
     ELSE IF force THEN Use(Forced([s EXCEPT !.a.pos.updated = 0]))
     ELSE CheckedSbs(SpeedCheck(s, s.m.at))

(* a squawk has to be received twice, JAERO excepted *)
Squawk(s) ==
  LET m == s.m
      c == s.a
      may == WillAcceptData(s, c.squawkV, m.src)
      change == c.tentative # m.squawk /\ s.now - c.seen < 15 * SECONDS /\ may
      again == c.tentative = m.squawk /\ s.now - c.tentativeAt > 750
      t == IF (m.src = JAERO \/ again) /\ may
           THEN [AcceptData(s, "squawkV") EXCEPT !.a.squawk = m.squawk] ELSE s
  IN IF m.squawk = 0 THEN s
     ELSE IF change
     THEN [t EXCEPT !.a.tentative = m.squawk, !.a.tentativeAt = s.now] ELSE t

(* every other datum of a message: emergency, geometric altitude, heading,   *)
(* track, air speeds, rates, and after the ground state callsign, selected       *)
(* altitudes, flags                                                          *)
Datum(s) ==
  IF s.m.datum # 0 /\ Accepts(s, "datumV")
  THEN [AcceptData(s, "datumV") EXCEPT !.a.datum = s.m.datum] ELSE s

GroundSpeed(s) ==
  IF s.m.gs >= 0 /\ Accepts(s, "gsV")
  THEN [AcceptData(s, "gsV") EXCEPT !.a.gs = s.m.gs] ELSE s

AltBaroReliable(c) ==
  Valid(c.altV) /\ (c.pos.source = JAERO \/ c.credit >= 2 * JsonReliable)

AirGround(s) ==
  LET m == s.m
      c == s.a
      considered == \/ m.src >= c.airground.source \/ m.src >= CHECKED
                    \/ Age(s, c.airground) > 2 * TRACK_EXPIRE
      certain == c.ground \in {"air", "ground"}
      lifted == /\ c.ground = "ground" /\ AltBaroReliable(c)
                /\ Age(s, c.gsV) < 3 * SECONDS /\ c.gs > 80
      recent == /\ certain /\ c.lastCpr # "invalid"
                /\ Age(s, c.odd) < 20 * SECONDS /\ Age(s, c.even) < 20 * SECONDS
                /\ s.now < c.seenRel + 20 * SECONDS
                /\ Age(s, c.airground) < 20 * SECONDS
  IN IF /\ m.ground # "invalid" /\ considered
        /\ ~certain \/ m.ground # "uncertain" \/ lifted
        /\ ~recent /\ Accepts(s, "airground")
     THEN [AcceptData(s, "airground") EXCEPT !.a.ground = m.ground] ELSE s

(* The barometric altitude and the credit it has: a change that is not      *)
(* credible is only taken from a checked message, or when the credit is     *)
(* used up. Altitudes are hundreds of feet, no rate of climb is known.      *)
UpdateAltitude(s0) ==
  LET m == s0.m
      age == Age(s0, s0.a.altV)
      delta == Abs(m.alt - s0.a.alt)
      jump == delta >= 3
      left == IF ~Valid(s0.a.altV) \/ age >= 30 * SECONDS THEN 0
              ELSE Least(ALTITUDE_BARO_RELIABLE_MAX
                         - (ALTITUDE_BARO_RELIABLE_MAX * age) \div (30 * SECONDS),
                         s0.a.credit)
      s == IF jump THEN [s0 EXCEPT !.a.credit = left] ELSE s0
      c == s.a
      good == IF m.src = MLAT THEN ALTITUDE_BARO_RELIABLE_MAX \div 2 - 1
              ELSE IF m.crc /\ m.src >= JAERO THEN ALTITUDE_BARO_RELIABLE_MAX ELSE 0
      climb == (delta * 60000) \div (age \div 100 + 10)       \* feet per minute
      credible == \/ good >= c.credit \/ m.src > c.altV.source
                  \/ c.credit <= 0 \/ ~jump \/ climb < 12500
      late == mix.netReceiverId /\ m.src = MODE_S /\ s.now - c.altV.updated > 10 * SECONDS
      paid == c.credit - (good + 1)
  IN IF credible
     THEN IF ~Accepts(s, "altV") THEN s
          ELSE [AcceptData(s, "altV") EXCEPT
                  !.a.alt = m.alt,
                  !.a.credit = Most(0, Least(ALTITUDE_BARO_RELIABLE_MAX,
                                             @ + (IF late THEN 0 ELSE good + 1)))]
     ELSE [s EXCEPT
             !.a.credit = Most(0, paid),
             !.a.altV.source = IF paid <= 0 /\ c.rel.source # JAERO THEN INVALID ELSE @,
             !.m.src = IF mix.garbagePorts THEN INVALID ELSE @]

Altitude(s) ==
  LET d == s.a.altV
      turn == \/ s.m.src >= d.source \/ Age(s, d) > 30 * SECONDS
              \/ Age(s, d) > 10 * SECONDS /\ d.source # JAERO
  IN IF s.m.alt # 0 /\ turn THEN UpdateAltitude(s) ELSE s

(* the version comes with the operational status, the integrity supplements *)
(* with it or with the position                                             *)
Supplements(s) ==
  LET Sup(t, f, v, new) == IF new # {} /\ Accepts(t, v)
                           THEN [AcceptData(t, v) EXCEPT !.a[f] = TRUE \in new] ELSE t
  IN Sup(Sup(s, "nicA", "nicAV", s.m.nicA), "nicC", "nicCV", s.m.nicC)

Version(s) ==
  IF s.m.src # ADSB THEN s
  ELSE IF s.m.version >= 0 THEN [s EXCEPT !.a.version = s.m.version]
  ELSE [s EXCEPT !.a.version = Most(0, @)]

(* the type of a new CPR half says where the aircraft is, too *)
CprGround(s) ==
  LET m == s.m
      Set(t, g) == IF Accepts(t, "airground")
                   THEN [AcceptData(t, "airground") EXCEPT !.a.ground = g] ELSE t
  IN IF m.surface THEN Set(s, "ground")
     ELSE IF s.a.lastCpr = "ground" \/ m.ground = "air" THEN Set(s, "air")
     ELSE IF m.ground = "uncertain" /\ s.a.ground = "ground" THEN Set(s, "uncertain")
     ELSE s

(* The half of a pair, then the supplements, then the position decoded from *)
(* it; a position that came decoded.                                        *)
Position(s) ==
  LET m == s.m
      new == m.form = "cpr" /\ Accepts(s, IF m.odd THEN "odd" ELSE "even")
      half == IF m.form = "cpr" THEN CprDuplicateCheck(AcceptCpr(s)) ELSE s
      t == Supplements(half)
  IN IF m.form = "sbs" THEN SbsPosition(t)
     ELSE IF ~new THEN t
     ELSE [UpdatePosition(CprGround(t))
             EXCEPT !.a.lastCpr = IF m.surface THEN "ground" ELSE "air"]

Rejected(m) == m.garbage \/ m.bad \/ m.duplicate

(* Fault: a duplicate is kept like any other position message. *)
RestoredNotDuplicate(s, scratch) ==
  IF IsPos(s.m) /\ (s.m.garbage \/ s.m.bad) THEN [s EXCEPT !.a = scratch] ELSE s

(* what a rejected position message did to the aircraft is undone *)
Restored(s, scratch) ==
  IF IsPos(s.m) /\ Rejected(s.m) THEN [s EXCEPT !.a = scratch] ELSE s

Blamed(s) ==
  IF \/ s.m.src < s.a.pos.source \/ s.m.inDisc \/ s.m.garbage
     \/ s.m.ignore \/ s.m.exceeded \/ ~s.m.bad
  THEN s ELSE PositionBad(s)

(* the message as its handler sees it *)
Message(k, t) ==
  [src |-> k.src, form |-> k.form, odd |-> k.odd, surface |-> k.surface,
   late |-> k.late, recv |-> k.recv, garbage |-> k.garbage, far |-> k.far,
   reliable |-> k.reliable, squawk |-> k.squawk, ground |-> k.ground,
   datum |-> k.datum, gs |-> k.gs, alt |-> k.alt, crc |-> k.crc, type |-> k.type, version |-> k.version,
   nicA |-> k.nicA, nicB |-> k.nicB, nicC |-> k.nicC, nic |-> 0, rc |-> 0,
   enc |-> Encode(TrueAt(t - k.late) + k.off, k.odd, k.surface),
   at |-> TrueAt(t - k.late) + k.off, dist |-> 0,
   duplicate |-> FALSE, checked |-> FALSE, ignore |-> FALSE, bad |-> FALSE,
   inDisc |-> FALSE, exceeded |-> FALSE]

TrackUpdateFromMessage(m, t) ==
  LET c == IF a.known THEN a ELSE [Fresh EXCEPT !.known = TRUE]
      seen == IF m.reliable THEN [c EXCEPT !.seen = t] ELSE c
      s == [a |-> seen, m |-> m, out |-> out, now |-> t]
      done == Restored(Position(AirGround(GroundSpeed(Datum(Squawk(Altitude(Version(s))))))), c)
      dropped == [s EXCEPT !.m.ignore = TRUE]
  IN CASE ~a.known /\ ~m.reliable -> [dropped EXCEPT !.a = a]
       [] m.garbage /\ ~IsPos(m) -> [dropped EXCEPT !.a = c]
       [] t - seen.seen > 45 * SECONDS -> dropped
       [] OTHER -> Blamed(done)
-----------------------------------------------------------------------------
UpdateValidities(c, t) ==
  LET Expire(d, after) ==
        IF t > d.updated + (IF d.source = JAERO THEN TRACK_EXPIRE_JAERO ELSE after)
        THEN [d EXCEPT !.source = INVALID] ELSE d
      forget == /\ c.rOdd # 0 /\ c.rEven # 0
                /\ t - c.seenGlobal > POS_RELIABLE_TIMEOUT
  IN [c EXCEPT
        !.ids = IF t - c.seenGlobal < 45 * MINUTES
                THEN Newest(<<0>> \o @, RECEIVERIDBUFFER) ELSE @,
        !.rOdd = IF forget THEN 0 ELSE @, !.rEven = IF forget THEN 0 ELSE @,
        !.altV = Expire(@, TRACK_EXPIRE),
        !.credit = IF Valid(Expire(c.altV, TRACK_EXPIRE)) THEN @ ELSE 0,
        !.datumV = Expire(@, TRACK_EXPIRE), !.gsV = Expire(@, TRACK_EXPIRE),
        !.nicAV = Expire(@, TRACK_EXPIRE), !.nicCV = Expire(@, TRACK_EXPIRE),
        !.squawkV = Expire(@, TRACK_EXPIRE),
        !.airground = Expire(@, TRACK_EXPIRE_LONG),
        !.odd = Expire(@, TRACK_EXPIRE), !.even = Expire(@, TRACK_EXPIRE),
        !.pos = Expire(@, TRACK_EXPIRE), !.rel = Expire(@, TRACK_EXPIRE)]

Stale(c, t) ==
  IF c.seenRel = 0 THEN c.seen < t - 5 * MINUTES ELSE c.seenRel < t - 26 * 60 * MINUTES

Init ==
  /\ mix \in Mixes
  /\ now = T0
  /\ a \in {Fresh} \union (IF mix.tracked THEN {Tracked} ELSE {})
  /\ out = [at |-> a.relAt, time |-> a.seenRel, src |-> a.rel.last,
            late |-> 0, reset |-> ~a.known, nic |-> 0, worst |-> 0]
  /\ last = <<>>
  /\ heard = 0

Receive ==
  \E k \in mix.messages :
    LET t == now + k.after
    IN \E s \in {TrackUpdateFromMessage(Message(k, t), t)} :
         /\ heard < MaxMessages
         /\ heard' = heard + 1
         /\ now' = t
         /\ a' = s.a
         /\ out' = IF s.a.rOdd = 0 THEN [s.out EXCEPT !.reset = TRUE] ELSE s.out
         /\ last' = <<s.m>>
         /\ UNCHANGED mix

(* the maintenance of every second; what it does at the end of a pause *)
TrackRemoveStale ==
  \E p \in mix.pauses :
    LET t == now + p
    IN \E c \in {IF Stale(a, t) THEN Fresh ELSE UpdateValidities(a, t)} :
       /\ a.known /\ last # <<>>
       /\ now' = t
       /\ a' = c
       /\ out' = IF c.rOdd = 0 THEN [out EXCEPT !.reset = TRUE] ELSE out
       /\ last' = <<>>
       /\ UNCHANGED <<mix, heard>>

Next == Receive \/ TrackRemoveStale
Spec == Init /\ [][Next]_vars
-----------------------------------------------------------------------------
(* A position message found to be bad, garbage or a duplicate leaves nothing *)
(* behind but what is kept of bad positions: no position is published, and   *)
(* no datum, address or ground state it carried is taken over.               *)
RejectedLeavesNoTrace ==
  [][last' # <<>> /\ IsPos(last'[1]) /\ Rejected(last'[1])
     => /\ [out' EXCEPT !.reset = out.reset] = out
        /\ a.known =>
             /\ [a' EXCEPT !.rOdd = a.rOdd, !.rEven = a.rEven, !.disc = a.disc,
                           !.odd = a.odd, !.even = a.even, !.oddCpr = a.oddCpr,
                           !.evenCpr = a.evenCpr] = a
             /\ a'.rOdd # 0 =>
                  <<a'.odd, a'.even, a'.oddCpr, a'.evenCpr>>
                  = <<a.odd, a.even, a.oddCpr, a.evenCpr>>]_vars

(* When every receiver is honest, however late its messages are, a position  *)
(* that is published is where the aircraft was when it sent the message: no  *)
(* pair of halves, and no reference, leads to another zone.                  *)
(* Nor is it said to be more certain than the report it was decoded from.    *)
TruePositions ==
  /\ mix.honest => out.at = TrueAt(out.time - out.late) \/ out.time = 0
  /\ out.nic <= out.worst

(* Published positions only jump when the aircraft had lost its credit, was  *)
(* silent, or the source changed.                                            *)
NoUnearnedJump ==
  [][out'.time # out.time /\ ~out.reset /\ out'.src = out.src
     /\ out'.time - out.time <= 45 * SECONDS
     => Abs(out'.at - out.at) <= (2 * ((out'.time - out.time) * 9 + 5000)) \div 1000]_vars

(* Data are never replaced by what a worse source says while they are fresh,*)
(* nor by older data. A squawk is only believed that was heard before, more  *)
(* than 750 ms ago, or that comes from JAERO.                                *)
BetterSourceKept ==
  [][/\ \A f \in {"rel", "squawkV", "airground", "altV", "datumV", "gsV"} :
          a[f].source # INVALID /\ a'[f].updated # a[f].updated /\ a'.known
          => /\ a'[f].updated > a[f].updated
             /\ a'[f].source >= a[f].source \/ now' >= a[f].updated + TRACK_STALE
     /\ a'.squawkV.updated # a.squawkV.updated /\ a'.known
        => \/ last'[1].src = JAERO
           \/ a.tentative = a'.squawk /\ now' - a.tentativeAt > 750]_vars
=============================================================================
