----------------------------- MODULE MCTracking -----------------------------
(* The environments in which tracking is checked *)
EXTENDS Tracking

Base == [src |-> ADSB, form |-> "cpr", odd |-> FALSE, surface |-> FALSE, after |-> 500,
         late |-> 0, off |-> 0, recv |-> 1, garbage |-> FALSE, far |-> FALSE,
         reliable |-> TRUE, squawk |-> 0, ground |-> "air", alt |-> 0, datum |-> 0, gs |-> -1, crc |-> TRUE,
         type |-> 11, version |-> -1, nicA |-> {}, nicB |-> FALSE, nicC |-> {}]
Both(k) == {[k EXCEPT !.odd = odd] : odd \in BOOLEAN}
Environment == [speed |-> 20, netReceiverId |-> TRUE, garbagePorts |-> FALSE, user |-> {},
                maxRange |-> 0, tracked |-> TRUE, honest |-> TRUE,
                messages |-> {}, pauses |-> {}]

(* two receivers, the second of them late *)
Late == [Environment EXCEPT
  !.messages = Both(Base) \union {[Base EXCEPT !.recv = 2, !.after = 0]}
               \union Both([Base EXCEPT !.recv = 2, !.late = 5000]),
  !.pauses = {8500}]

(* Two receivers that know the speed, 200 m/s, the second a little late: the *)
(* halves may be 24.4 s apart.                                               *)
Fast == [Environment EXCEPT
  !.messages = Both(Base) \union {[Base EXCEPT !.recv = 2, !.late = 2500],
                                  [Base EXCEPT !.form = "other", !.gs = 389]},
  !.pauses = {22900, 26000}]

(* on the ground at 10 m/s: the halves may be 50 s apart *)
Taxi == [Environment EXCEPT
  !.speed = 1, !.user = {900},
  !.messages = Both([Base EXCEPT !.surface = TRUE, !.ground = "ground", !.gs = 19])
               \union {[Base EXCEPT !.surface = TRUE, !.ground = "ground", !.recv = 2,
                                    !.late = 5000]},
  !.pauses = {40000}]

(* one receiver that sends nonsense, sometimes recognised as doing so *)
Wrong(garbagePorts) == [Environment EXCEPT
  !.garbagePorts = garbagePorts, !.honest = FALSE,
  !.messages = Both(Base) \union Both([Base EXCEPT !.recv = 2, !.off = 2000, !.far = TRUE])
               \union {[Base EXCEPT !.recv = 2, !.off = 2000, !.garbage = TRUE]},
  !.pauses = IF garbagePorts THEN {4500} ELSE {50000}]

Sources == [Environment EXCEPT
  !.honest = FALSE,
  !.messages = Both(Base) \union
    {[Base EXCEPT !.src = src, !.form = "sbs", !.recv = 3, !.off = off, !.late = 1000,
              !.datum = src]
       : src \in {MLAT, JAERO}, off \in {30}},
  !.pauses = {14000, 70000}]

Squawks == [Environment EXCEPT
  !.messages = {[Base EXCEPT !.form = "other", !.src = src, !.squawk = sq, !.ground = "invalid"]
                  : src \in {MODE_S, CHECKED, ADSB}, sq \in {1, 2}}
               \union {[Base EXCEPT !.form = "other", !.src = JAERO, !.squawk = 3]},
  !.pauses = {800, 16000, 430000}]

Ground == [Environment EXCEPT
  !.speed = 5,
  !.messages = Both([Base EXCEPT !.surface = TRUE, !.ground = "ground"])
               \union Both([Base EXCEPT !.ground = "uncertain"])
               \union {[Base EXCEPT !.form = "other", !.src = MODE_S, !.ground = g,
                                    !.reliable = FALSE] : g \in {"air", "ground"}}
               \union {[Base EXCEPT !.form = "other", !.alt = 10, !.gs = 97,
                                    !.ground = "uncertain"]},
  !.pauses = {21000}]

Near == [Environment EXCEPT
  !.netReceiverId = FALSE, !.user = {900}, !.maxRange = 3000,
  !.messages = Both(Base) \union Both([Base EXCEPT !.src = TISB]),
  !.pauses = {12000, 3700000}]

Accuracies == [Environment EXCEPT
  !.messages = Both([Base EXCEPT !.type = 11, !.nicB = TRUE]) \union Both([Base EXCEPT !.type = 16])
               \union {[Base EXCEPT !.form = "other", !.version = v, !.nicA = {TRUE}] : v \in 1..2},
  !.pauses = {9000}]

Altitudes(garbagePorts) == [Environment EXCEPT
  !.garbagePorts = garbagePorts,
  !.messages = {[Base EXCEPT !.form = "other", !.src = src, !.crc = src = CHECKED, !.alt = alt,
                             !.ground = "invalid"]
                  : src \in {MODE_S, CHECKED, MLAT}, alt \in {100, 102, 200}},
  !.pauses = {11000, 25000, 90000}]

MCMixes == {Accuracies, Altitudes(TRUE), Altitudes(FALSE), Late, Fast, Taxi, Wrong(TRUE), Wrong(FALSE), Sources, Squawks, Ground, Near}
MCNLBounds == {1003}
=============================================================================
