------------------------------ MODULE Forwarding ------------------------------
(***************************************************************************)
(* Which outputs a message goes to (outputMessage), and what the next      *)
(* instance takes it for.  A message m: its downlink format, the time      *)
(* stamp of its receiver ("none", "clock", or one of the magic ones), its  *)
(* source, whether it came as an SBS line, whether its CRC was right       *)
(* (crc0), the bits that were corrected, how many messages its aircraft    *)
(* has sent, whether the reduced outputs take it, whether it is garbage;   *)
(* and two things no instance knows: that its position comes from          *)
(* multilateration (mlat), and that an instance with                       *)
(* beast_set_noforward_timestamp has sent it by a way that keeps the time  *)
(* stamp (marked).                                                         *)
(***************************************************************************)
EXTENDS Integers, FiniteSets

SbsOutputs   == {"sbs", "sbs_replay", "sbs_mlat", "sbs_jaero", "sbs_prio"}
BeastOutputs == {"beast", "beast_reduce", "garbage"}

\* Fault: the mark is looked for in what is sent, not in what has come.
NoforwardSent(node, m) == node.beast_set_noforward_timestamp /\ ~node.beast_forward_noforward

noforward(node, m) == m.ts = "noforward" /\ ~node.beast_forward_noforward

\* the first message of an aircraft is held back unless its CRC was right
Emitted(node, m) ==
    ~m.sbs_in /\ (node.net_only \/ node.net_verbatim \/ (m.crc0 /\ m.correctedbits = 0)
                  \/ m.messages > 1 \/ m.df = "AC")

RightBits(node, m) == m.correctedbits < 2 \/ node.net_verbatim

SbsExtra(source) ==
    CASE source = "SBS"   -> {"sbs_replay"}
      [] source = "MLAT"  -> {"sbs_mlat"}
      [] source = "JAERO" -> {"sbs_jaero"}
      [] source = "PRIO"  -> {"sbs_prio"}
      [] OTHER            -> {}

If(cond, set) == IF cond THEN set ELSE {}

OutputMessage(node, m) ==
    LET is_mlat == m.source = "MLAT"
        open    == ~noforward(node, m)
        aircraft == m.messages > 0
        reduced == ~node.sbsReduce \/ m.reduce_forward
    IN  IF \/ node.filterDF # {} /\ (m.sbs_in \/ m.df \notin node.filterDF)
           \/ ~node.net
           \/ aircraft /\ m.messages < node.net_forward_min_messages
        THEN {}
        ELSE If(Emitted(node, m),
                   If(node.garbage_ports /\ m.garbage, {"garbage"})
                   \union If(aircraft /\ reduced,
                             If(~is_mlat \/ node.forward_mlat_sbs, {"sbs"})
                             \union If(is_mlat, {"sbs_mlat"}))
                   \union If(open /\ ~is_mlat /\ RightBits(node, m), {"raw"})
                   \union If(open /\ (~is_mlat \/ node.forward_mlat) /\ RightBits(node, m),
                             {"beast"} \union If(m.reduce_forward, {"beast_reduce"}))
                   \union {"dump"} \union {"asterix"})
             \union If(m.sbs_in /\ aircraft /\ reduced, {"sbs"} \union SbsExtra(m.source))

\* the time stamp they are sent with
SentTimestamp(node, m) == IF node.beast_set_noforward_timestamp THEN "noforward" ELSE m.ts

-----------------------------------------------------------------------------
(* The next instance.                                                      *)

\* the raw output has a time stamp only with --mlat, and if there is one
OnTheWay(node, out, ts) ==
    CASE out \in BeastOutputs -> ts
      [] out = "raw"          -> IF node.mlat THEN ts ELSE "none"
      [] OTHER                -> "none"

SbsSource(out) ==
    CASE out = "sbs_mlat"  -> "MLAT"
      [] out = "sbs_jaero" -> "JAERO"
      [] out = "sbs_prio"  -> "PRIO"
      [] OTHER             -> "SBS"

\* decodeModesMessage of a remote message: the time stamp decides
ModesSource(next, m, ts) ==
    CASE ts = "mlat" -> "MLAT"
      [] ts = "none" /\ (next.netIngest \/ next.garbage_ports) /\ m.df # "18" -> "SBS"
      [] OTHER -> "MODE_S"

\* m as the next instance has it, sent by node to the port that belongs to out
Arrives(node, out, next, m) ==
    LET ts  == OnTheWay(node, out, SentTimestamp(node, m))
        sbs == out \in SbsOutputs
    IN  [m EXCEPT !.ts = ts, !.sbs_in = sbs, !.correctedbits = 0, !.crc0 = ~sbs,
                  !.source = IF sbs THEN SbsSource(out) ELSE ModesSource(next, m, ts),
                  !.garbage = ~sbs /\ ts = "none" /\ (next.netIngest \/ next.garbage_ports) /\ m.df # "18",
                  !.marked = /\ @ \/ node.beast_set_noforward_timestamp
                             /\ out \in BeastOutputs \/ (out = "raw" /\ node.mlat)]
-----------------------------------------------------------------------------
(* What must hold of a message at an instance.                             *)

Messages ==
    [df : STRING, sbs_in : BOOLEAN, source : {"MODE_S", "SBS", "MLAT", "JAERO", "PRIO"},
     ts : {"none", "clock", "mlat", "noforward"}, crc0 : BOOLEAN, correctedbits : Nat,
     messages : Nat, reduce_forward : BOOLEAN, garbage : BOOLEAN, mlat : BOOLEAN,
     marked : BOOLEAN]

\* What multilateration has computed tells so: its time stamp, or the source of its line.
TellsMlat(m) == m.source = "MLAT" /\ (m.sbs_in \/ m.ts = "mlat")

\* a message at the first instance that has it
Heard(m) == m \in Messages /\ ~m.marked /\ (m.mlat => TellsMlat(m))

\* Multilateration is not taken for what an aircraft has sent: not through an output
\* that is for all sources, and unless the time stamp that tells was overwritten.
KnownAsMlat(m, through) ==
    m.mlat /\ "sbs" \notin through /\ "overwritten" \notin through => m.source = "MLAT"

\* Who marks what it sends ends its way over raw and Beast outputs at the next instance.
EndsHere(node, m) ==
    m.marked /\ ~node.beast_forward_noforward =>
        OutputMessage(node, m) \intersect {"raw", "beast", "beast_reduce"} = {}
==============================================================================
