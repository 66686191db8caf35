-------------------------------- MODULE Relay --------------------------------
(***************************************************************************)
(* One readsb sends to another: Framing is how a stream is cut into        *)
(* messages, SbsFormat and Asterix what is written for a message and read  *)
(* from it.  What a message says is no concern of its framing: a           *)
(* conversation begins with nothing sent, and a message that is converted  *)
(* is looked at then.  It is built field by field, so that every           *)
(* combination of MaxFields fields beside those it starts with is tried.   *)
(* What is sent to the web interface is converted too: the points of a     *)
(* trace (TracePoint) and the file of the last ones (TraceCache).          *)
(***************************************************************************)
EXTENDS Framing

CONSTANTS
    Conversions,    \* per format: messages to start with, each in its environment
    Fields,         \* per format that has them: fields to add
    BadCallsigns,
    MaxFields,      \* bound: fields that are added
    Nodes,          \* ways to configure an instance, see Forwarding
    MaxHops,        \* bound: instances a message passes
    TsDigits, AcDigits, ShortDigits, LongDigits,    \* see HexFormat
    Wrap, PingInterval,                             \* see Pings
    RecentPoints, CachePoints, EntryRoom, ReferenceLimit, Lifetime, Pauses, MaxTime \* see TraceCache

Sbs == INSTANCE SbsFormat
Ast == INSTANCE Asterix
Fwd == INSTANCE Forwarding
Hex == INSTANCE HexFormat
Png == INSTANCE Pings
Reg == INSTANCE ModeSFields
Uat == INSTANCE UatFields
Point == INSTANCE TracePoint
Recent == INSTANCE TraceCache

ASSUME RelayAssumption ==
    /\ Png!Clocks
    /\ Recent!Sizes
    \* nothing is added to a message that is handed on, and to the times of a ping
    /\ DOMAIN Fields \intersect {"forward", "ping"} = {}
    /\ "forward" \in DOMAIN Conversions =>
         \A m \in Conversions["forward"] :
            /\ m \in [mm : Fwd!Messages, node : DOMAIN Nodes, through : {{}}]
            /\ Fwd!Heard(m.mm)
    /\ "ping" \in DOMAIN Conversions => Conversions["ping"] \subseteq Png!PingMessages

VARIABLES
    format,     \* what the message is converted to, "none"
    message, added

none == "none"

RelayInit == Init /\ format = none /\ message = none /\ added = {}

Unopened == format = none /\ feed = 1 /\ sent = <<>> /\ gaps = 0

Choose(fmt, m) ==
    /\ format' = fmt /\ message' = m
    /\ UNCHANGED <<vars, added>>

AddField(f, v) ==
    /\ Cardinality(added) < MaxFields
    /\ f \notin DOMAIN message.mm.has
    /\ message' = [message EXCEPT !.mm.has = [g \in {f} |-> v] @@ @]
    /\ added' = added \union {f}
    /\ UNCHANGED <<vars, format>>

\* a message goes on to another instance: message is [mm, node, through]
Hop(out, k) ==
    /\ format = "forward" /\ Cardinality(message.through) < MaxHops
    /\ out \in Fwd!OutputMessage(Nodes[message.node], message.mm) \ {"dump", "asterix"}
    /\ message' = [mm   |-> Fwd!Arrives(Nodes[message.node], out, Nodes[k], message.mm),
                   node |-> k,
                   through |-> message.through \union {out}
                        \union Fwd!If(Nodes[message.node].beast_set_noforward_timestamp, {"overwritten"})]
    /\ UNCHANGED <<vars, format, added>>

\* an aircraft goes on: its trace, its cache and its file
Continue(a) ==
    /\ message' = a
    /\ UNCHANGED <<vars, format, added>>

RelayNext ==
    \/ format = none /\ Next /\ UNCHANGED <<format, message, added>>
    \/ Unopened /\ \E fmt \in DOMAIN Conversions : \E m \in Conversions[fmt] : Choose(fmt, m)
    \/ format \in DOMAIN Fields /\ \E x \in Fields[format] : AddField(x[1], x[2])
    \/ \E out \in Fwd!BeastOutputs \union Fwd!SbsOutputs \union {"raw"}, k \in DOMAIN Nodes :
            Hop(out, k)
    \/ format = "recent" /\ \E a \in Recent!After(message) : Continue(a)

RelaySpec == RelayInit /\ [][RelayNext]_<<vars, format, message, added>>
-----------------------------------------------------------------------------
(* Properties, besides those of Framing.                                   *)

\* A message that is converted is read by the other end as it was sent.  An SBS line
\* (modesSendSBSOutput, decodeSbsLine) and an ASTERIX record (modesSendAsterixOutput,
\* decodeAsterixMessage): every field comes back, within the accuracy of the format, or is one
\* of the values it has no word for, and nothing comes back that was not sent.  A line of
\* digits, whoever wrote it (decodeHexMessage): its bits, and the time stamp and the signal
\* level of its receiver if it has them.  A Comm-B register, which the receiver has to infer
\* (decodeCommB): as the register it is, with the values that were sent, or not at all.  A frame
\* of the other data link, as the extended squitters it is converted to (decodeUatMessage,
\* generate_esnt).  A point of a trace has what was known of the aircraft (to_state,
\* sprintTracePoint), and the file of the last ones has them all, cached or not
\* (checkTraceCache).
ContentAsSent ==
    CASE format = "sbs" ->
            Sbs!SbsRelayed(message.mm, message.geom_delta, message.use_gnss, message.source)
      [] format = "asterix" ->
            Ast!AsterixRelayed(message.mm, message.a, message.now, message.later)
      [] format = "hex" -> Hex!HexRelayed(message.mm, message.mode_ac, message.late)
      [] format = "commb" -> Reg!InferredAsSent(message)
      [] format = "squitter" -> Reg!SquitterAsSent(message.r, message.s[1], message.s[2])
      [] format = "reply" -> Reg!ReplyAsSent(message)
      [] format = "mode_ac" -> Reg!ModeAAsSent(message)
      [] format = "uat" ->
            Uat!UatAsSent(message.r, message.kind, message.amplitude, message.seen, message.now)
      [] format = "point" ->
            Point!TraceShown(message.a, message.now, message.i, message.leg, message.stale, message.referenceTs)
      [] format = "recent" -> Recent!RecentShown(message)
      [] OTHER -> TRUE

\* However many instances have handed on a message: what multilateration has computed is
\* nowhere taken for what an aircraft has sent, unless it came through an output for all
\* sources or its time stamp was overwritten; and a message that is marked not to be
\* forwarded is not.
MarksSurvive ==
    format = "forward" =>
        /\ Fwd!KnownAsMlat(message.mm, message.through)
        /\ Fwd!EndsHere(Nodes[message.node], message.mm)

\* The delay that is measured with a ping is the one that its data has had on the way, both
\* ways, up to a tick, though the clocks are sent modulo 2^24 and the other one is off; and a
\* wrap of the clock does not end the pings.
DelayMeasured ==
    format = "ping" =>
        /\ Png!RttIsDelay(message.t, message.d1, message.hold, message.d2, message.offset, message.tick)
        /\ Png!PingsGoOn(message.t)
==============================================================================
