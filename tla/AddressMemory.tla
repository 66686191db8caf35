--------------------------- MODULE AddressMemory ---------------------------
(***************************************************************************)
(* What the address filter promises to the decoder: it remembers every     *)
(* address added since the last expiry, and those of the period before it, *)
(* and no other.  Two exceptions are part of the promise: a table that     *)
(* grows drops the period before (icao_filter.c:67-96), and a table that   *)
(* can not grow and is full ignores a new address (icao_filter.c:118-121). *)
(***************************************************************************)
EXTENDS Naturals, FiniteSets

CONSTANTS Address,      \* the addresses of interest
          Roomy,        \* up to this many addresses a table never grows
          Full          \* a table that holds this many may ignore another

VARIABLES current,      \* the addresses added since the last expiry
          previous      \* the addresses added in the period before

mvars == <<current, previous>>

MInit == current \in SUBSET Address /\ Cardinality(current) <= 1 /\ previous = {}

Known(a) == a \in current \union previous

Learn(a) ==
    /\ current' = current \union {a}
    /\ \/ UNCHANGED previous
       \/ Cardinality(current') > Roomy /\ a \notin current /\ previous' = {}

Ignore(a) == Cardinality(current) >= Full /\ a \notin current /\ UNCHANGED mvars

Expire == current' = {} /\ previous' = current

MNext == Expire \/ \E a \in Address : Learn(a) \/ Ignore(a)

MSpec == MInit /\ [][MNext]_mvars
=============================================================================
