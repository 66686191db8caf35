----------------------------- MODULE IcaoFilter -----------------------------
(***************************************************************************)
(* The hash table of ICAO addresses, icao_filter.c: two open-addressed     *)
(* tables with linear probing.  New addresses go to the active one; both   *)
(* are searched; expiry clears the inactive one and makes it active.  A    *)
(* filter is a record: tables a and b (functions from 0..buckets-1),       *)
(* active, which of the two, bits, and occupied, the program's own count.  *)
(*                                                                         *)
(* The hash is a parameter: whatever it collides, lookups must be right.   *)
(***************************************************************************)
EXTENDS Naturals, FiniteSets, FiniteSetsExt, SequencesExt

CONSTANTS Hash(_),      \* addrHash before it is reduced to the table's bits
          MinBits,      \* MINBITS, 8 in the program
          MaxBits,      \* the table grows below this many bits: 20
          GrowPart,     \* it grows when more than buckets / 3 are occupied
          ShrinkPart    \* and shrinks when fewer than buckets / 9 are

ASSUME FilterBounds == /\ MinBits \in Nat /\ MaxBits \in Nat /\ MinBits <= MaxBits
                       /\ GrowPart \in Nat \ {0} /\ ShrinkPart \in Nat \ {0}

(* What a resize moves into the new table never makes that one grow.       *)
ASSUME NestedAddsFit ==
    \A bits \in MinBits .. MaxBits :
        /\ 2 ^ bits \div GrowPart + 1 <= 2 ^ (bits + 1) \div GrowPart
        /\ bits > MinBits => 2 ^ bits \div ShrinkPart
                                <= 2 ^ (bits - 1) \div GrowPart + 1

(* A word is the set of its one bits; EMPTY, 0xFFFFFFFF, has all of them.  *)
EMPTY == 0 .. 31

Buckets(f) == 2 ^ f.bits
EmptyTable(bits) == [h \in 0 .. 2 ^ bits - 1 |-> EMPTY]

icaoFilterInit ==
    [a |-> EmptyTable(MinBits), b |-> EmptyTable(MinBits), active |-> "a",
     bits |-> MinBits, occupied |-> 0]

Other(t) == IF t = "a" THEN "b" ELSE "a"

(* The k-th slot that is looked at for an address.                         *)
Slot(f, addr, k) == (Hash(addr) + k) % Buckets(f)

(* Probing stops at the first slot that is empty or holds the address, or  *)
(* when it is back where it started.                                       *)
Stops(f, t, addr) ==
    {k \in 0 .. Buckets(f) - 1 : f[t][Slot(f, addr, k)] \in {EMPTY, addr}}
Found(f, t, addr) ==
    LET stops == Stops(f, t, addr)
    IN  stops # {} /\ f[t][Slot(f, addr, Min(stops))] = addr

(* icaoFilterTest: table a is searched, then table b.                      *)
icaoFilterTest(f, addr) == Found(f, "a", addr) \/ Found(f, "b", addr)

(* An address is put into the active table, unless there is no room.       *)
Insert(f, addr) ==
    LET stops == Stops(f, f.active, addr)
        slot == Slot(f, addr, Min(stops))
    IN  IF stops = {} THEN f
        ELSE IF f[f.active][slot] = addr THEN f
        ELSE [f EXCEPT ![f.active][slot] = addr, !.occupied = @ + 1]

(* Fault: the table is copied as it is, as if its size did not matter.     *)
FaultResizeKeepPositions(f, bits) ==
    LET fresh == [a |-> EmptyTable(bits), b |-> EmptyTable(bits), active |-> "a",
                  bits |-> bits, occupied |-> f.occupied]
    IN  [fresh EXCEPT !.a = [h \in DOMAIN @ |->
            IF h < Buckets(f) THEN f[f.active][h] ELSE EMPTY]]

(* The active table is rehashed, slot by slot, into a new table a; b is    *)
(* new and empty, so that what it held is forgotten.  The nested           *)
(* icaoFilterAdd can not resize again: an old table more than a third full *)
(* is at most a third of one of twice the size (NestedAddsFit).            *)
icaoFilterResize(f, bits) ==
    LET fresh == [a |-> EmptyTable(bits), b |-> EmptyTable(bits), active |-> "a",
                  bits |-> bits, occupied |-> 0]
        slots == [i \in 1 .. Buckets(f) |-> f[f.active][i - 1]]
    IN  FoldLeft(Insert, fresh, SelectSeq(slots, LAMBDA s : s # EMPTY))

icaoFilterAdd(f, addr) ==
    LET g == Insert(f, addr)
    IN  IF Stops(f, f.active, addr) = {} THEN f
        ELSE IF g.occupied > Buckets(g) \div GrowPart /\ g.bits < MaxBits
        THEN icaoFilterResize(g, g.bits + 1) ELSE g

icaoFilterExpire(f) ==
    LET g == IF f.occupied < Buckets(f) \div ShrinkPart /\ f.bits > MinBits
             THEN icaoFilterResize(f, f.bits - 1) ELSE f
    IN  [g EXCEPT !.occupied = 0, !.active = Other(@),
                  ![Other(g.active)] = EmptyTable(g.bits)]

(* What a table holds, and what a search finds in it.                      *)
Stored(f, t) == {f[t][h] : h \in DOMAIN f[t]} \ {EMPTY}
=============================================================================
