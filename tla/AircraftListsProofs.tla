-------------------------- MODULE AircraftListsProofs --------------------------
(***************************************************************************)
(* Safety of AircraftLists.tla for every set of aircraft, tiles and        *)
(* readers, and whether or not the two stores of ca_add may be reordered.  *)
(*                                                                         *)
(* None of the properties is inductive.  The proofs add: who holds which   *)
(* thread's mutex, so that nobody else is in the middle of anything while  *)
(* the upkeep thread changes the lists (Stopped); that a list's readers    *)
(* are counted (Counted); and what each list holds at every point of       *)
(* ca_add and ca_remove: the first Stored(l) entries are the aircraft it   *)
(* should hold, each once, and what is behind them is no aircraft, except  *)
(* for the entry ca_add or ca_remove is about to count or has yet to clear *)
(* (Working, Contents, Behind).                                            *)
(***************************************************************************)
EXTENDS AircraftLists, FiniteSetTheorems, SequenceTheorems, TLAPS

Nothing == {None, Garbage}

\* A thread holds its own mutex unless it waits, and the upkeep thread those it has locked.
Stopped ==
    /\ \A t \in locked : mutex[t] = Upkeep
    /\ upc \in {"stopped", "active", "validities", "remove"} => locked = Threads
    /\ \A r \in Readers : rpc[r] # "wait" => mutex[r] = r
    /\ dpc # "wait" => mutex[Decode] = Decode

ScannersOf(l) == {r \in Readers : rpc[r] \in {"loop", "use", "end"} /\ ScannedList(r) = l}

\* reader_count counts the threads that scan a list.
Counted ==
    \A l \in Lists :
        reader_count[l] =
            Cardinality(ScannersOf(l)) + IF upc = "validities" /\ l = Active THEN 1 ELSE 0

\* where the decode thread is in ca_remove and in ca_add
Removing == {"move", "clear", "shrink"}
Adding   == {"add", "grow", "store", "length", "lateStore"}

\* What the decode thread knows of its aircraft and its list.
Working ==
    /\ dpc \notin {"wait", "top"} => craft \in table
    /\ \A a \in Aircraft \ table : globe_index[a] = NoTile /\ ~onActiveList[a]
    /\ dpc \in Removing => /\ cl \in Tiles /\ cl # tile /\ globe_index[craft] = tile
                           /\ tile = NoTile => ~onActiveList[craft]
    /\ dpc \in Adding \union {"leave"} =>
          IF cl = Active THEN ~onActiveList[craft] ELSE globe_index[craft] = cl
    /\ dpc = "flag" => cl = Active /\ ~onActiveList[craft]
    /\ dpc \in {"clear", "shrink", "lateStore"} => ca[cl].len \in 1..Len(ca[cl].list)
    /\ dpc \in {"store", "length"} => ca[cl].len < Len(ca[cl].list)

\* how many entries of a list are in place
Stored(l) ==
    IF l = cl /\ dpc \in {"clear", "shrink", "lateStore"} THEN ca[l].len - 1 ELSE ca[l].len

\* the aircraft a list should hold: those that say so, but not yet the one that is being
\* added, and still the one that has to be removed
Expected(l) ==
    IF (dpc \in Removing /\ l = tile) \/ (dpc \in Adding /\ l = cl) THEN Flagged(l) \ {craft}
    ELSE IF dpc \in {"move", "leave", "flag"} /\ l = cl THEN Flagged(l) \union {craft}
    ELSE Flagged(l)

\* The first n entries of a list are the aircraft of a set, each of them once.
Holds(list, n, set) ==
    /\ n \in 0..Len(list)
    /\ {list[i] : i \in 1..n} = set
    /\ \A i, j \in 1..n : list[i] = list[j] => i = j

\* from here on a list holds no aircraft
Last(l) == IF l = cl /\ dpc \in {"clear", "length"} THEN Stored(l) + 1 ELSE Stored(l)

Unused(list, n) == \A i \in (n + 1)..Len(list) : list[i] \in Nothing

InPlace(l) == Holds(ca[l].list, Stored(l), Expected(l)) /\ Unused(ca[l].list, Last(l))

\* A list holds what it should, and behind its aircraft nothing.
Contents == \A l \in Lists : InPlace(l)

\* The entries behind them that ca_remove and ca_add work on.
Behind ==
    /\ dpc = "clear" => ca[cl].list[ca[cl].len] \in table
    /\ dpc = "shrink" => ca[cl].list[ca[cl].len] = None
    /\ dpc = "length" => ca[cl].list[ca[cl].len + 1] = craft

\* what is known of the threads and of the lists
Control == TypeOK /\ Stopped /\ Counted
Listing == Working /\ Contents /\ Behind

\* A reader that has loaded a pointer uses memory that is not freed.
Loaded == \A r \in Readers : rpc[r] = "use" => cur[r] \in table \union Nothing

\* the entries a reader has before it
Ahead(r) ==
    LET from == IF rpc[r] = "use" THEN index[r] + 1 ELSE index[r]
        list == ca[ScannedList(r)]
    IN  {list.list[i] : i \in from..list.len}

\* A reader of the active list has seen, has loaded or has before it what it must find.
Scanning ==
    \A r \in Readers :
        /\ rpc[r] \in {"wait", "begin"} => index[r] = 1
        /\ ScannedList(r) = Active =>
              /\ rpc[r] = "loop" => must[r] \subseteq seen[r] \union Ahead(r)
              /\ rpc[r] = "use" => must[r] \subseteq seen[r] \union {cur[r]} \union Ahead(r)
              /\ rpc[r] = "end" => must[r] \subseteq seen[r]

\* the inductive invariant
IInv == Control /\ Listing /\ Loaded /\ Scanning
-----------------------------------------------------------------------------
(* Lists.                                                                  *)

ListType == [list : Seq(Entries), len : Nat]

Put(list, p, a) == [list EXCEPT ![p] = a]

\* realloc keeps the entries and adds memory nobody has written.
LEMMA Growing ==
  ASSUME NEW list \in Seq(Entries)
  PROVE  /\ Grown(list) \in Seq(Entries)
         /\ Len(Grown(list)) = Len(list) + Len(list) + AllocStep
         /\ Len(Grown(list)) > Len(list)
         /\ \A i \in 1..Len(list) : Grown(list)[i] = list[i]
         /\ \A i \in (Len(list) + 1)..Len(Grown(list)) : Grown(list)[i] = Garbage
<1> DEFINE new == [i \in 1..(Len(list) + AllocStep) |-> Garbage]
<1>1. Len(list) \in Nat /\ AllocStep \in Nat \ {0} /\ Garbage \in Entries
  BY AircraftListsAssumption DEF Entries
<1>2. new \in Seq(Entries) /\ Len(new) = Len(list) + AllocStep
  BY <1>1
<1>3. \A i \in 1..(Len(list) + AllocStep) : new[i] = Garbage
  BY <1>1
<1> HIDE DEF new
<1>4. Grown(list) = list \o new
  BY DEF Grown, new
<1>5. list \o new \in Seq(Entries) /\ Len(list \o new) = Len(list) + Len(new)
  BY <1>2, ConcatProperties, Zenon
<1>6. /\ Grown(list) \in Seq(Entries)
      /\ Len(Grown(list)) = Len(list) + Len(list) + AllocStep
  BY <1>1, <1>2, <1>4, <1>5
<1>7. \A i \in 1..Len(Grown(list)) :
          Grown(list)[i] = IF i <= Len(list) THEN list[i] ELSE new[i - Len(list)]
  BY <1>2, <1>4
<1>8. \A i \in 1..Len(list) : Grown(list)[i] = list[i]
  BY <1>1, <1>6, <1>7
<1>9. \A i \in (Len(list) + 1)..Len(Grown(list)) : Grown(list)[i] = Garbage
  BY <1>1, <1>3, <1>6, <1>7
<1>10. QED
  BY <1>1, <1>6, <1>8, <1>9

\* A list that grows holds what it held.
LEMMA GrowingHolds ==
  ASSUME NEW list \in Seq(Entries), NEW S, NEW n \in Nat, Holds(list, n, S), Unused(list, n)
  PROVE  /\ Grown(list) \in Seq(Entries) /\ n < Len(Grown(list))
         /\ Holds(Grown(list), n, S) /\ Unused(Grown(list), n)
<1>1. n \in 0..Len(list) /\ Len(list) \in Nat
  BY DEF Holds
<1>2. /\ Grown(list) \in Seq(Entries) /\ Len(Grown(list)) > Len(list)
      /\ Len(Grown(list)) \in Nat
      /\ \A i \in 1..Len(list) : Grown(list)[i] = list[i]
      /\ \A i \in (Len(list) + 1)..Len(Grown(list)) : Grown(list)[i] = Garbage
  BY Growing
<1>3. \A i \in 1..n : Grown(list)[i] = list[i]
  BY <1>1, <1>2
<1>4. Holds(Grown(list), n, S)
  BY <1>1, <1>2, <1>3 DEF Holds
<1>5. Unused(Grown(list), n)
  BY <1>1, <1>2 DEF Unused, Nothing
<1>6. QED
  BY <1>1, <1>2, <1>4, <1>5

\* ca_remove, its first store: the last entry takes the place of the aircraft.
LEMMA Closing ==
  ASSUME NEW list \in Seq(Entries), NEW n \in Nat, NEW S \in SUBSET Aircraft,
         NEW p \in 1..n, Holds(list, n, S), Unused(list, n)
  PROVE  LET new == Put(list, p, list[n])
         IN  /\ new \in Seq(Entries) /\ Len(new) = Len(list)
             /\ Holds(new, n - 1, S \ {list[p]}) /\ Unused(new, n)
             /\ new[n] = list[n] /\ list[n] \in S /\ n \in 1..Len(list)
<1> DEFINE new == Put(list, p, list[n])
<1>1. n \in 1..Len(list) /\ p \in 1..Len(list) /\ list[n] \in S /\ list[n] \in Entries
  BY DEF Holds, Entries
<1>2. /\ new \in Seq(Entries) /\ Len(new) = Len(list)
      /\ \A i \in 1..Len(list) : new[i] = IF i = p THEN list[n] ELSE list[i]
  BY <1>1 DEF Put
<1> HIDE DEF new
<1>3. new[n] = list[n]
  BY <1>1, <1>2
<1>4. Unused(new, n)
  BY <1>1, <1>2 DEF Unused
<1>5. {new[i] : i \in 1..(n - 1)} = S \ {list[p]}
  <2>1. ASSUME NEW i \in 1..(n - 1) PROVE new[i] \in S \ {list[p]}
    BY <1>1, <1>2 DEF Holds
  <2>2. ASSUME NEW x \in S, x # list[p] PROVE \E i \in 1..(n - 1) : new[i] = x
    <3>1. PICK i \in 1..n : list[i] = x
      BY DEF Holds
    <3>2. CASE i = n
      BY <1>1, <1>2, <2>2, <3>1, <3>2
    <3>3. CASE i # n
      BY <1>1, <1>2, <2>2, <3>1, <3>3
    <3>4. QED
      BY <3>2, <3>3
  <2>3. QED
    BY <2>1, <2>2
<1>6. \A i, j \in 1..(n - 1) : new[i] = new[j] => i = j
  BY <1>1, <1>2 DEF Holds
<1>7. Holds(new, n - 1, S \ {list[p]})
  BY <1>1, <1>2, <1>5, <1>6 DEF Holds
<1>8. QED
  BY <1>1, <1>2, <1>3, <1>4, <1>7 DEF new

\* ca_add: the list becomes longer by the entry behind its last one.
LEMMA Extending ==
  ASSUME NEW list \in Seq(Entries), NEW n \in Nat, n < Len(list), NEW S, NEW a, a \notin S,
         Holds(list, n, S), list[n + 1] = a
  PROVE  Holds(list, n + 1, S \union {a})
<1>1. \A i \in 1..n : list[i] \in S
  BY DEF Holds
<1>2. {list[i] : i \in 1..(n + 1)} = S \union {a}
  <2>1. \A i \in 1..(n + 1) : i \in 1..n \/ i = n + 1
    OBVIOUS
  <2>2. (\A i \in 1..n : i \in 1..(n + 1)) /\ n + 1 \in 1..(n + 1)
    OBVIOUS
  <2>3. QED
    BY <2>1, <2>2 DEF Holds
<1>3. \A i, j \in 1..(n + 1) : list[i] = list[j] => i = j
  BY <1>1 DEF Holds
<1>4. QED
  BY <1>2, <1>3 DEF Holds

\* ca_add: the entry behind the last one becomes the aircraft.
LEMMA Appending ==
  ASSUME NEW list \in Seq(Entries), NEW n \in Nat, n < Len(list), NEW S \in SUBSET Aircraft,
         NEW a \in Aircraft, a \notin S, Holds(list, n, S), Unused(list, n)
  PROVE  LET new == Put(list, n + 1, a)
         IN  /\ new \in Seq(Entries) /\ Len(new) = Len(list)
             /\ Holds(new, n, S) /\ Holds(new, n + 1, S \union {a}) /\ Unused(new, n + 1)
             /\ new[n + 1] = a
<1> DEFINE new == Put(list, n + 1, a)
<1>1. n + 1 \in 1..Len(list) /\ a \in Entries
  BY DEF Entries
<1>2. /\ new \in Seq(Entries) /\ Len(new) = Len(list)
      /\ \A i \in 1..Len(list) : new[i] = IF i = n + 1 THEN a ELSE list[i]
  BY <1>1 DEF Put
<1> HIDE DEF new
<1>3. \A i \in 1..n : new[i] = list[i] /\ list[i] \in S
  BY <1>1, <1>2 DEF Holds
<1>4. new[n + 1] = a
  BY <1>1, <1>2
<1>5. {new[i] : i \in 1..n} = S
  BY <1>3 DEF Holds
<1>6. Unused(new, n + 1)
  BY <1>1, <1>2 DEF Unused
<1>7. Holds(new, n, S)
  BY <1>1, <1>2, <1>3, <1>5 DEF Holds
<1>8. Holds(new, n + 1, S \union {a})
  BY <1>2, <1>4, <1>7, Extending
<1>9. QED
  BY <1>2, <1>4, <1>6, <1>7, <1>8 DEF new

\* The whole of ca_remove.
LEMMA Removal ==
  ASSUME NEW c \in ListType, NEW S \in SUBSET Aircraft, NEW a,
         Holds(c.list, c.len, S), Unused(c.list, c.len)
  PROVE  LET d == RemoveFrom(c, a)
         IN  /\ d \in ListType /\ Len(d.list) = Len(c.list)
             /\ Holds(d.list, d.len, S \ {a}) /\ Unused(d.list, d.len)
<1>1. c.list \in Seq(Entries) /\ c.len \in Nat /\ None \in Entries /\ None \in Nothing
  BY DEF ListType, Entries, Nothing
<1>2. CASE \E i \in 1..c.len : c.list[i] = a
  <2> DEFINE p == PositionOf(c, a)
             closed == Put(c.list, p, c.list[c.len])
             cleared == Put(closed, c.len, None)
  <2>1. p \in 1..c.len /\ c.list[p] = a
    BY <1>2 DEF PositionOf
  <2> HIDE DEF p
  <2>2. /\ closed \in Seq(Entries) /\ Len(closed) = Len(c.list)
        /\ Holds(closed, c.len - 1, S \ {a}) /\ Unused(closed, c.len) /\ c.len \in 1..Len(c.list)
    BY <1>1, <2>1, Closing
  <2> HIDE DEF closed
  <2>3. /\ cleared \in Seq(Entries) /\ Len(cleared) = Len(c.list)
        /\ \A i \in 1..Len(c.list) : cleared[i] = IF i = c.len THEN None ELSE closed[i]
    BY <1>1, <2>2 DEF Put
  <2>4. RemoveFrom(c, a) = [list |-> cleared, len |-> c.len - 1]
    BY <1>2 DEF RemoveFrom, Put, p, closed
  <2> HIDE DEF cleared
  <2>5. c.len - 1 \in 0..Len(cleared)
    BY <1>1, <2>2, <2>3
  <2>6. \A i \in 1..(c.len - 1) : cleared[i] = closed[i]
    BY <1>1, <2>2, <2>3
  <2>7. Holds(cleared, c.len - 1, S \ {a})
    <3>1. {cleared[i] : i \in 1..(c.len - 1)} = {closed[i] : i \in 1..(c.len - 1)}
      BY <2>6
    <3>2. QED
      BY <2>2, <2>5, <2>6, <3>1 DEF Holds
  <2>8. Unused(cleared, c.len - 1)
    BY <1>1, <2>2, <2>3 DEF Unused
  <2>9. QED
    BY <2>3, <2>4, <2>5, <2>7, <2>8 DEF ListType
<1>3. CASE ~\E i \in 1..c.len : c.list[i] = a
  <2>1. S \ {a} = S
    BY <1>3 DEF Holds
  <2>2. QED
    BY <1>3, <2>1 DEF RemoveFrom
<1>4. QED
  BY <1>2, <1>3

\* The whole of ca_add.
LEMMA Addition ==
  ASSUME NEW c \in ListType, NEW S \in SUBSET Aircraft, NEW a \in Aircraft,
         Holds(c.list, c.len, S), Unused(c.list, c.len)
  PROVE  LET d == AddTo(c, a)
         IN  /\ d \in ListType /\ Holds(d.list, d.len, S \union {a}) /\ Unused(d.list, d.len)
<1>1. /\ c.list \in Seq(Entries) /\ c.len \in Nat
      /\ c.len \in 0..Len(c.list) /\ Len(c.list) \in Nat
  BY DEF ListType, Holds
<1>2. CASE \E i \in 1..c.len : c.list[i] = a
  <2>1. S \union {a} = S
    BY <1>2 DEF Holds
  <2>2. QED
    BY <1>2, <2>1 DEF AddTo
<1>3. CASE ~\E i \in 1..c.len : c.list[i] = a
  <2> DEFINE list == IF c.len = Len(c.list) THEN Grown(c.list) ELSE c.list
             stored == Put(list, c.len + 1, a)
  <2>1. a \notin S
    BY <1>3 DEF Holds
  <2>2. /\ list \in Seq(Entries) /\ c.len < Len(list)
        /\ Holds(list, c.len, S) /\ Unused(list, c.len)
    BY <1>1, GrowingHolds
  <2>3. AddTo(c, a) = [list |-> stored, len |-> c.len + 1]
    BY <1>3 DEF AddTo, Put
  <2> HIDE DEF list
  <2>4. /\ stored \in Seq(Entries) /\ Holds(stored, c.len + 1, S \union {a})
        /\ Unused(stored, c.len + 1)
    BY <1>1, <2>1, <2>2, Appending
  <2> HIDE DEF stored
  <2>5. QED
    BY <1>1, <2>3, <2>4 DEF ListType
<1>4. QED
  BY <1>2, <1>3

\* OffTile and OffActive take the aircraft off one list.
LEMMA Off ==
  ASSUME NEW lists, DOMAIN lists = Lists, lists = [l \in Lists |-> lists[l]], NEW a \in Aircraft,
         globe_index \in [Aircraft -> Tiles \union {NoTile}]
  PROVE  /\ DOMAIN OffTile(a, lists) = Lists
         /\ OffTile(a, lists) = [l \in Lists |-> OffTile(a, lists)[l]]
         /\ \A l \in Lists : OffTile(a, lists)[l] =
                IF l = globe_index[a] THEN RemoveFrom(lists[l], a) ELSE lists[l]
         /\ DOMAIN OffActive(a, lists) = Lists
         /\ OffActive(a, lists) = [l \in Lists |-> OffActive(a, lists)[l]]
         /\ \A l \in Lists : OffActive(a, lists)[l] =
                IF l = Active /\ onActiveList[a] THEN RemoveFrom(lists[l], a) ELSE lists[l]
<1>1. globe_index[a] \in Tiles \/ globe_index[a] \notin Lists
  BY AircraftListsAssumption DEF Lists
<1>2. /\ DOMAIN OffTile(a, lists) = Lists
      /\ OffTile(a, lists) = [l \in Lists |-> OffTile(a, lists)[l]]
      /\ \A l \in Lists : OffTile(a, lists)[l] =
            IF l = globe_index[a] THEN RemoveFrom(lists[l], a) ELSE lists[l]
  BY <1>1 DEF OffTile, Lists
<1>3. /\ DOMAIN OffActive(a, lists) = Lists
      /\ OffActive(a, lists) = [l \in Lists |-> OffActive(a, lists)[l]]
      /\ \A l \in Lists : OffActive(a, lists)[l] =
            IF l = Active /\ onActiveList[a] THEN RemoveFrom(lists[l], a) ELSE lists[l]
  BY DEF OffActive, Lists
<1>4. QED
  BY <1>2, <1>3
-----------------------------------------------------------------------------
(* The threads.                                                            *)

StoppedAt == {"stopped", "active", "validities", "remove"}

\* While the upkeep thread changes the lists everybody else waits.
LEMMA StopTheWorld ==
  ASSUME TypeOK, Stopped, upc \in StoppedAt
  PROVE  dpc = "wait" /\ \A r \in Readers : rpc[r] = "wait"
<1>1. \A t \in Threads : mutex[t] = Upkeep /\ Upkeep # t
  BY AircraftListsAssumption DEF Stopped, StoppedAt
<1>2. QED
  BY <1>1 DEF Stopped, Threads

\* The lists as they are found then, and between messages.
LEMMA Settled ==
  ASSUME Listing, TypeOK, dpc \in {"wait", "top", "active"}
  PROVE  \A l \in Lists : /\ Holds(ca[l].list, ca[l].len, Flagged(l))
                          /\ Unused(ca[l].list, ca[l].len)
                          /\ Listed(l) = Flagged(l)
<1>1. \A l \in Lists : /\ Stored(l) = ca[l].len /\ Last(l) = ca[l].len /\ Expected(l) = Flagged(l)
  BY DEF Stored, Last, Expected, Removing, Adding
<1>2. QED
  BY <1>1 DEF Listing, Contents, InPlace, Holds, Listed

\* Only aircraft in memory say that they are on a list.
LEMMA FlaggedType == \A l : Flagged(l) \subseteq table
BY DEF Flagged

\* who holds a mutex
LEMMA StoppedStep ==
  ASSUME TypeOK, Stopped, Next
  PROVE  Stopped'
<1> USE AircraftListsAssumption DEF Threads
<1>1. CASE UNCHANGED <<mutex, locked, dpc, rpc>> /\ (upc' \in StoppedAt => upc \in StoppedAt)
  BY <1>1 DEF Stopped, StoppedAt
<1>2. CASE UNCHANGED <<mutex, locked, upc, rpc>> /\ dpc # "wait" /\ dpc' # "wait"
  BY <1>2 DEF Stopped
<1>3. CASE DecodeWake
  BY <1>3 DEF DecodeWake, DGoto, Stopped, TypeOK, upkeep, reader
<1>4. CASE DecodeWait
  BY <1>4 DEF DecodeWait, DGoto, Stopped, TypeOK, upkeep, reader
<1>5. ASSUME NEW r \in Readers, ReaderSteps(r) PROVE Stopped'
  <2>1. CASE ReaderWake(r)
    BY <2>1 DEF ReaderWake, RGoto, Stopped, TypeOK, upkeep, decode
  <2>2. CASE ReaderWait(r)
    BY <2>2 DEF ReaderWait, RGoto, Stopped, TypeOK, upkeep, decode
  <2>3. CASE Scan(r)
    <3>1. /\ UNCHANGED <<mutex, locked, upc, dpc>> /\ rpc[r] # "wait"
          /\ \A u \in Readers : u # r => rpc'[u] = rpc[u]
      BY <2>3 DEF Scan, LockRead, Load, Use, UnlockRead, RGoto, TypeOK, locks, upkeep, decode
    <3>2. QED
      BY <3>1 DEF Stopped
  <2>4. QED
    BY <1>5, <2>1, <2>2, <2>3 DEF ReaderSteps
<1>6. ASSUME NEW t \in Threads, LockThread(t) PROVE Stopped'
  BY <1>6 DEF LockThread, Stopped, TypeOK, decode, reader
<1>7. ASSUME NEW t \in Threads, UnlockThread(t) PROVE Stopped'
  BY <1>7 DEF UnlockThread, Stopped, TypeOK, decode, reader
<1>8. CASE ListSteps
  BY <1>2, <1>8 DEF ListSteps, Move, Clear, Shrink, Add, Grow, Store, Length, LengthEarly,
     LateStore,
     Leave, CheckActive, CheckActiveNoTile, Flag, DGoto, locks, reader, upkeep
<1>9. CASE \E a \in Aircraft, g \in {0, 1} : \E t \in flies[a] : Message(a, t, g)
  BY <1>2, <1>9 DEF Message, locks, upkeep
<1>10. CASE PriorityTasks \/ RemoveStale \/ ActiveUpdate \/ ActiveUpdated \/ ValiditiesUpdated
            \/ Removed
  <2>1. UNCHANGED <<mutex, locked, dpc, rpc>>
    <3>1. CASE ActiveUpdate
      BY <3>1 DEF ActiveUpdate, locks, decode, upkeep
    <3>2. CASE PriorityTasks \/ RemoveStale \/ ActiveUpdated \/ ValiditiesUpdated \/ Removed
      BY <3>2 DEF PriorityTasks, RemoveStale, ActiveUpdated, ValiditiesUpdated, Removed, locks,
         reader, decode
    <3>3. QED
      BY <1>10, <3>1, <3>2
  <2>2. upc' \in StoppedAt => upc \in StoppedAt
    BY <1>10 DEF PriorityTasks, RemoveStale, ActiveUpdate, ActiveUpdated, ValiditiesUpdated,
       Removed, UGoto, StoppedAt
  <2>3. QED
    BY <1>1, <2>1, <2>2
<1>11. CASE \E a \in Aircraft : UpdateValidities(a) \/ FreeAircraft(a)
  BY <1>1, <1>11 DEF UpdateValidities, FreeAircraft, locks, decode, upkeep
<1>12. CASE \/ \E a \in Aircraft : GrowOlder(a)
            \/ \E a \in Aircraft, on \in BOOLEAN, g \in 0..2 :
                  \E t \in flies[a] : ReplaceAircraft(a, t, on, g)
  <2>1. UNCHANGED <<mutex, locked, dpc, rpc, upc>>
    BY <1>12 DEF GrowOlder, ReplaceAircraft, locks, decode, reader, upkeep
  <2>2. QED
    BY <1>1, <2>1
<1>13. QED
  BY <1>3, <1>4, <1>5, <1>6, <1>7, <1>8, <1>9, <1>10, <1>11, <1>12
     DEF Next, DecodeSteps, UpkeepSteps

\* Every scan of a list is in its reader_count.
LEMMA ScannersFinite == \A l : IsFiniteSet(ScannersOf(l))
BY AircraftListsAssumption, FS_Subset DEF ScannersOf

\* ca_lock_read and ca_unlock_read, and the upkeep thread's tasks, count in pairs.
LEMMA CountedStep ==
  ASSUME TypeOK, Counted, Next
  PROVE  Counted' /\ reader_count' \in [Lists -> Nat]
<1> DEFINE Task(l) == IF upc = "validities" /\ l = Active THEN 1 ELSE 0
<1>1. \A l \in Lists : /\ reader_count[l] \in Nat
                       /\ IsFiniteSet(ScannersOf(l)) /\ Cardinality(ScannersOf(l)) \in Nat
                       /\ reader_count[l] = Cardinality(ScannersOf(l)) + Task(l)
  BY ScannersFinite, FS_CardinalityType DEF TypeOK, Counted
<1>2. CASE /\ reader_count' = reader_count
           /\ \A l \in Lists : ScannersOf(l)' = ScannersOf(l)
           /\ upc' = "validities" <=> upc = "validities"
  BY <1>1, <1>2 DEF Counted, TypeOK
<1>3. ASSUME NEW r \in Readers, LockRead(r)
      PROVE  Counted' /\ reader_count' \in [Lists -> Nat]
  <2>1. /\ reader_count' = [reader_count EXCEPT ![ScannedList(r)] = @ + 1]
        /\ rpc[r] = "begin" /\ rpc' = [rpc EXCEPT ![r] = "loop"] /\ upc' = upc
    BY <1>3 DEF LockRead, RGoto, upkeep
  <2>2. \A l \in Lists : ScannersOf(l)' = IF l = ScannedList(r) THEN ScannersOf(l) \union {r}
                                          ELSE ScannersOf(l)
    BY <2>1 DEF ScannersOf, TypeOK
  <2>3. (\A l \in Lists : r \notin ScannersOf(l)) /\ ScannedList(r) \in Lists
    BY <2>1, AircraftListsAssumption DEF ScannersOf
  <2>4. \A l \in Lists : Cardinality(ScannersOf(l) \union {r}) = Cardinality(ScannersOf(l)) + 1
    BY <1>1, <2>3, FS_AddElement
  <2>5. reader_count' \in [Lists -> Nat]
    BY <1>1, <2>1, <2>3 DEF TypeOK
  <2>6. ASSUME NEW l \in Lists
        PROVE  reader_count'[l] = Cardinality(ScannersOf(l)') + Task(l)'
    <3>1. Task(l)' = Task(l) /\ Task(l) \in Nat
      BY <2>1
    <3> HIDE DEF Task
    <3>2. reader_count'[l] = IF l = ScannedList(r) THEN reader_count[l] + 1 ELSE reader_count[l]
      BY <2>1, <2>3 DEF TypeOK
    <3>3. Cardinality(ScannersOf(l)') =
              Cardinality(ScannersOf(l)) + IF l = ScannedList(r) THEN 1 ELSE 0
      BY <1>1, <2>2, <2>4
    <3>4. QED
      BY <1>1, <3>1, <3>2, <3>3
  <2>7. QED
    BY <2>5, <2>6 DEF Counted
<1>4. ASSUME NEW r \in Readers, UnlockRead(r)
      PROVE  Counted' /\ reader_count' \in [Lists -> Nat]
  <2>1. /\ reader_count' = [reader_count EXCEPT ![ScannedList(r)] = @ - 1]
        /\ rpc[r] = "end" /\ rpc' = [rpc EXCEPT ![r] = "begin"] /\ upc' = upc
    BY <1>4 DEF UnlockRead, RGoto, upkeep
  <2>2. \A l \in Lists : ScannersOf(l)' = IF l = ScannedList(r) THEN ScannersOf(l) \ {r}
                                          ELSE ScannersOf(l)
    BY <2>1 DEF ScannersOf, TypeOK
  <2>3. r \in ScannersOf(ScannedList(r)) /\ ScannedList(r) \in Lists
    BY <2>1, AircraftListsAssumption DEF ScannersOf
  <2>4. /\ Cardinality(ScannersOf(ScannedList(r)) \ {r}) = Cardinality(ScannersOf(ScannedList(r))) - 1
        /\ Cardinality(ScannersOf(ScannedList(r)) \ {r}) \in Nat
    BY <1>1, <2>3, FS_RemoveElement, FS_CardinalityType
  <2>5. reader_count' \in [Lists -> Nat]
    BY <1>1, <2>1, <2>3, <2>4 DEF TypeOK
  <2>6. ASSUME NEW l \in Lists
        PROVE  reader_count'[l] = Cardinality(ScannersOf(l)') + Task(l)'
    <3>1. Task(l)' = Task(l) /\ Task(l) \in Nat
      BY <2>1
    <3> HIDE DEF Task
    <3>2. reader_count'[l] = IF l = ScannedList(r) THEN reader_count[l] - 1 ELSE reader_count[l]
      BY <2>1, <2>3 DEF TypeOK
    <3>3. Cardinality(ScannersOf(l)') =
              Cardinality(ScannersOf(l)) - IF l = ScannedList(r) THEN 1 ELSE 0
      <4>1. CASE l = ScannedList(r)
        BY <2>2, <2>4, <4>1
      <4>2. CASE l # ScannedList(r)
        BY <1>1, <2>2, <4>2
      <4>3. QED
        BY <4>1, <4>2
    <3>4. QED
      BY <1>1, <3>1, <3>2, <3>3
  <2>7. QED
    BY <2>5, <2>6 DEF Counted
<1>5. ASSUME NEW r \in Readers, Load(r) \/ Use(r)
      PROVE  Counted' /\ reader_count' \in [Lists -> Nat]
  <2>1. UNCHANGED <<reader_count, upc>>
    BY <1>5 DEF Load, Use, locks, upkeep
  <2>2. /\ rpc[r] \in {"loop", "use"} /\ rpc'[r] \in {"use", "end", "loop"}
        /\ \A u \in Readers : u # r => rpc'[u] = rpc[u]
    BY <1>5 DEF Load, Use, RGoto, TypeOK
  <2>3. \A l \in Lists : ScannersOf(l)' = ScannersOf(l)
    BY <2>2 DEF ScannersOf
  <2>4. QED
    BY <1>2, <2>1, <2>3
<1>6. ASSUME NEW r \in Readers, ReaderWake(r) \/ ReaderWait(r)
      PROVE  Counted' /\ reader_count' \in [Lists -> Nat]
  <2>1. UNCHANGED <<reader_count, upc>>
    BY <1>6 DEF ReaderWake, ReaderWait, upkeep
  <2>2. /\ rpc[r] \in {"wait", "begin"} /\ rpc'[r] \in {"wait", "begin"}
        /\ \A u \in Readers : u # r => rpc'[u] = rpc[u]
    BY <1>6 DEF ReaderWake, ReaderWait, RGoto, TypeOK
  <2>3. \A l \in Lists : ScannersOf(l)' = ScannersOf(l)
    BY <2>2 DEF ScannersOf
  <2>4. QED
    BY <1>2, <2>1, <2>3
<1>7. CASE rpc' = rpc /\ reader_count' = reader_count /\ (upc' = "validities" <=> upc = "validities")
  <2>1. \A l \in Lists : ScannersOf(l)' = ScannersOf(l)
    BY <1>7 DEF ScannersOf
  <2>2. QED
    BY <1>2, <1>7, <2>1
<1>8. CASE ActiveUpdated \/ ValiditiesUpdated
  <2>1. rpc' = rpc /\ Active \in Lists
    BY <1>8 DEF ActiveUpdated, ValiditiesUpdated, reader, Lists
  <2>2. \A l \in Lists : ScannersOf(l)' = ScannersOf(l)
    BY <2>1 DEF ScannersOf
  <2>3. \A l \in Lists : reader_count'[l] = Cardinality(ScannersOf(l)) + Task(l)'
    <3>1. CASE ActiveUpdated
      BY <1>1, <3>1 DEF ActiveUpdated, UGoto, TypeOK
    <3>2. CASE ValiditiesUpdated
      BY <1>1, <3>2 DEF ValiditiesUpdated, UGoto, TypeOK
    <3>3. QED
      BY <1>8, <3>1, <3>2
  <2>4. DOMAIN reader_count' = Lists
    BY <1>8 DEF ActiveUpdated, ValiditiesUpdated, TypeOK
  <2>5. reader_count' \in [Lists -> Nat]
    <3>1. \A l \in Lists : reader_count'[l] \in Nat
      BY <1>1, <2>3
    <3>2. reader_count' = [l \in Lists |-> reader_count'[l]]
      BY <1>8 DEF ActiveUpdated, ValiditiesUpdated, TypeOK
    <3>3. QED
      BY <3>1, <3>2
  <2>6. QED
    BY <2>2, <2>3, <2>5 DEF Counted
<1>9. CASE DecodeSteps
  BY <1>7, <1>9 DEF DecodeSteps, DecodeWake, DecodeWait, ListSteps, Move, Clear, Shrink, Add, Grow,
     Store, Length, LengthEarly, LateStore, Leave, CheckActive, CheckActiveNoTile, Flag, Message,
     locks, reader, upkeep
<1>10. CASE UpkeepSteps
  <2>1. CASE ActiveUpdate
    BY <1>7, <2>1 DEF ActiveUpdate, locks, upkeep
  <2>2. CASE \E t \in Threads : LockThread(t) \/ UnlockThread(t)
    BY <1>7, <2>2 DEF LockThread, UnlockThread, reader
  <2>3. CASE \E a \in Aircraft : UpdateValidities(a) \/ FreeAircraft(a)
    BY <1>7, <2>3 DEF UpdateValidities, FreeAircraft, locks, upkeep
  <2>4. CASE PriorityTasks \/ RemoveStale \/ Removed
    BY <1>7, <2>4 DEF PriorityTasks, RemoveStale, Removed, UGoto, locks, reader
  <2>5. QED
    BY <1>8, <1>10, <2>1, <2>2, <2>3, <2>4 DEF UpkeepSteps
<1>11. CASE \/ \E a \in Aircraft : GrowOlder(a)
            \/ \E a \in Aircraft, on \in BOOLEAN, g \in 0..2 :
                  \E t \in flies[a] : ReplaceAircraft(a, t, on, g)
  BY <1>7, <1>11 DEF GrowOlder, ReplaceAircraft, locks, reader, upkeep
<1>12. QED
  BY <1>3, <1>4, <1>5, <1>6, <1>9, <1>10, <1>11 DEF Next, ReaderSteps, Scan
-----------------------------------------------------------------------------
(* What the lists hold.                                                    *)

Stays(l) ==
    ca'[l] = ca[l] /\ Stored(l)' = Stored(l) /\ Expected(l)' = Expected(l) /\ Last(l)' = Last(l)

\* A step that does not touch a list leaves it as it was.
LEMMA Staying ==
  ASSUME NEW l \in Lists, InPlace(l), Stays(l)
  PROVE  InPlace(l)'
BY DEF InPlace, Stays

\* Nor does a step of another thread, or the decode thread's waiting.
LEMMA ListingStays ==
  ASSUME TypeOK, Listing,
         UNCHANGED <<table, onActiveList, globe_index, ca, craft, cl, tile>>,
         dpc' = dpc \/ {dpc, dpc'} \subseteq {"wait", "top"}
  PROVE  Listing'
<1>1. Working' /\ Behind'
  BY DEF Listing, Working, Behind, Removing, Adding
<1>2. \A l \in Lists : Stays(l)
  BY DEF Stays, Stored, Expected, Last, Flagged, Removing, Adding
<1>3. Contents'
  BY <1>2, Staying DEF Listing, Contents
<1>4. QED
  BY <1>1, <1>3 DEF Listing

Kept == ca' \in [Lists -> ListType] /\ Listing'

\* A message moves an aircraft to another tile before ca_remove and ca_add have run: from then
\* on it is expected where it was, and not yet where it goes.
LEMMA MessageKeeps ==
  ASSUME TypeOK, Listing, NEW a \in Aircraft, NEW g, NEW t \in Tiles \union {NoTile},
         Message(a, t, g)
  PROVE  Kept
<1>1. PICK old \in Tiles \union {NoTile} : old = globe_index[a]
  BY DEF TypeOK
<1>2. NoTile \notin Tiles /\ Active \notin Tiles /\ NoTile # Active
  BY AircraftListsAssumption
<1>3. /\ dpc = "top" /\ craft' = a /\ table' = table \union {a} /\ a \in table'
      /\ UNCHANGED <<onActiveList, ca>>
  BY DEF Message
<1>4. a \notin table => old = NoTile /\ ~onActiveList[a]
  BY <1>1 DEF Listing, Working
<1>5. \A l \in Lists : Stored(l) = ca[l].len /\ Last(l) = ca[l].len /\ Expected(l) = Flagged(l)
  BY <1>3 DEF Stored, Last, Expected, Removing, Adding
<1>6. ca' \in [Lists -> ListType]
  BY <1>3 DEF TypeOK, ListType
<1>7. CASE t \in {NoTile, old}
  <2>1. dpc' = "active" /\ UNCHANGED <<globe_index, cl, tile>>
    BY <1>1, <1>7 DEF Message
  <2>2. \A l \in Lists : Flagged(l)' = Flagged(l)
    BY <1>1, <1>2, <1>3, <1>4, <2>1 DEF Flagged, Lists
  <2>3. \A l \in Lists : Stays(l)
    BY <1>3, <1>5, <2>1, <2>2 DEF Stays, Stored, Expected, Last, Removing, Adding
  <2>4. Contents'
    BY <2>3, Staying DEF Listing, Contents
  <2>5. Working' /\ Behind'
    BY <1>3, <2>1 DEF Listing, Working, Behind, Removing, Adding
  <2>6. QED
    BY <1>6, <2>4, <2>5 DEF Kept, Listing
<1>8. CASE t \notin {NoTile, old}
  <2>1. /\ t \in Tiles /\ t # old
        /\ globe_index' = [globe_index EXCEPT ![a] = t] /\ tile' = t
        /\ cl' = (IF old \in Tiles THEN old ELSE t)
        /\ dpc' = (IF old \in Tiles THEN "move" ELSE "add")
    BY <1>1, <1>8 DEF Message
  <2>2. /\ Flagged(Active)' = Flagged(Active)
        /\ Flagged(t)' = Flagged(t) \union {a} /\ a \notin Flagged(t)
        /\ old \in Tiles => Flagged(old)' = Flagged(old) \ {a} /\ a \in Flagged(old)
        /\ \A l \in Tiles \ {old, t} : Flagged(l)' = Flagged(l)
    <3>1. /\ \A l \in Tiles : Flagged(l) = {b \in table : globe_index[b] = l}
          /\ \A l \in Tiles : Flagged(l)' = {b \in table \union {a} : globe_index'[b] = l}
          /\ Flagged(Active) = {b \in table : onActiveList[b]}
          /\ Flagged(Active)' = {b \in table \union {a} : onActiveList[b]}
      BY <1>2, <1>3 DEF Flagged
    <3>2. globe_index'[a] = t /\ \A b \in table : b # a => globe_index'[b] = globe_index[b]
      BY <2>1 DEF TypeOK
    <3>3. Flagged(Active)' = Flagged(Active)
      BY <1>4, <3>1
    <3>4. Flagged(t)' = Flagged(t) \union {a} /\ a \notin Flagged(t)
      BY <1>1, <2>1, <3>1, <3>2
    <3>5. old \in Tiles => Flagged(old)' = Flagged(old) \ {a} /\ a \in Flagged(old)
      BY <1>2, <1>1, <1>4, <2>1, <3>1, <3>2
    <3>6. \A l \in Tiles \ {old, t} : Flagged(l)' = Flagged(l)
      BY <1>1, <3>1, <3>2
    <3>7. QED
      BY <3>3, <3>4, <3>5, <3>6
  <2>3. \A l \in Lists : Expected(l)' = Flagged(l)
    <3>1. CASE old \in Tiles
      <4>1. \A l \in Lists : Expected(l)' = IF l = t THEN Flagged(l)' \ {a}
                                            ELSE IF l = old THEN Flagged(l)' \union {a}
                                            ELSE Flagged(l)'
        BY <1>3, <2>1, <3>1 DEF Expected, Removing, Adding
      <4>2. QED
        BY <2>1, <2>2, <3>1, <4>1 DEF Lists
    <3>2. CASE old \notin Tiles
      <4>1. \A l \in Lists : Expected(l)' = IF l = t THEN Flagged(l)' \ {a} ELSE Flagged(l)'
        BY <1>3, <2>1, <3>2 DEF Expected, Removing, Adding
      <4>2. QED
        BY <2>1, <2>2, <3>2, <4>1 DEF Lists
    <3>3. QED
      BY <3>1, <3>2
  <2>4. \A l \in Lists : Stored(l)' = Stored(l) /\ Last(l)' = Last(l)
    BY <1>3, <1>5, <2>1 DEF Stored, Last
  <2>5. Contents'
    BY <1>3, <1>5, <2>3, <2>4, Staying DEF Stays, Listing, Contents
  <2>6. Working' /\ Behind'
    BY <1>2, <1>3, <2>1 DEF TypeOK, Listing, Working, Behind, Removing, Adding
  <2>7. QED
    BY <1>6, <2>5, <2>6 DEF Kept, Listing
<1>9. QED
  BY <1>7, <1>8

\* only list k changes, and becomes new
Replaced(k, new) ==
    /\ ca' = [l \in Lists |-> ca'[l]]
    /\ ca'[k] = new /\ \A l \in Lists \ {k} : ca'[l] = ca[l]

\* A step of ca_remove or ca_add changes one list.
LEMMA OneList ==
  ASSUME TypeOK, Contents, NEW k \in Lists, NEW new \in ListType, Replaced(k, new),
         \A l \in Lists \ {k} : /\ Stored(l)' = Stored(l) /\ Last(l)' = Last(l)
                                /\ Expected(l)' = Expected(l),
         Holds(new.list, Stored(k)', Expected(k)'), Unused(new.list, Last(k)')
  PROVE  ca' \in [Lists -> ListType] /\ Contents'
<1>1. ca \in [Lists -> ListType]
  BY DEF TypeOK, ListType
<1>2. /\ ca' = [l \in Lists |-> ca'[l]]
      /\ ca'[k] = new /\ \A l \in Lists \ {k} : ca'[l] = ca[l]
  BY DEF Replaced
<1>3. \A l \in Lists \ {k} : InPlace(l)'
  BY <1>2, Staying DEF Stays, Contents
<1>4. InPlace(k)'
  BY <1>2 DEF InPlace
<1>5. QED
  BY <1>1, <1>2, <1>3, <1>4 DEF Contents

\* A list as a record.
LEMMA ListIs ==
  ASSUME TypeOK, NEW k \in Lists
  PROVE  \E list \in Seq(Entries), n \in Nat : ca[k] = [list |-> list, len |-> n]
BY DEF TypeOK

\* ca_remove puts the last entry over the one it removes; the last entry is then left over.
LEMMA MoveKeeps ==
  ASSUME TypeOK, Listing, Move
  PROVE  Kept
<1>1. NoTile \notin Tiles /\ Active \notin Tiles /\ NoTile # Active
  BY AircraftListsAssumption
<1>2. PICK k \in Lists : k = cl
  BY DEF TypeOK
<1>3. PICK list \in Seq(Entries), n \in Nat : ca[k] = [list |-> list, len |-> n]
  BY ListIs
<1> DEFINE p == PositionOf(ca[k], craft)
<1>4. /\ dpc = "move" /\ dpc' = "clear"
      /\ UNCHANGED <<table, onActiveList, globe_index, craft, cl, tile>>
      /\ ca' = [ca EXCEPT ![k].list[p] = list[n]]
  BY <1>2, <1>3 DEF Move, DGoto, craftVars
<1>5. ca[k].list = list /\ ca[k].len = n
  BY <1>3
<1>6. /\ k \in Tiles /\ k # tile /\ globe_index[craft] = tile /\ craft \in table
      /\ tile = NoTile => ~onActiveList[craft]
  BY <1>2, <1>4 DEF Listing, Working, Removing
<1> DEFINE S == Flagged(k) \union {craft}
<1>7. S \in SUBSET Aircraft /\ S \ {craft} = Flagged(k) /\ S \subseteq table
  BY <1>1, <1>6 DEF Flagged, TypeOK
<1>8. /\ Stored(k) = n /\ Last(k) = n
      /\ Expected(k) = S
      /\ Stored(k)' = ca'[k].len - 1 /\ Last(k)' = ca'[k].len - 1 + 1
      /\ Expected(k)' = Flagged(k)
  BY <1>2, <1>4, <1>5, <1>6 DEF Stored, Last, Expected, Flagged, Removing, Adding
<1> HIDE DEF S
<1>9. Holds(list, n, S) /\ Unused(list, n)
  BY <1>5, <1>8 DEF Listing, Contents, InPlace
<1>10. p \in 1..n /\ list[p] = craft
  <2>1. \E i \in 1..n : list[i] = craft
    BY <1>9 DEF Holds, S
  <2>2. QED
    BY <1>5, <2>1 DEF PositionOf
<1> DEFINE put == Put(list, p, list[n])
           new == [list |-> put, len |-> n]
<1>11. Replaced(k, new)
  <2>1. /\ ca'[k] = [ca[k] EXCEPT !.list[p] = list[n]]
        /\ \A l \in Lists \ {k} : ca'[l] = ca[l]
        /\ ca' = [l \in Lists |-> ca'[l]]
    BY <1>4 DEF TypeOK
  <2>2. QED
    BY <1>3, <2>1 DEF Put, Replaced
<1> HIDE DEF p
<1>12. /\ put \in Seq(Entries) /\ Len(put) = Len(list)
       /\ Holds(put, n - 1, S \ {craft}) /\ Unused(put, n)
       /\ put[n] = list[n] /\ list[n] \in S /\ n \in 1..Len(list)
  BY <1>7, <1>9, <1>10, Closing
<1> HIDE DEF put
<1>13. new \in ListType /\ ca'[k] = new /\ new.list = put /\ new.len = n
  BY <1>11, <1>12 DEF ListType, Replaced
<1>14. Stored(k)' = n - 1 /\ Last(k)' = n
  BY <1>8, <1>13
<1> HIDE DEF new
<1>15. Holds(new.list, Stored(k)', Expected(k)') /\ Unused(new.list, Last(k)')
  BY <1>7, <1>8, <1>12, <1>14, <1>13
<1>16. \A l \in Lists \ {k} : /\ Stored(l)' = Stored(l) /\ Last(l)' = Last(l)
                              /\ Expected(l)' = Expected(l)
  BY <1>2, <1>4, <1>11 DEF Stored, Last, Expected, Flagged, Removing, Adding, Replaced
<1>17. ca' \in [Lists -> ListType] /\ Contents'
  BY <1>11, <1>13, <1>15, <1>16, OneList DEF Listing
<1>18. Behind'
  BY <1>2, <1>4, <1>7, <1>12, <1>13 DEF Behind
<1>19. Working'
  BY <1>2, <1>4, <1>6, <1>12, <1>13 DEF Listing, Working, Removing, Adding
<1>20. QED
  BY <1>17, <1>18, <1>19 DEF Kept, Listing

\* It clears the last entry, which is still counted.
LEMMA ClearKeeps ==
  ASSUME TypeOK, Listing, Clear
  PROVE  Kept
<1>1. PICK k \in Lists : k = cl
  BY DEF TypeOK
<1>2. PICK list \in Seq(Entries), n \in Nat : ca[k] = [list |-> list, len |-> n]
  BY ListIs
<1> DEFINE put == Put(list, n, None)
           new == [list |-> put, len |-> n]
<1>3. /\ dpc = "clear" /\ dpc' = "shrink"
      /\ UNCHANGED <<table, onActiveList, globe_index, craft, cl, tile>>
      /\ ca' = [ca EXCEPT ![k].list[n] = None]
  BY <1>1, <1>2 DEF Clear, DGoto, craftVars
<1>4. ca[k].list = list /\ ca[k].len = n
  BY <1>2
<1>5. /\ k \in Tiles /\ k # tile /\ globe_index[craft] = tile /\ craft \in table
      /\ tile = NoTile => ~onActiveList[craft]
      /\ n \in 1..Len(list)
  BY <1>1, <1>3, <1>4 DEF Listing, Working, Removing
<1>6. /\ Stored(k) = n - 1 /\ Last(k) = n - 1 + 1 /\ Expected(k) = Flagged(k)
      /\ Stored(k)' = ca'[k].len - 1 /\ Last(k)' = ca'[k].len - 1 /\ Expected(k)' = Flagged(k)
  BY <1>1, <1>3, <1>4, <1>5 DEF Stored, Last, Expected, Flagged, Removing, Adding
<1>7. Holds(list, n - 1, Flagged(k)) /\ Unused(list, n) /\ list[n] \in table
  BY <1>1, <1>3, <1>4, <1>6 DEF Listing, Contents, InPlace, Behind
<1>8. /\ put \in Seq(Entries) /\ Len(put) = Len(list)
      /\ \A i \in 1..Len(list) : put[i] = IF i = n THEN None ELSE list[i]
  BY <1>5 DEF Put, Entries
<1>9. Replaced(k, new)
  <2>1. /\ ca'[k] = [ca[k] EXCEPT !.list[n] = None]
        /\ \A l \in Lists \ {k} : ca'[l] = ca[l]
        /\ ca' = [l \in Lists |-> ca'[l]]
    BY <1>3 DEF TypeOK
  <2>2. QED
    BY <1>2, <2>1 DEF Put, Replaced
<1> HIDE DEF put
<1>10. Holds(put, n - 1, Flagged(k))
  <2>1. \A i \in 1..(n - 1) : put[i] = list[i]
    BY <1>5, <1>8
  <2>2. {put[i] : i \in 1..(n - 1)} = {list[i] : i \in 1..(n - 1)}
    BY <2>1
  <2>3. QED
    BY <1>7, <1>8, <2>1, <2>2 DEF Holds
<1>11. Unused(put, n - 1) /\ put[n] = None
  BY <1>5, <1>7, <1>8 DEF Unused, Nothing
<1>12. new \in ListType /\ ca'[k] = new /\ new.list = put /\ new.len = n
  BY <1>8, <1>9 DEF ListType, Replaced
<1> HIDE DEF new
<1>13. Holds(new.list, Stored(k)', Expected(k)') /\ Unused(new.list, Last(k)')
  BY <1>6, <1>10, <1>11, <1>12
<1>14. \A l \in Lists \ {k} : /\ Stored(l)' = Stored(l) /\ Last(l)' = Last(l)
                              /\ Expected(l)' = Expected(l)
  BY <1>1, <1>3, <1>9 DEF Stored, Last, Expected, Flagged, Removing, Adding, Replaced
<1>15. ca' \in [Lists -> ListType] /\ Contents'
  BY <1>9, <1>12, <1>13, <1>14, OneList DEF Listing
<1>16. Behind'
  BY <1>1, <1>3, <1>11, <1>12 DEF Behind
<1>17. Working'
  BY <1>1, <1>3, <1>5, <1>12 DEF Listing, Working, Removing, Adding
<1>18. QED
  BY <1>15, <1>16, <1>17 DEF Kept, Listing

\* It counts one entry less; the aircraft is on its way to its new list, if it has one.
LEMMA ShrinkKeeps ==
  ASSUME TypeOK, Listing, Shrink
  PROVE  Kept
<1>1. NoTile \notin Tiles /\ Active \notin Tiles /\ NoTile # Active
  BY AircraftListsAssumption
<1>2. PICK k \in Lists : k = cl
  BY DEF TypeOK
<1>3. PICK list \in Seq(Entries), n \in Nat : ca[k] = [list |-> list, len |-> n]
  BY ListIs
<1>4. /\ dpc = "shrink" /\ dpc' = "add" /\ cl' = (IF tile = NoTile THEN Active ELSE tile)
      /\ UNCHANGED <<table, onActiveList, globe_index, craft, tile>>
      /\ ca' = [ca EXCEPT ![k].len = @ - 1]
  BY <1>2 DEF Shrink, DGoto, craftVars
<1>5. ca[k].list = list /\ ca[k].len = n
  BY <1>3
<1>6. /\ k \in Tiles /\ k # tile /\ globe_index[craft] = tile /\ craft \in table
      /\ tile = NoTile => ~onActiveList[craft]
      /\ n \in 1..Len(list)
  BY <1>2, <1>4, <1>5 DEF Listing, Working, Removing
<1> DEFINE new == [list |-> list, len |-> n - 1]
<1>7. Replaced(k, new)
  <2>1. /\ ca'[k] = [ca[k] EXCEPT !.len = @ - 1]
        /\ \A l \in Lists \ {k} : ca'[l] = ca[l]
        /\ ca' = [l \in Lists |-> ca'[l]]
    BY <1>4 DEF TypeOK
  <2>2. QED
    BY <1>3, <2>1 DEF Replaced
<1>8. new \in ListType /\ ca'[k] = new /\ new.list = list /\ new.len = n - 1
  BY <1>6, <1>7 DEF ListType, Replaced
<1> HIDE DEF new
<1>9. /\ Stored(k) = n - 1 /\ Last(k) = n - 1
      /\ \A l \in Lists \ {k} : Stored(l) = ca[l].len /\ Last(l) = ca[l].len
      /\ \A l \in Lists : Stored(l)' = ca'[l].len /\ Last(l)' = ca'[l].len
  BY <1>2, <1>4, <1>5 DEF Stored, Last
<1>10. \A l \in Lists : Expected(l) = IF l = tile THEN Flagged(l) \ {craft} ELSE Flagged(l)
  BY <1>4 DEF Expected, Removing, Adding
<1>11. \A l \in Lists : Expected(l)' = IF l = cl' THEN Flagged(l) \ {craft} ELSE Flagged(l)
  BY <1>4 DEF Expected, Flagged, Removing, Adding
<1>12. tile = NoTile => craft \notin Flagged(Active)
  BY <1>6 DEF Flagged
<1>13. \A l \in Lists : Expected(l)' = Expected(l)
  <2>1. CASE tile = NoTile
    BY <1>1, <1>4, <1>10, <1>11, <1>12, <2>1 DEF Lists
  <2>2. CASE tile # NoTile
    BY <1>4, <1>10, <1>11, <2>2
  <2>3. QED
    BY <2>1, <2>2
<1>14. Holds(list, n - 1, Expected(k)) /\ Unused(list, n - 1)
  BY <1>5, <1>9 DEF Listing, Contents, InPlace
<1>15. ca' \in [Lists -> ListType] /\ Contents'
  <2>1. Holds(new.list, Stored(k)', Expected(k)') /\ Unused(new.list, Last(k)')
    BY <1>8, <1>9, <1>13, <1>14
  <2>2. \A l \in Lists \ {k} : /\ Stored(l)' = Stored(l) /\ Last(l)' = Last(l)
                               /\ Expected(l)' = Expected(l)
    BY <1>7, <1>9, <1>13 DEF Replaced
  <2>3. QED
    BY <1>7, <1>8, <2>1, <2>2, OneList DEF Listing
<1>16. Behind'
  BY <1>4 DEF Behind
<1>17. Working'
  BY <1>1, <1>4, <1>6 DEF Listing, Working, Removing, Adding, TypeOK
<1>18. QED
  BY <1>15, <1>16, <1>17 DEF Kept, Listing

\* ca_add has a place for the new entry unless the array is full.
LEMMA AddKeeps ==
  ASSUME TypeOK, Listing, Add
  PROVE  Kept
<1>1. /\ dpc = "add" /\ dpc' = (IF ca[cl].len = Len(ca[cl].list) THEN "grow" ELSE "store")
      /\ UNCHANGED <<table, onActiveList, globe_index, ca, craft, cl, tile>>
  BY DEF Add, DGoto, craftVars
<1>2. \A l \in Lists : Stays(l)
  BY <1>1 DEF Stays, Stored, Last, Expected, Flagged, Removing, Adding
<1>3. Contents'
  BY <1>2, Staying DEF Listing, Contents
<1>4. ca[cl].len \in 0..Len(ca[cl].list)
  <2>1. cl \in Lists /\ Stored(cl) = ca[cl].len
    BY <1>1 DEF Stored, TypeOK
  <2>2. QED
    BY <2>1 DEF Listing, Contents, InPlace, Holds
<1>5. Behind'
  BY <1>1 DEF Behind
<1>6. Working'
  <2>1. dpc' = "store" => ca'[cl'].len < Len(ca'[cl'].list)
    BY <1>1, <1>4
  <2>2. QED
    BY <1>1, <2>1 DEF Listing, Working, Removing, Adding
<1>7. QED
  BY <1>1, <1>3, <1>5, <1>6 DEF Kept, Listing, TypeOK, ListType

\* realloc keeps the entries and makes a place.
LEMMA GrowKeeps ==
  ASSUME TypeOK, Listing, Grow
  PROVE  Kept
<1>1. PICK k \in Lists : k = cl
  BY DEF TypeOK
<1>2. PICK list \in Seq(Entries), n \in Nat : ca[k] = [list |-> list, len |-> n]
  BY ListIs
<1>3. /\ dpc = "grow" /\ dpc' = "store"
      /\ UNCHANGED <<table, onActiveList, globe_index, craft, cl, tile>>
      /\ ca' = [ca EXCEPT ![k].list = Grown(@)]
  BY <1>1 DEF Grow, DGoto, craftVars
<1>4. ca[k].list = list /\ ca[k].len = n
  BY <1>2
<1> DEFINE new == [list |-> Grown(list), len |-> n]
<1>5. Replaced(k, new)
  <2>1. /\ ca'[k] = [ca[k] EXCEPT !.list = Grown(@)]
        /\ \A l \in Lists \ {k} : ca'[l] = ca[l]
        /\ ca' = [l \in Lists |-> ca'[l]]
    BY <1>3 DEF TypeOK
  <2>2. QED
    BY <1>2, <2>1 DEF Replaced
<1>6. /\ \A l \in Lists : Stored(l) = ca[l].len /\ Last(l) = ca[l].len
      /\ \A l \in Lists : Stored(l)' = ca'[l].len /\ Last(l)' = ca'[l].len
      /\ \A l \in Lists : Expected(l)' = Expected(l)
  BY <1>1, <1>3 DEF Stored, Last, Expected, Flagged, Removing, Adding
<1>7. Holds(list, n, Expected(k)) /\ Unused(list, n)
  BY <1>4, <1>6 DEF Listing, Contents, InPlace
<1>8. /\ Grown(list) \in Seq(Entries) /\ n < Len(Grown(list))
      /\ Holds(Grown(list), n, Expected(k)) /\ Unused(Grown(list), n)
  BY <1>7, GrowingHolds
<1>9. new \in ListType /\ ca'[k] = new /\ new.list = Grown(list) /\ new.len = n
  BY <1>5, <1>8 DEF ListType, Replaced
<1> HIDE DEF new
<1>10. ca' \in [Lists -> ListType] /\ Contents'
  <2>1. Holds(new.list, Stored(k)', Expected(k)') /\ Unused(new.list, Last(k)')
    BY <1>6, <1>8, <1>9
  <2>2. \A l \in Lists \ {k} : /\ Stored(l)' = Stored(l) /\ Last(l)' = Last(l)
                               /\ Expected(l)' = Expected(l)
    BY <1>5, <1>6 DEF Replaced
  <2>3. QED
    BY <1>5, <1>9, <2>1, <2>2, OneList DEF Listing
<1>11. Behind'
  BY <1>3 DEF Behind
<1>12. Working'
  BY <1>1, <1>3, <1>8, <1>9 DEF Listing, Working, Removing, Adding
<1>13. QED
  BY <1>10, <1>11, <1>12 DEF Kept, Listing

\* While the decode thread adds an aircraft, its list does not hold it yet.
LEMMA BeingAdded ==
  ASSUME TypeOK, Listing, dpc \in {"store", "length", "lateStore"}, NEW k \in Lists, k = cl
  PROVE  /\ Expected(k) = Flagged(k) \ {craft} /\ Expected(k) \in SUBSET Aircraft
         /\ craft \in Aircraft /\ craft \in table
         /\ Expected(k) \union {craft} = Flagged(k) \union {craft}
         /\ Stored(k) = (IF dpc = "lateStore" THEN ca[k].len - 1 ELSE ca[k].len)
         /\ Holds(ca[k].list, Stored(k), Expected(k)) /\ Unused(ca[k].list, Last(k))
<1>1. /\ Expected(k) = Flagged(k) \ {craft}
      /\ Stored(k) = (IF dpc = "lateStore" THEN ca[k].len - 1 ELSE ca[k].len)
  BY DEF Expected, Stored, Removing, Adding
<1>2. Flagged(k) \subseteq Aircraft /\ craft \in Aircraft /\ craft \in table
  BY DEF TypeOK, Flagged, Listing, Working
<1>3. InPlace(k)
  BY DEF Listing, Contents
<1>4. QED
  BY <1>1, <1>2, <1>3 DEF InPlace

\* ca_add stores the new entry behind the others, and never one that is there already.
LEMMA StoreKeeps ==
  ASSUME TypeOK, Listing, Store
  PROVE  Kept
<1>1. PICK k \in Lists : k = cl
  BY DEF TypeOK
<1>2. PICK list \in Seq(Entries), n \in Nat : ca[k] = [list |-> list, len |-> n]
  BY ListIs
<1>3. dpc = "store" /\ ca[k].list = list /\ ca[k].len = n /\ n < Len(list)
  BY <1>1, <1>2 DEF Store, DGoto, Listing, Working
<1> DEFINE S == Expected(k)
<1>4. /\ S = Flagged(k) \ {craft} /\ S \in SUBSET Aircraft /\ craft \in Aircraft /\ craft \notin S
      /\ Stored(k) = n /\ Last(k) = n
      /\ Holds(list, n, S) /\ Unused(list, n)
  <2>1. /\ Expected(k) = Flagged(k) \ {craft} /\ Expected(k) \in SUBSET Aircraft
        /\ craft \in Aircraft /\ Stored(k) = n
        /\ Holds(list, Stored(k), S) /\ Unused(list, Last(k))
    BY <1>1, <1>3, BeingAdded
  <2>2. Last(k) = Stored(k)
    BY <1>3 DEF Last
  <2>3. QED
    BY <2>1, <2>2
<1>5. craft \notin Listed(k)
  BY <1>3, <1>4 DEF Listed, Holds
<1> HIDE DEF S
<1> DEFINE put == Put(list, n + 1, craft)
           new == [list |-> put, len |-> n]
<1>6. /\ dpc' = "length"
      /\ UNCHANGED <<table, onActiveList, globe_index, craft, cl, tile>>
      /\ ca' = [ca EXCEPT ![k].list[n + 1] = craft]
  BY <1>1, <1>3, <1>5 DEF Store, DGoto, craftVars
<1>7. Replaced(k, new)
  <2>1. /\ ca'[k] = [ca[k] EXCEPT !.list[n + 1] = craft]
        /\ \A l \in Lists \ {k} : ca'[l] = ca[l]
        /\ ca' = [l \in Lists |-> ca'[l]]
    BY <1>6 DEF TypeOK
  <2>2. QED
    BY <1>2, <2>1 DEF Put, Replaced
<1>8. /\ put \in Seq(Entries) /\ Len(put) = Len(list) /\ Holds(put, n, S)
      /\ Unused(put, n + 1) /\ put[n + 1] = craft
  <2>1. n < Len(list) /\ craft \in Aircraft /\ craft \notin S /\ S \in SUBSET Aircraft
    BY <1>3, <1>4
  <2>2. Holds(list, n, S) /\ Unused(list, n)
    BY <1>4
  <2>3. QED
    BY <2>1, <2>2, Appending
<1> HIDE DEF put
<1>9. new \in ListType /\ ca'[k] = new /\ new.list = put /\ new.len = n
  BY <1>7, <1>8 DEF ListType, Replaced
<1> HIDE DEF new
<1>10. /\ Stored(k)' = ca'[k].len /\ Last(k)' = ca'[k].len + 1
       /\ \A l \in Lists : Expected(l)' = Expected(l)
       /\ \A l \in Lists \ {k} : Stored(l)' = ca'[l].len /\ Last(l)' = ca'[l].len
       /\ \A l \in Lists \ {k} : Stored(l) = ca[l].len /\ Last(l) = ca[l].len
  BY <1>1, <1>3, <1>6 DEF Stored, Last, Expected, Flagged, Removing, Adding
<1>11. ca' \in [Lists -> ListType] /\ Contents'
  <2>1. Expected(k)' = S
    BY <1>10 DEF S
  <2>2. Holds(new.list, Stored(k)', Expected(k)') /\ Unused(new.list, Last(k)')
    BY <1>8, <1>9, <1>10, <2>1
  <2>3. \A l \in Lists \ {k} : /\ Stored(l)' = Stored(l) /\ Last(l)' = Last(l)
                               /\ Expected(l)' = Expected(l)
    BY <1>7, <1>10 DEF Replaced
  <2>4. QED
    BY <1>7, <1>9, <2>2, <2>3, OneList DEF Listing
<1>12. Behind'
  BY <1>1, <1>6, <1>8, <1>9 DEF Behind
<1>13. Working'
  BY <1>1, <1>3, <1>6, <1>8, <1>9 DEF Listing, Working, Removing, Adding
<1>14. QED
  BY <1>11, <1>12, <1>13 DEF Kept, Listing

\* Then, or before, it counts it.
LEMMA LengthKeeps ==
  ASSUME TypeOK, Listing, Length \/ LengthEarly
  PROVE  Kept
<1>1. PICK k \in Lists : k = cl
  BY DEF TypeOK
<1>2. PICK list \in Seq(Entries), n \in Nat : ca[k] = [list |-> list, len |-> n]
  BY ListIs
<1>3. /\ \/ dpc = "length" /\ dpc' = "leave"
         \/ dpc = "store" /\ dpc' = "lateStore"
      /\ UNCHANGED <<table, onActiveList, globe_index, craft, cl, tile>>
      /\ ca' = [ca EXCEPT ![k].len = @ + 1]
  BY <1>1 DEF Length, LengthEarly, DGoto, craftVars
<1>4. ca[k].list = list /\ ca[k].len = n /\ n < Len(list)
  BY <1>1, <1>2, <1>3 DEF Listing, Working
<1> DEFINE S == Expected(k)
<1>5. /\ S \in SUBSET Aircraft /\ craft \notin S /\ S \union {craft} = Flagged(k) \union {craft}
      /\ Stored(k) = n /\ Holds(list, n, S) /\ Unused(list, Last(k))
  BY <1>1, <1>3, <1>4, BeingAdded
<1> HIDE DEF S
<1> DEFINE new == [list |-> list, len |-> n + 1]
<1>6. Replaced(k, new)
  <2>1. /\ ca'[k] = [ca[k] EXCEPT !.len = @ + 1]
        /\ \A l \in Lists \ {k} : ca'[l] = ca[l]
        /\ ca' = [l \in Lists |-> ca'[l]]
    BY <1>3 DEF TypeOK
  <2>2. QED
    BY <1>2, <2>1 DEF Replaced
<1>7. new \in ListType /\ ca'[k] = new /\ new.list = list /\ new.len = n + 1
  BY <1>6 DEF ListType, Replaced
<1> HIDE DEF new
<1>8. \A l \in Lists \ {k} : /\ Stored(l)' = Stored(l) /\ Last(l)' = Last(l)
                             /\ Expected(l)' = Expected(l)
  BY <1>1, <1>3, <1>6 DEF Replaced, Stored, Last, Expected, Flagged, Removing, Adding
<1>9. Holds(new.list, Stored(k)', Expected(k)') /\ Unused(new.list, Last(k)')
  <2>1. CASE dpc = "length"
    <3>1. Last(k) = n + 1 /\ list[n + 1] = craft
      BY <1>1, <1>4, <2>1, <1>5 DEF Last, Listing, Behind
    <3>2. Stored(k)' = n + 1 /\ Last(k)' = n + 1 /\ Expected(k)' = Flagged(k) \union {craft}
      BY <1>1, <1>3, <1>7, <2>1 DEF Stored, Last, Expected, Flagged, Removing, Adding
    <3>3. Holds(list, n + 1, S \union {craft})
      BY <1>4, <1>5, <3>1, Extending
    <3>4. QED
      BY <1>5, <1>7, <3>1, <3>2, <3>3
  <2>2. CASE dpc = "store"
    <3>1. Last(k) = n
      BY <1>1, <1>5, <2>2 DEF Last
    <3>2. Stored(k)' = n /\ Last(k)' = n
      <4>1. Stored(k)' = ca'[k].len - 1 /\ Last(k)' = ca'[k].len - 1
        BY <1>1, <1>3, <2>2 DEF Stored, Last
      <4>2. QED
        BY <1>7, <4>1
    <3>3. Expected(k)' = S
      BY <1>1, <1>3, <2>2 DEF S, Expected, Flagged, Removing, Adding
    <3>4. QED
      BY <1>5, <1>7, <3>1, <3>2, <3>3
  <2>3. QED
    BY <1>3, <2>1, <2>2
<1>10. ca' \in [Lists -> ListType] /\ Contents'
  BY <1>6, <1>7, <1>8, <1>9, OneList DEF Listing
<1>11. Behind'
  BY <1>3 DEF Behind
<1>12. Working'
  BY <1>1, <1>3, <1>4, <1>7 DEF Listing, Working, Removing, Adding
<1>13. QED
  BY <1>10, <1>11, <1>12 DEF Kept, Listing

\* The entry that was counted first is stored.
LEMMA LateStoreKeeps ==
  ASSUME TypeOK, Listing, LateStore
  PROVE  Kept
<1>1. PICK k \in Lists : k = cl
  BY DEF TypeOK
<1>2. PICK list \in Seq(Entries), n \in Nat : ca[k] = [list |-> list, len |-> n]
  BY ListIs
<1>3. /\ dpc = "lateStore" /\ dpc' = "leave"
      /\ UNCHANGED <<table, onActiveList, globe_index, craft, cl, tile>>
      /\ ca' = [ca EXCEPT ![k].list[n] = craft]
  BY <1>1, <1>2 DEF LateStore, DGoto, craftVars
<1>4. ca[k].list = list /\ ca[k].len = n /\ n \in 1..Len(list)
  BY <1>1, <1>2, <1>3 DEF Listing, Working
<1> DEFINE S == Expected(k)
<1>5. /\ S \in SUBSET Aircraft /\ craft \in Aircraft /\ craft \notin S
      /\ S \union {craft} = Flagged(k) \union {craft}
      /\ Stored(k) = n - 1 /\ Holds(list, n - 1, S) /\ Unused(list, Last(k))
  BY <1>1, <1>3, <1>4, BeingAdded
<1>6. Last(k) = n - 1
  BY <1>3, <1>5 DEF Last
<1> HIDE DEF S
<1>7. PICK m \in Nat : m = n - 1 /\ m < Len(list) /\ n = m + 1
  BY <1>4
<1> DEFINE put == Put(list, m + 1, craft)
           new == [list |-> put, len |-> n]
<1>8. Replaced(k, new)
  <2>1. /\ ca'[k] = [ca[k] EXCEPT !.list[n] = craft]
        /\ \A l \in Lists \ {k} : ca'[l] = ca[l]
        /\ ca' = [l \in Lists |-> ca'[l]]
    BY <1>3 DEF TypeOK
  <2>2. QED
    <3>1. put = [list EXCEPT ![n] = craft]
      BY <1>7 DEF Put
    <3> HIDE DEF put
    <3>2. ca'[k] = new
      BY <1>2, <2>1, <3>1
    <3>3. QED
      BY <2>1, <3>2 DEF Replaced
<1>9. /\ put \in Seq(Entries) /\ Len(put) = Len(list)
      /\ Holds(put, m + 1, S \union {craft}) /\ Unused(put, m + 1)
  <2>1. Holds(list, m, S) /\ Unused(list, m)
    BY <1>5, <1>6, <1>7
  <2>2. QED
    BY <1>5, <1>7, <2>1, Appending
<1> HIDE DEF put
<1>10. new \in ListType /\ ca'[k] = new /\ new.list = put /\ new.len = n
  BY <1>8, <1>9 DEF ListType, Replaced
<1> HIDE DEF new
<1>11. \A l \in Lists \ {k} : /\ Stored(l)' = Stored(l) /\ Last(l)' = Last(l)
                              /\ Expected(l)' = Expected(l)
  BY <1>1, <1>3, <1>8 DEF Replaced, Stored, Last, Expected, Flagged, Removing, Adding
<1>12. Stored(k)' = n /\ Last(k)' = n /\ Expected(k)' = Flagged(k) \union {craft}
  BY <1>1, <1>3, <1>10 DEF Stored, Last, Expected, Flagged, Removing, Adding
<1>13. Holds(new.list, Stored(k)', Expected(k)') /\ Unused(new.list, Last(k)')
  BY <1>5, <1>7, <1>9, <1>10, <1>12
<1>14. ca' \in [Lists -> ListType] /\ Contents'
  BY <1>8, <1>10, <1>11, <1>13, OneList DEF Listing
<1>15. Behind' /\ Working'
  BY <1>3 DEF Behind, Listing, Working, Removing, Adding
<1>16. QED
  BY <1>14, <1>15 DEF Kept, Listing

\* The steps in which the decode thread changes no list, only what it knows of its aircraft.
LEMMA SameLists ==
  ASSUME TypeOK, Listing, UNCHANGED ca, \A l \in Lists : Stays(l), Working', Behind'
  PROVE  Kept
BY Staying DEF Kept, Listing, Contents, TypeOK, ListType

\* After ca_add the aircraft is on the list.
LEMMA LeaveKeeps ==
  ASSUME TypeOK, Listing, Leave
  PROVE  Kept
<1>1. /\ dpc = "leave" /\ dpc' = (IF cl = Active THEN "flag" ELSE "active")
      /\ UNCHANGED <<table, onActiveList, globe_index, ca, craft, cl, tile>>
  BY DEF Leave, DGoto, craftVars
<1>2. craft \in table /\ IF cl = Active THEN ~onActiveList[craft] ELSE globe_index[craft] = cl
  BY <1>1 DEF Listing, Working, Adding
<1>3. cl # Active => craft \in Flagged(cl)
  BY <1>2 DEF Flagged
<1>4. \A l \in Lists : Flagged(l)' = Flagged(l)
  BY <1>1 DEF Flagged
<1>5. \A l \in Lists : Expected(l) = IF l = cl THEN Flagged(l) \union {craft} ELSE Flagged(l)
  BY <1>1 DEF Expected, Removing, Adding
<1>6. \A l \in Lists : Expected(l)' = IF l = cl /\ cl = Active THEN Flagged(l) \union {craft}
                                      ELSE Flagged(l)
  BY <1>1, <1>4 DEF Expected, Removing, Adding
<1>7. \A l \in Lists : Expected(l)' = Expected(l)
  BY <1>3, <1>5, <1>6
<1>8. \A l \in Lists : Stays(l)
  BY <1>1, <1>7 DEF Stays, Stored, Last
<1>9. Working' /\ Behind'
  BY <1>1, <1>2 DEF Listing, Working, Behind, Removing, Adding
<1>10. QED
  BY <1>1, <1>8, <1>9, SameLists

\* The end of a message that changes no tile.
LEMMA CheckActiveKeeps ==
  ASSUME TypeOK, Listing, CheckActive
  PROVE  Kept
<1>1. /\ dpc = "active"
      /\ \/ dpc' = "add" /\ cl' = Active /\ ~onActiveList[craft]
         \/ dpc' = "top" /\ cl' = cl
      /\ UNCHANGED <<table, onActiveList, globe_index, ca, craft, tile>>
  BY DEF CheckActive, DGoto, craftVars
<1>2. \A l \in Lists : Flagged(l)' = Flagged(l)
  BY <1>1 DEF Flagged
<1>3. dpc' = "add" => craft \notin Flagged(Active)
  BY <1>1 DEF Flagged
<1>4. \A l \in Lists : Expected(l) = Flagged(l) /\ Expected(l)' = Flagged(l)
  BY <1>1, <1>2, <1>3 DEF Expected, Removing, Adding
<1>5. \A l \in Lists : Stays(l)
  BY <1>1, <1>4 DEF Stays, Stored, Last
<1>6. Working' /\ Behind'
  BY <1>1 DEF Listing, Working, Behind, Removing, Adding
<1>7. QED
  BY <1>1, <1>5, <1>6, SameLists

\* The end of a message when the position of its aircraft is too old for its tile.
LEMMA CheckActiveNoTileKeeps ==
  ASSUME TypeOK, Listing, CheckActiveNoTile
  PROVE  Kept
<1>1. NoTile \notin Tiles /\ Active \notin Tiles /\ NoTile # Active
  BY AircraftListsAssumption
<1>2. PICK k \in Lists : k = globe_index[craft] /\ k \in Tiles
  BY DEF CheckActiveNoTile, Lists
<1>3. /\ dpc = "active" /\ dpc' = "move" /\ ~onActiveList[craft]
      /\ cl' = k /\ tile' = NoTile /\ globe_index' = [globe_index EXCEPT ![craft] = NoTile]
      /\ UNCHANGED <<table, onActiveList, ca, craft>>
  BY <1>2 DEF CheckActiveNoTile, DGoto
<1>4. craft \in table /\ craft \in Aircraft /\ globe_index'[craft] = NoTile
  BY <1>3 DEF Listing, Working, TypeOK
<1>5. /\ Flagged(k)' = Flagged(k) \ {craft} /\ craft \in Flagged(k)
      /\ \A l \in Lists \ {k} : Flagged(l)' = Flagged(l)
  <2>1. /\ \A l \in Tiles : Flagged(l) = {b \in table : globe_index[b] = l}
        /\ \A l \in Tiles : Flagged(l)' = {b \in table : globe_index'[b] = l}
        /\ Flagged(Active)' = Flagged(Active)
    BY <1>1, <1>3 DEF Flagged
  <2>2. \A b \in Aircraft : b # craft => globe_index'[b] = globe_index[b]
    BY <1>3 DEF TypeOK
  <2>3. table \subseteq Aircraft
    BY DEF TypeOK
  <2>4. Flagged(k)' = Flagged(k) \ {craft} /\ craft \in Flagged(k)
    BY <1>1, <1>2, <1>4, <2>1, <2>2, <2>3
  <2>5. \A l \in Tiles \ {k} : Flagged(l)' = Flagged(l)
    BY <1>1, <1>2, <1>4, <2>1, <2>2, <2>3
  <2>6. QED
    BY <1>2, <2>1, <2>4, <2>5 DEF Lists
<1>6. \A l \in Lists : Expected(l)' = IF l = k THEN Flagged(l)' \union {craft} ELSE Flagged(l)'
  BY <1>1, <1>3 DEF Expected, Removing, Adding, Lists
<1>7. \A l \in Lists : Expected(l) = Flagged(l) /\ Expected(l)' = Flagged(l)
  BY <1>3, <1>5, <1>6 DEF Expected, Removing, Adding
<1>8. \A l \in Lists : Stays(l)
  BY <1>3, <1>7 DEF Stays, Stored, Last
<1>9. Working'
  BY <1>1, <1>2, <1>3, <1>4 DEF Listing, Working, Removing, Adding, TypeOK
<1>10. Behind'
  BY <1>3 DEF Behind
<1>11. QED
  BY <1>3, <1>8, <1>9, <1>10, SameLists

\* The flag of the active list follows its list.
LEMMA FlagKeeps ==
  ASSUME TypeOK, Listing, Flag
  PROVE  Kept
<1>1. NoTile \notin Tiles /\ Active \notin Tiles /\ NoTile # Active
  BY AircraftListsAssumption
<1>2. /\ dpc = "flag" /\ dpc' = "top" /\ onActiveList' = [onActiveList EXCEPT ![craft] = TRUE]
      /\ UNCHANGED <<table, globe_index, ca, craft, cl, tile>>
  BY DEF Flag, DGoto
<1>3. cl = Active /\ craft \in table /\ table \subseteq Aircraft
  BY <1>2 DEF Listing, Working, TypeOK
<1>4. \A b \in Aircraft : onActiveList'[b] <=> onActiveList[b] \/ b = craft
  BY <1>2 DEF TypeOK
<1>5. \A l \in Lists : Flagged(l)' = IF l = Active THEN Flagged(l) \union {craft} ELSE Flagged(l)
  BY <1>2, <1>3, <1>4 DEF Flagged
<1>6. \A l \in Lists : Expected(l) = IF l = Active THEN Flagged(l) \union {craft} ELSE Flagged(l)
  BY <1>2, <1>3 DEF Expected, Removing, Adding
<1>7. \A l \in Lists : Expected(l)' = Flagged(l)'
  BY <1>2 DEF Expected, Removing, Adding
<1>8. \A l \in Lists : Stays(l)
  BY <1>2, <1>5, <1>6, <1>7 DEF Stays, Stored, Last
<1>9. Working' /\ Behind'
  BY <1>2, <1>3, <1>4 DEF Listing, Working, Behind, Removing, Adding
<1>10. QED
  BY <1>2, <1>8, <1>9, SameLists
-----------------------------------------------------------------------------
(* The upkeep thread's changes.                                            *)

\* While everybody waits, it is enough that every list holds the aircraft that say so.
LEMMA Settling ==
  ASSUME dpc' = "wait", ca' \in [Lists -> ListType],
         \A a \in Aircraft \ table' : globe_index'[a] = NoTile /\ ~onActiveList'[a],
         \A l \in Lists : Holds(ca'[l].list, ca'[l].len, Flagged(l)') /\ Unused(ca'[l].list, ca'[l].len)
  PROVE  Kept
<1>1. \A l \in Lists : /\ Stored(l)' = ca'[l].len /\ Last(l)' = ca'[l].len
                       /\ Expected(l)' = Flagged(l)'
  BY DEF Stored, Last, Expected, Removing, Adding
<1>2. Contents'
  BY <1>1 DEF Contents, InPlace
<1>3. Working' /\ Behind'
  BY DEF Working, Behind, Removing, Adding
<1>4. QED
  BY <1>2, <1>3 DEF Kept, Listing

\* An aircraft leaves some lists: those that no longer expect it.
LEMMA Leaving ==
  ASSUME TypeOK, Listing, dpc = "wait", dpc' = "wait", NEW a \in Aircraft,
         ca' = [l \in Lists |-> ca'[l]],
         \A l \in Lists : \/ ca'[l] = RemoveFrom(ca[l], a) /\ Flagged(l)' = Flagged(l) \ {a}
                          \/ ca'[l] = ca[l] /\ Flagged(l)' = Flagged(l),
         \A b \in Aircraft \ table' : globe_index'[b] = NoTile /\ ~onActiveList'[b]
  PROVE  Kept
<1>1. \A l \in Lists : /\ ca[l] \in ListType /\ Flagged(l) \in SUBSET Aircraft
                       /\ Holds(ca[l].list, ca[l].len, Flagged(l)) /\ Unused(ca[l].list, ca[l].len)
  BY Settled DEF TypeOK, ListType, Flagged
<1>2. ASSUME NEW l \in Lists
      PROVE  /\ ca'[l] \in ListType
             /\ Holds(ca'[l].list, ca'[l].len, Flagged(l)') /\ Unused(ca'[l].list, ca'[l].len)
  <2>1. CASE ca'[l] = RemoveFrom(ca[l], a) /\ Flagged(l)' = Flagged(l) \ {a}
    <3>1. PICK c \in ListType, S \in SUBSET Aircraft :
             /\ c = ca[l] /\ S = Flagged(l) /\ Holds(c.list, c.len, S) /\ Unused(c.list, c.len)
      BY <1>1
    <3>2. /\ RemoveFrom(c, a) \in ListType
          /\ Holds(RemoveFrom(c, a).list, RemoveFrom(c, a).len, S \ {a})
          /\ Unused(RemoveFrom(c, a).list, RemoveFrom(c, a).len)
      BY <3>1, Removal
    <3>3. QED
      BY <2>1, <3>1, <3>2
  <2>2. CASE ca'[l] = ca[l] /\ Flagged(l)' = Flagged(l)
    BY <1>1, <2>2
  <2>3. QED
    BY <2>1, <2>2
<1>3. ca' \in [Lists -> ListType]
  BY <1>2
<1>4. QED
  BY <1>2, <1>3, Settling

\* An aircraft that is on no list says so.
LEMMA Unflagged ==
  ASSUME TypeOK, NEW a \in Aircraft,
         globe_index' = [globe_index EXCEPT ![a] = NoTile],
         onActiveList' = [onActiveList EXCEPT ![a] = FALSE],
         table' \in {table, table \ {a}}
  PROVE  \A l \in Lists : Flagged(l)' = Flagged(l) \ {a}
<1>1. NoTile \notin Tiles /\ Active \notin Tiles /\ NoTile # Active
  BY AircraftListsAssumption
<1>2. /\ \A l \in Tiles : Flagged(l) = {b \in table : globe_index[b] = l}
      /\ \A l \in Tiles : Flagged(l)' = {b \in table' : globe_index'[b] = l}
      /\ Flagged(Active) = {b \in table : onActiveList[b]}
      /\ Flagged(Active)' = {b \in table' : onActiveList'[b]}
  BY <1>1 DEF Flagged
<1>3. /\ globe_index'[a] = NoTile /\ ~onActiveList'[a] /\ table \subseteq Aircraft
      /\ \A b \in Aircraft \ {a} : /\ globe_index'[b] = globe_index[b]
                                   /\ onActiveList'[b] = onActiveList[b]
  BY DEF TypeOK
<1>4. \A b : b # a => (b \in table' <=> b \in table)
  OBVIOUS
<1>5. Flagged(Active)' = Flagged(Active) \ {a}
  BY <1>2, <1>3, <1>4
<1>6. \A l \in Tiles : Flagged(l)' = Flagged(l) \ {a}
  BY <1>1, <1>2, <1>3, <1>4
<1>7. QED
  BY <1>5, <1>6 DEF Lists

\* An aircraft that is freed has left both its lists.
LEMMA FreeKeeps ==
  ASSUME TypeOK, Stopped, Listing, NEW a \in Aircraft, FreeAircraft(a)
  PROVE  Kept
<1>1. /\ upc = "remove" /\ table' = table \ {a} /\ dpc' = dpc
      /\ globe_index' = [globe_index EXCEPT ![a] = NoTile]
      /\ onActiveList' = [onActiveList EXCEPT ![a] = FALSE]
      /\ ca' = OffActive(a, OffTile(a, ca))
  BY DEF FreeAircraft, decode
<1>2. dpc = "wait"
  BY <1>1, StopTheWorld DEF StoppedAt
<1>3. \A l \in Lists : Flagged(l)' = Flagged(l) \ {a}
  BY <1>1, Unflagged
<1>4. /\ ca \in [Lists -> ListType]
      /\ globe_index \in [Aircraft -> Tiles \union {NoTile}]
      /\ NoTile \notin Tiles /\ Active \notin Tiles /\ NoTile # Active
  BY AircraftListsAssumption DEF TypeOK, ListType
<1> DEFINE off == OffTile(a, ca)
<1>5. /\ DOMAIN off = Lists /\ off = [l \in Lists |-> off[l]]
      /\ \A l \in Lists : off[l] = IF l = globe_index[a] THEN RemoveFrom(ca[l], a) ELSE ca[l]
  BY <1>4, Off
<1> HIDE DEF off
<1>6. /\ ca' = [l \in Lists |-> ca'[l]]
      /\ \A l \in Lists : ca'[l] = IF l = Active /\ onActiveList[a] THEN RemoveFrom(off[l], a)
                                   ELSE off[l]
  <2>1. ca' = OffActive(a, off)
    BY <1>1 DEF off
  <2>2. ca' = IF onActiveList[a] THEN [off EXCEPT ![Active] = RemoveFrom(@, a)] ELSE off
    BY <2>1 DEF OffActive
  <2>3. Active \in Lists
    BY DEF Lists
  <2>4. CASE onActiveList[a]
    <3>1. ca' = [off EXCEPT ![Active] = RemoveFrom(@, a)]
      BY <2>2, <2>4
    <3>2. QED
      BY <1>5, <2>3, <2>4, <3>1
  <2>5. CASE ~onActiveList[a]
    BY <1>5, <2>2, <2>5
  <2>6. QED
    BY <2>4, <2>5
<1>7. globe_index[a] # Active
  BY <1>4
<1>8. ASSUME NEW l \in Lists
      PROVE  \/ ca'[l] = RemoveFrom(ca[l], a) /\ Flagged(l)' = Flagged(l) \ {a}
             \/ ca'[l] = ca[l] /\ Flagged(l)' = Flagged(l)
  <2>1. CASE l = globe_index[a]
    BY <1>3, <1>5, <1>6, <1>7, <2>1
  <2>2. CASE l = Active /\ onActiveList[a]
    BY <1>3, <1>5, <1>6, <1>7, <2>2
  <2>3. CASE l # globe_index[a] /\ ~(l = Active /\ onActiveList[a])
    <3>1. a \notin Flagged(l)
      BY <2>3 DEF Flagged
    <3>2. QED
      BY <1>3, <1>5, <1>6, <2>3, <3>1
  <2>4. QED
    BY <2>1, <2>2, <2>3
<1>9. \A b \in Aircraft \ table' : globe_index'[b] = NoTile /\ ~onActiveList'[b]
  BY <1>1 DEF Listing, Working, TypeOK
<1>10. QED
  BY <1>1, <1>2, <1>6, <1>8, <1>9, Leaving

\* An aircraft that is too old leaves both its lists, and is not freed.
LEMMA ActiveUpdateKeeps ==
  ASSUME TypeOK, Stopped, Listing, ActiveUpdate
  PROVE  Kept
<1>1. dpc = "wait"
  BY StopTheWorld DEF ActiveUpdate, StoppedAt
<1>2. PICK i \in 1..ca[Active].len :
         /\ globe_index' = [globe_index EXCEPT ![ca[Active].list[i]] = NoTile]
         /\ onActiveList' = [onActiveList EXCEPT ![ca[Active].list[i]] = FALSE]
         /\ ca' = [OffTile(ca[Active].list[i], ca) EXCEPT
                      ![Active] = RemoveFrom(@, ca[Active].list[i])]
  BY DEF ActiveUpdate
<1>3. table' = table /\ dpc' = dpc
  BY DEF ActiveUpdate, decode
<1>4. PICK a \in Aircraft : a = ca[Active].list[i]
  <2>1. Active \in Lists
    BY DEF Lists
  <2>2. ca[Active].list[i] \in Flagged(Active)
    BY <1>1, <2>1, Settled DEF Listed
  <2>3. QED
    BY <2>2 DEF Flagged, TypeOK
<1>5. \A l \in Lists : Flagged(l)' = Flagged(l) \ {a}
  BY <1>2, <1>3, <1>4, Unflagged
<1>6. /\ ca \in [Lists -> ListType]
      /\ globe_index \in [Aircraft -> Tiles \union {NoTile}]
      /\ NoTile \notin Tiles /\ Active \notin Tiles /\ NoTile # Active
  BY AircraftListsAssumption DEF TypeOK, ListType
<1> DEFINE off == OffTile(a, ca)
<1>7. /\ DOMAIN off = Lists /\ off = [l \in Lists |-> off[l]]
      /\ \A l \in Lists : off[l] = IF l = globe_index[a] THEN RemoveFrom(ca[l], a) ELSE ca[l]
  BY <1>6, Off
<1>8. ca' = [off EXCEPT ![Active] = RemoveFrom(@, a)]
  BY <1>2, <1>4
<1> HIDE DEF off
<1>9. /\ ca' = [l \in Lists |-> ca'[l]]
      /\ \A l \in Lists : ca'[l] = IF l = Active THEN RemoveFrom(off[l], a) ELSE off[l]
  BY <1>7, <1>8 DEF Lists
<1>10. globe_index[a] # Active
  BY <1>6
<1>11. ASSUME NEW l \in Lists
       PROVE  \/ ca'[l] = RemoveFrom(ca[l], a) /\ Flagged(l)' = Flagged(l) \ {a}
              \/ ca'[l] = ca[l] /\ Flagged(l)' = Flagged(l)
  <2>1. CASE l \in {Active, globe_index[a]}
    BY <1>5, <1>7, <1>9, <1>10, <2>1
  <2>2. CASE l \notin {Active, globe_index[a]}
    <3>1. a \notin Flagged(l)
      BY <2>2 DEF Flagged
    <3>2. QED
      BY <1>5, <1>7, <1>9, <2>2, <3>1
  <2>3. QED
    BY <2>1, <2>2
<1>12. \A b \in Aircraft \ table' : globe_index'[b] = NoTile /\ ~onActiveList'[b]
  BY <1>2, <1>3, <1>4 DEF Listing, Working, TypeOK
<1>13. QED
  BY <1>1, <1>3, <1>9, <1>11, <1>12, Leaving

\* An aircraft that is not heard any more leaves its tile's list.
LEMMA ValiditiesKeep ==
  ASSUME TypeOK, Stopped, Listing, NEW a \in Aircraft, UpdateValidities(a)
  PROVE  Kept
<1>1. dpc = "wait" /\ UNCHANGED <<table, onActiveList, dpc, craft, cl, tile>>
  BY StopTheWorld DEF UpdateValidities, StoppedAt, decode
<1>2. CASE UNCHANGED <<ca, globe_index>>
  BY <1>1, <1>2, ListingStays DEF Kept, TypeOK, ListType
<1>3. CASE ca' = OffTile(a, ca) /\ globe_index' = [globe_index EXCEPT ![a] = NoTile]
  <2>1. /\ ca \in [Lists -> ListType]
        /\ globe_index \in [Aircraft -> Tiles \union {NoTile}]
        /\ NoTile \notin Tiles /\ Active \notin Tiles /\ NoTile # Active
    BY AircraftListsAssumption DEF TypeOK, ListType
  <2>2. /\ ca' = [l \in Lists |-> ca'[l]]
        /\ \A l \in Lists : ca'[l] = IF l = globe_index[a] THEN RemoveFrom(ca[l], a) ELSE ca[l]
    BY <1>3, <2>1, Off
  <2>3. /\ globe_index'[a] = NoTile /\ \A b \in Aircraft \ {a} : globe_index'[b] = globe_index[b]
        /\ table \subseteq Aircraft
    BY <1>3 DEF TypeOK
  <2>4. /\ \A l \in Tiles : Flagged(l) = {b \in table : globe_index[b] = l}
        /\ \A l \in Tiles : Flagged(l)' = {b \in table : globe_index'[b] = l}
        /\ Flagged(Active)' = Flagged(Active)
    BY <1>1, <2>1 DEF Flagged
  <2>5. ASSUME NEW l \in Lists
        PROVE  Flagged(l)' = IF l = globe_index[a] THEN Flagged(l) \ {a} ELSE Flagged(l)
    <3>1. CASE l = Active
      BY <2>1, <2>4, <3>1
    <3>2. CASE l \in Tiles /\ l = globe_index[a]
      BY <2>1, <2>3, <2>4, <3>2
    <3>3. CASE l \in Tiles /\ l # globe_index[a]
      BY <2>1, <2>3, <2>4, <3>3
    <3>4. QED
      BY <3>1, <3>2, <3>3 DEF Lists
  <2>6. \A b \in Aircraft \ table' : globe_index'[b] = NoTile /\ ~onActiveList'[b]
    BY <1>1, <2>3 DEF Listing, Working
  <2>7. QED
    BY <1>1, <2>2, <2>5, <2>6, Leaving
<1>4. QED
  BY <1>2, <1>3 DEF UpdateValidities

\* An aircraft from a state file leaves the lists of the one it replaces and joins its own.
LEMMA ReplaceKeeps ==
  ASSUME TypeOK, Stopped, Listing, NEW a \in Aircraft, NEW t \in Tiles \union {NoTile},
         NEW on \in BOOLEAN, NEW g, ReplaceAircraft(a, t, on, g)
  PROVE  Kept
<1>1. /\ upc = "stopped" /\ table' = table \union {a} /\ dpc' = dpc
      /\ globe_index' = [globe_index EXCEPT ![a] = t]
      /\ onActiveList' = [onActiveList EXCEPT ![a] = on]
  BY DEF ReplaceAircraft, decode
<1>2. dpc = "wait"
  BY <1>1, StopTheWorld DEF StoppedAt
<1>3. /\ ca \in [Lists -> ListType] /\ table \subseteq Aircraft
      /\ globe_index \in [Aircraft -> Tiles \union {NoTile}]
      /\ NoTile \notin Tiles /\ Active \notin Tiles /\ NoTile # Active
  BY AircraftListsAssumption DEF TypeOK, ListType
<1> DEFINE offActive == OffActive(a, ca)
           off == OffTile(a, offActive)
<1>4. \A l \in Lists : /\ Flagged(l) \in SUBSET Aircraft
                       /\ Holds(ca[l].list, ca[l].len, Flagged(l)) /\ Unused(ca[l].list, ca[l].len)
  BY <1>2, Settled DEF Flagged, TypeOK
<1>5. /\ DOMAIN offActive = Lists /\ offActive = [l \in Lists |-> offActive[l]]
      /\ \A l \in Lists : offActive[l] = IF l = Active /\ onActiveList[a]
                                         THEN RemoveFrom(ca[l], a) ELSE ca[l]
  BY <1>3, Off
<1> HIDE DEF offActive
<1>6. /\ DOMAIN off = Lists /\ off = [l \in Lists |-> off[l]]
      /\ \A l \in Lists : off[l] = IF l = globe_index[a] THEN RemoveFrom(offActive[l], a)
                                   ELSE offActive[l]
  BY <1>3, <1>5, Off
<1> HIDE DEF off
<1>7. ASSUME NEW l \in Lists
      PROVE  \/ off[l] = RemoveFrom(ca[l], a)
             \/ off[l] = ca[l] /\ Flagged(l) = Flagged(l) \ {a}
  <2>1. CASE l = globe_index[a] \/ (l = Active /\ onActiveList[a])
    BY <1>3, <1>5, <1>6, <2>1
  <2>2. CASE ~(l = globe_index[a] \/ (l = Active /\ onActiveList[a]))
    <3>1. a \notin Flagged(l)
      BY <2>2 DEF Flagged
    <3>2. QED
      BY <1>5, <1>6, <2>2, <3>1
  <2>3. QED
    BY <2>1, <2>2
<1>8. ASSUME NEW l \in Lists
      PROVE  /\ off[l] \in ListType
             /\ Holds(off[l].list, off[l].len, Flagged(l) \ {a}) /\ Unused(off[l].list, off[l].len)
  <2>1. PICK c \in ListType, S \in SUBSET Aircraft :
           /\ c = ca[l] /\ S = Flagged(l) /\ Holds(c.list, c.len, S) /\ Unused(c.list, c.len)
    BY <1>3, <1>4
  <2>2. /\ RemoveFrom(c, a) \in ListType
        /\ Holds(RemoveFrom(c, a).list, RemoveFrom(c, a).len, S \ {a})
        /\ Unused(RemoveFrom(c, a).list, RemoveFrom(c, a).len)
    BY <2>1, Removal
  <2>3. QED
    BY <1>7, <2>1, <2>2
<1> DEFINE Added(l) == l = t \/ (l = Active /\ on)
<1>9. /\ ca' = [l \in Lists |-> ca'[l]]
      /\ \A l \in Lists : ca'[l] = IF Added(l) THEN AddTo(off[l], a) ELSE off[l]
  <2>1. ca' = LET tiled == IF t \in Tiles THEN [off EXCEPT ![t] = AddTo(@, a)] ELSE off
              IN  IF on THEN [tiled EXCEPT ![Active] = AddTo(@, a)] ELSE tiled
    BY DEF ReplaceAircraft, off, offActive
  <2> DEFINE tiled == IF t \in Tiles THEN [off EXCEPT ![t] = AddTo(@, a)] ELSE off
  <2>2. /\ DOMAIN tiled = Lists
        /\ \A l \in Lists : tiled[l] = IF l = t THEN AddTo(off[l], a) ELSE off[l]
    BY <1>3, <1>6 DEF Lists
  <2>3. tiled = [l \in Lists |-> tiled[l]]
    <3>1. CASE t \in Tiles
      <4>1. tiled = [off EXCEPT ![t] = AddTo(@, a)]
        BY <3>1
      <4>2. QED
        BY <2>2, <4>1
    <3>2. CASE t \notin Tiles
      <4>1. tiled = off
        BY <3>2
      <4>2. QED
        BY <1>6, <4>1
    <3>3. QED
      BY <3>1, <3>2
  <2>4. ca' = IF on THEN [tiled EXCEPT ![Active] = AddTo(@, a)] ELSE tiled
    BY <2>1
  <2> HIDE DEF tiled
  <2>5. /\ DOMAIN ca' = Lists
        /\ \A l \in Lists : ca'[l] = IF on /\ l = Active THEN AddTo(tiled[l], a) ELSE tiled[l]
    <3>1. CASE on
      <4>1. ca' = [tiled EXCEPT ![Active] = AddTo(@, a)]
        BY <2>4, <3>1
      <4>2. QED
        BY <2>2, <3>1, <4>1
    <3>2. CASE ~on
      BY <2>2, <2>4, <3>2
    <3>3. QED
      BY <3>1, <3>2
  <2>6. ca' = [l \in Lists |-> ca'[l]]
    <3>1. CASE on
      <4>1. ca' = [tiled EXCEPT ![Active] = AddTo(@, a)]
        BY <2>4, <3>1
      <4>2. QED
        BY <2>2, <4>1
    <3>2. CASE ~on
      <4>1. ca' = tiled
        BY <2>4, <3>2
      <4>2. tiled = [l \in Lists |-> tiled[l]]
        BY <2>3
      <4>3. QED
        BY <4>1, <4>2
    <3>3. QED
      BY <3>1, <3>2
  <2>7. QED
    BY <1>3, <2>2, <2>5, <2>6
<1>10. /\ globe_index'[a] = t /\ onActiveList'[a] = on
       /\ \A b \in Aircraft \ {a} : /\ globe_index'[b] = globe_index[b]
                                    /\ onActiveList'[b] = onActiveList[b]
  BY <1>1 DEF TypeOK
<1>11. ASSUME NEW l \in Lists
       PROVE  Flagged(l)' = IF Added(l) THEN (Flagged(l) \ {a}) \union {a} ELSE Flagged(l) \ {a}
  <2>1. CASE l = Active
    <3>1. /\ Flagged(Active) = {b \in table : onActiveList[b]}
          /\ Flagged(Active)' = {b \in table \union {a} : onActiveList'[b]}
      BY <1>1, <1>3 DEF Flagged
    <3>2. QED
      BY <1>3, <1>10, <2>1, <3>1
  <2>2. CASE l \in Tiles
    <3>1. /\ Flagged(l) = {b \in table : globe_index[b] = l}
          /\ Flagged(l)' = {b \in table \union {a} : globe_index'[b] = l}
      BY <1>1, <1>3, <2>2 DEF Flagged
    <3>2. QED
      BY <1>3, <1>10, <2>2, <3>1
  <2>3. QED
    BY <2>1, <2>2 DEF Lists
<1>12. ASSUME NEW l \in Lists
       PROVE  /\ ca'[l] \in ListType
              /\ Holds(ca'[l].list, ca'[l].len, Flagged(l)') /\ Unused(ca'[l].list, ca'[l].len)
  <2>1. CASE ~Added(l)
    BY <1>8, <1>9, <1>11, <2>1
  <2>2. CASE Added(l)
    <3>1. PICK c \in ListType, S \in SUBSET Aircraft :
             /\ c = off[l] /\ S = Flagged(l) \ {a}
             /\ Holds(c.list, c.len, S) /\ Unused(c.list, c.len)
      BY <1>4, <1>8
    <3>2. /\ AddTo(c, a) \in ListType
          /\ Holds(AddTo(c, a).list, AddTo(c, a).len, S \union {a})
          /\ Unused(AddTo(c, a).list, AddTo(c, a).len)
      BY <3>1, Addition
    <3>3. QED
      BY <1>9, <1>11, <2>2, <3>1, <3>2
  <2>3. QED
    BY <2>1, <2>2
<1>13. ca' \in [Lists -> ListType]
  BY <1>9, <1>12
<1>14. \A b \in Aircraft \ table' : globe_index'[b] = NoTile /\ ~onActiveList'[b]
  BY <1>1, <1>10 DEF Listing, Working
<1>15. QED
  BY <1>1, <1>2, <1>12, <1>13, <1>14, Settling

\* Every step leaves the lists as they should be.
LEMMA ListingStep ==
  ASSUME TypeOK, Stopped, Listing, Next
  PROVE  Kept
<1>1. CASE ListSteps
  BY <1>1, MoveKeeps, ClearKeeps, ShrinkKeeps, AddKeeps, GrowKeeps, StoreKeeps, LengthKeeps,
     LateStoreKeeps, LeaveKeeps, CheckActiveKeeps, CheckActiveNoTileKeeps, FlagKeeps
     DEF ListSteps
<1>2. ASSUME NEW a \in Aircraft, NEW t \in flies[a] PROVE t \in Tiles \union {NoTile}
  BY AircraftListsAssumption DEF TypeOK
<1>3. CASE \E a \in Aircraft, g \in {0, 1} : \E t \in flies[a] : Message(a, t, g)
  BY <1>2, <1>3, MessageKeeps
<1>4. CASE \E a \in Aircraft, on \in BOOLEAN, g \in 0..2 :
              \E t \in flies[a] : ReplaceAircraft(a, t, on, g)
  BY <1>2, <1>4, ReplaceKeeps
<1>5. CASE ActiveUpdate \/ \E a \in Aircraft : UpdateValidities(a) \/ FreeAircraft(a)
  BY <1>5, ActiveUpdateKeeps, ValiditiesKeep, FreeKeeps
<1>6. CASE /\ UNCHANGED <<table, onActiveList, globe_index, ca, craft, cl, tile>>
           /\ dpc' = dpc \/ {dpc, dpc'} \subseteq {"wait", "top"}
  BY <1>6, ListingStays DEF Kept, TypeOK, ListType
<1>7. CASE DecodeWake \/ DecodeWait
  BY <1>6, <1>7 DEF DecodeWake, DecodeWait, DGoto, craftVars
<1>8. CASE \E r \in Readers : ReaderSteps(r)
  BY <1>6, <1>8 DEF ReaderSteps, ReaderWake, Scan, LockRead, Load, Use, UnlockRead, ReaderWait,
     craftVars, decode
<1>9. CASE PriorityTasks \/ RemoveStale \/ ActiveUpdated \/ ValiditiesUpdated \/ Removed
           \/ \E t \in Threads : LockThread(t) \/ UnlockThread(t)
  BY <1>6, <1>9 DEF PriorityTasks, RemoveStale, ActiveUpdated, ValiditiesUpdated, Removed,
     LockThread, UnlockThread, craftVars, decode
<1>10. CASE \E a \in Aircraft : GrowOlder(a)
  BY <1>6, <1>10 DEF GrowOlder, decode
<1>11. QED
  BY <1>1, <1>3, <1>4, <1>5, <1>7, <1>8, <1>9, <1>10 DEF Next, DecodeSteps, UpkeepSteps

-----------------------------------------------------------------------------
(* Types.                                                                  *)

\* what ListingStep and CountedStep do not say of the types
OtherTypes ==
    /\ flies \in Flights
    /\ table \subseteq Aircraft
    /\ age \in [Aircraft -> 0..3]
    /\ onActiveList \in [Aircraft -> BOOLEAN]
    /\ globe_index \in [Aircraft -> Tiles \union {NoTile}]
    /\ change_mutex \in [Lists -> {Decode, Nobody}]
    /\ mutex \in [Threads -> Threads \union {Upkeep, Nobody}]
    /\ dpc \in {"wait", "top", "move", "clear", "shrink", "add", "grow", "store", "length",
                "lateStore", "leave", "active", "flag"}
    /\ craft \in Aircraft
    /\ cl \in Lists
    /\ tile \in Tiles \union {NoTile}
    /\ rpc \in [Readers -> {"wait", "begin", "loop", "use", "end"}]
    /\ index \in [Readers -> Nat \ {0}]
    /\ cur \in [Readers -> Entries]
    /\ seen \in [Readers -> SUBSET Entries]
    /\ must \in [Readers -> SUBSET Aircraft]
    /\ upc \in {"idle", "lock", "stopped", "active", "validities", "remove", "unlock"}
    /\ locked \subseteq Threads
    /\ todo \subseteq Aircraft

\* TypeOK in parts.
LEMMA TypeSplit ==
  TypeOK <=> OtherTypes /\ ca \in [Lists -> ListType] /\ reader_count \in [Lists -> Nat]
BY DEF TypeOK, OtherTypes, ListType

\* must only loses aircraft when an aircraft leaves lists.
LEMMA LeftType ==
  ASSUME must \in [Readers -> SUBSET Aircraft], NEW a, NEW lists, Left(a, lists)
  PROVE  /\ must' \in [Readers -> SUBSET Aircraft]
         /\ \A r \in Readers : must'[r] \subseteq must[r]
BY DEF Left

\* The decode thread's steps keep the types.
LEMMA DecodeTypes ==
  ASSUME TypeOK, Listing, DecodeSteps, UNCHANGED flies
  PROVE  OtherTypes'
<1>1. OtherTypes
  BY TypeSplit
<1>2. CASE DecodeWake
  BY <1>1, <1>2 DEF OtherTypes, DecodeWake, DGoto, craftVars, reader, upkeep, Threads
<1>3. CASE DecodeWait
  BY <1>1, <1>3 DEF OtherTypes, DecodeWait, DGoto, craftVars, reader, upkeep, Threads
<1>4. CASE Move
  BY <1>1, <1>4 DEF OtherTypes, Move, DGoto, craftVars, reader, upkeep
<1>5. CASE Clear
  BY <1>1, <1>5 DEF OtherTypes, Clear, DGoto, craftVars, reader, upkeep, locks
<1>6. CASE Shrink
  BY <1>1, <1>6 DEF OtherTypes, Shrink, DGoto, craftVars, reader, upkeep, Lists
<1>7. CASE Add
  BY <1>1, <1>7 DEF OtherTypes, Add, DGoto, craftVars, reader, upkeep
<1>8. CASE Grow
  BY <1>1, <1>8 DEF OtherTypes, Grow, DGoto, craftVars, reader, upkeep, locks
<1>9. CASE Store
  BY <1>1, <1>9 DEF OtherTypes, Store, DGoto, craftVars, reader, upkeep, locks
<1>10. CASE Length
  BY <1>1, <1>10 DEF OtherTypes, Length, DGoto, craftVars, reader, upkeep, locks
<1>11. CASE LengthEarly
  BY <1>1, <1>11 DEF OtherTypes, LengthEarly, DGoto, craftVars, reader, upkeep, locks
<1>12. CASE LateStore
  BY <1>1, <1>12 DEF OtherTypes, LateStore, DGoto, craftVars, reader, upkeep, locks
<1>13. CASE Leave
  BY <1>1, <1>13 DEF OtherTypes, Leave, DGoto, craftVars, reader, upkeep
<1>14. CASE CheckActive
  BY <1>1, <1>14 DEF OtherTypes, CheckActive, DGoto, craftVars, reader, upkeep, locks, Lists
<1>15. CASE CheckActiveNoTile
  <2>1. must' \in [Readers -> SUBSET Aircraft]
    BY <1>1, <1>15, LeftType DEF OtherTypes, CheckActiveNoTile
  <2>2. QED
    BY <1>1, <1>15, <2>1 DEF OtherTypes, CheckActiveNoTile, DGoto, upkeep, locks, Lists
<1>16. CASE Flag
  BY <1>1, <1>16 DEF OtherTypes, Flag, DGoto, reader, upkeep, locks
<1>17. ASSUME NEW a \in Aircraft, NEW g \in {0, 1}, NEW t \in flies[a], Message(a, t, g)
       PROVE  OtherTypes'
  <2>1. t \in Tiles \union {NoTile}
    BY <1>1, AircraftListsAssumption DEF OtherTypes
  <2>2. must' \in [Readers -> SUBSET Aircraft]
    BY <1>1, <1>17, LeftType DEF OtherTypes, Message
  <2>3. g \in 0..3
    OBVIOUS
  <2>4. CASE t \in {NoTile, globe_index[a]}
    BY <1>1, <1>17, <2>1, <2>2, <2>3, <2>4 DEF OtherTypes, Message, upkeep, locks
  <2>5. CASE t \notin {NoTile, globe_index[a]}
    BY <1>1, <1>17, <2>1, <2>2, <2>3, <2>5 DEF OtherTypes, Message, upkeep, locks, Lists
  <2>6. QED
    BY <2>4, <2>5
<1>18. QED
  BY <1>2, <1>3, <1>4, <1>5, <1>6, <1>7, <1>8, <1>9, <1>10, <1>11, <1>12, <1>13, <1>14, <1>15,
     <1>16, <1>17 DEF DecodeSteps, ListSteps

\* What a list's entries may be: aircraft in memory, a NULL, or the entry whose length was
\* stored before it.
LEMMA Stores ==
  ASSUME TypeOK, Listing, NEW l \in Lists, NEW i \in 1..ca[l].len
  PROVE  /\ ca[l].len \in Nat
         /\ \/ ca[l].list[i] \in table \union {None}
            \/ dpc = "lateStore" /\ ca[l].list[i] \in Nothing
<1>1. PICK c \in ListType : c = ca[l]
  BY TypeSplit
<1>2. /\ c.len \in Nat /\ c.list \in Seq(Entries) /\ Len(c.list) \in Nat
  BY DEF ListType
<1>3. /\ Holds(c.list, Stored(l), Expected(l)) /\ Unused(c.list, Last(l))
      /\ Stored(l) \in 0..Len(c.list)
  BY <1>1 DEF Listing, Contents, InPlace, Holds
<1>4. Expected(l) \subseteq table
  BY FlaggedType DEF Expected, Listing, Working, Removing, Adding
<1>5. \A j \in 1..Stored(l) : c.list[j] \in table
  BY <1>3, <1>4 DEF Holds
<1>6. CASE i <= Stored(l)
  BY <1>1, <1>2, <1>3, <1>5, <1>6
<1>7. CASE i > Stored(l)
  <2>1. l = cl /\ dpc \in {"clear", "shrink", "lateStore"} /\ i = c.len /\ Stored(l) = c.len - 1
    BY <1>1, <1>2, <1>7 DEF Stored
  <2>2. CASE dpc = "clear"
    BY <1>1, <1>2, <2>1, <2>2 DEF Listing, Behind
  <2>3. CASE dpc = "shrink"
    BY <1>1, <1>2, <2>1, <2>3 DEF Listing, Behind
  <2>4. CASE dpc = "lateStore"
    <3>1. Last(l) = Stored(l) /\ c.len <= Len(c.list)
      BY <1>1, <2>1, <2>4 DEF Last, Listing, Working
    <3>2. QED
      BY <1>1, <1>2, <1>3, <2>1, <2>4, <3>1 DEF Unused
  <2>5. QED
    BY <2>1, <2>2, <2>3, <2>4
<1>8. QED
  BY <1>2, <1>3, <1>6, <1>7

\* So do the readers'.
LEMMA ReaderTypes ==
  ASSUME TypeOK, Listing, NEW r \in Readers, ReaderSteps(r), UNCHANGED flies
  PROVE  OtherTypes'
<1>1. OtherTypes
  BY TypeSplit
<1>2. CASE ReaderWake(r)
  BY <1>1, <1>2 DEF OtherTypes, ReaderWake, RGoto, craftVars, decode, upkeep, Threads
<1>3. CASE ReaderWait(r)
  BY <1>1, <1>3 DEF OtherTypes, ReaderWait, RGoto, craftVars, decode, upkeep, Threads
<1>4. CASE LockRead(r)
  BY <1>1, <1>4, FlaggedType DEF OtherTypes, LockRead, RGoto, craftVars, decode, upkeep
<1>5. CASE Load(r)
  <2>1. index[r] <= ca[ScannedList(r)].len => ca[ScannedList(r)].list[index[r]] \in Entries
    <3>1. ScannedList(r) \in Lists /\ index[r] \in Nat \ {0}
      BY <1>1, AircraftListsAssumption DEF OtherTypes
    <3>2. PICK l \in Lists, i \in Nat \ {0} : l = ScannedList(r) /\ i = index[r]
      BY <3>1
    <3>3. ca[l].len \in Nat
      BY TypeSplit DEF ListType
    <3>4. i <= ca[l].len => ca[l].list[i] \in table \union {None} \union Nothing
      BY <3>3, Stores
    <3>5. QED
      BY <1>1, <3>2, <3>4 DEF OtherTypes, Entries, Nothing
  <2>2. QED
    BY <1>1, <1>5, <2>1 DEF OtherTypes, Load, RGoto, craftVars, decode, upkeep, locks
<1>6. CASE Use(r)
  BY <1>1, <1>6 DEF OtherTypes, Use, RGoto, craftVars, decode, upkeep, locks, Entries
<1>7. CASE UnlockRead(r)
  BY <1>1, <1>7 DEF OtherTypes, UnlockRead, RGoto, craftVars, decode, upkeep
<1>8. QED
  BY <1>2, <1>3, <1>4, <1>5, <1>6, <1>7 DEF ReaderSteps, Scan

\* So do the upkeep thread's.
LEMMA UpkeepTypes ==
  ASSUME TypeOK, Stopped, Listing, UpkeepSteps, UNCHANGED flies
  PROVE  OtherTypes'
<1>1. OtherTypes /\ Active \in Lists
  BY TypeSplit DEF Lists
<1>2. CASE PriorityTasks \/ RemoveStale \/ Removed
  BY <1>1, <1>2 DEF OtherTypes, PriorityTasks, RemoveStale, Removed, UGoto, craftVars, locks,
     decode, reader
<1>3. upc \in StoppedAt => Listed(Active) \subseteq Aircraft
  <2>1. upc \in StoppedAt => Listed(Active) = Flagged(Active)
    BY <1>1, StopTheWorld, Settled
  <2>2. QED
    BY <1>1, <2>1, FlaggedType DEF OtherTypes
<1>4. CASE ActiveUpdated
  BY <1>1, <1>3, <1>4 DEF OtherTypes, ActiveUpdated, UGoto, craftVars, decode, reader, StoppedAt
<1>5. CASE ValiditiesUpdated
  BY <1>1, <1>5 DEF OtherTypes, ValiditiesUpdated, UGoto, craftVars, decode, reader
<1>6. ASSUME NEW t \in Threads, LockThread(t) PROVE OtherTypes'
  BY <1>1, <1>6 DEF OtherTypes, LockThread, craftVars, decode, reader
<1>7. ASSUME NEW t \in Threads, UnlockThread(t) PROVE OtherTypes'
  BY <1>1, <1>7 DEF OtherTypes, UnlockThread, craftVars, decode, reader
<1>8. CASE ActiveUpdate
  <2>1. PICK i \in 1..ca[Active].len,
             a \in {ca[Active].list[k] : k \in 1..ca[Active].len} :
           /\ a = ca[Active].list[i] /\ upc = "active"
           /\ onActiveList' = [onActiveList EXCEPT ![a] = FALSE]
           /\ globe_index' = [globe_index EXCEPT ![a] = NoTile]
           /\ Left(a, {Active, globe_index[a]})
    BY <1>8 DEF ActiveUpdate
  <2>2. a \in Aircraft
    BY <1>3, <2>1 DEF Listed, StoppedAt
  <2>3. must' \in [Readers -> SUBSET Aircraft]
    BY <1>1, <2>1, LeftType DEF OtherTypes
  <2>4. QED
    BY <1>1, <1>8, <2>1, <2>2, <2>3 DEF OtherTypes, ActiveUpdate, locks, decode, upkeep
<1>9. ASSUME NEW a \in Aircraft, UpdateValidities(a) PROVE OtherTypes'
  <2>1. must' \in [Readers -> SUBSET Aircraft]
    BY <1>1, <1>9, LeftType DEF OtherTypes, UpdateValidities
  <2>2. globe_index' \in [Aircraft -> Tiles \union {NoTile}] /\ todo' \subseteq Aircraft
    BY <1>1, <1>9 DEF OtherTypes, UpdateValidities
  <2>3. QED
    BY <1>1, <1>9, <2>1, <2>2 DEF OtherTypes, UpdateValidities, locks, decode
<1>10. ASSUME NEW a \in Aircraft, FreeAircraft(a) PROVE OtherTypes'
  <2>1. must' \in [Readers -> SUBSET Aircraft]
    BY <1>1, <1>10, LeftType DEF OtherTypes, FreeAircraft
  <2>2. QED
    BY <1>1, <1>10, <2>1 DEF OtherTypes, FreeAircraft, locks, decode, upkeep
<1>11. QED
  BY <1>2, <1>4, <1>5, <1>6, <1>7, <1>8, <1>9, <1>10 DEF UpkeepSteps

\* Every variable keeps its type.
LEMMA TypeStep ==
  ASSUME TypeOK, Stopped, Counted, Listing, Next
  PROVE  TypeOK'
<1>1. OtherTypes
  BY TypeSplit
<1>2. /\ ca' \in [Lists -> ListType]
      /\ reader_count' \in [Lists -> Nat]
  BY ListingStep, CountedStep DEF Kept
<1>3. ASSUME NEW a \in Aircraft, GrowOlder(a) PROVE OtherTypes'
  BY <1>1, <1>3 DEF OtherTypes, Next, GrowOlder, locks, decode, reader, upkeep
<1>4. ASSUME NEW a \in Aircraft, NEW on \in BOOLEAN, NEW g \in 0..2, NEW t \in flies[a],
             ReplaceAircraft(a, t, on, g)
      PROVE  OtherTypes'
  <2>1. t \in Tiles \union {NoTile}
    BY <1>1, AircraftListsAssumption DEF OtherTypes
  <2>2. must' \in [Readers -> SUBSET Aircraft]
    BY <1>1, <1>4, LeftType DEF OtherTypes, ReplaceAircraft
  <2>3. QED
    BY <1>1, <1>4, <2>1, <2>2 DEF OtherTypes, ReplaceAircraft, Next, locks, decode, upkeep
<1>5. OtherTypes'
  BY <1>3, <1>4, DecodeTypes, ReaderTypes, UpkeepTypes DEF Next
<1>6. QED
  BY <1>2, <1>5 DEF TypeOK, OtherTypes, ListType

-----------------------------------------------------------------------------
(* What readers hold.                                                      *)

\* Aircraft are freed only while the readers wait.
LEMMA TableKept ==
  ASSUME TypeOK, Stopped, Next
  PROVE  table \subseteq table' \/ \A r \in Readers : rpc[r] = "wait" /\ rpc'[r] = "wait"
<1>1. CASE DecodeSteps
  BY <1>1 DEF DecodeSteps, DecodeWake, DecodeWait, Message, ListSteps, Move, Clear, Shrink, Add,
     Grow, Store, Length, LengthEarly, LateStore, Leave, CheckActive, CheckActiveNoTile, Flag,
     craftVars
<1>2. CASE \E r \in Readers : ReaderSteps(r)
  BY <1>2 DEF ReaderSteps, ReaderWake, Scan, LockRead, Load, Use, UnlockRead, ReaderWait, craftVars
<1>3. CASE \E a \in Aircraft : FreeAircraft(a)
  BY <1>3, StopTheWorld DEF FreeAircraft, StoppedAt
<1>4. CASE UpkeepSteps /\ ~\E a \in Aircraft : FreeAircraft(a)
  BY <1>4 DEF UpkeepSteps, PriorityTasks, RemoveStale, ActiveUpdate, ActiveUpdated,
     ValiditiesUpdated, Removed, LockThread, UnlockThread, UpdateValidities, craftVars
<1>5. CASE \E a \in Aircraft : GrowOlder(a)
  BY <1>5 DEF GrowOlder
<1>6. CASE \E a \in Aircraft, on \in BOOLEAN, g \in 0..2 :
              \E t \in flies[a] : ReplaceAircraft(a, t, on, g)
  BY <1>6 DEF ReplaceAircraft
<1>7. QED
  BY <1>1, <1>2, <1>3, <1>4, <1>5, <1>6 DEF Next

\* Only a reader's own step moves it.
LEMMA ReaderAlone ==
  ASSUME Next, NEW r \in Readers, TypeOK
  PROVE  \/ ReaderSteps(r)
         \/ rpc'[r] = rpc[r] /\ index'[r] = index[r] /\ cur'[r] = cur[r] /\ seen'[r] = seen[r]
<1>1. CASE DecodeSteps
  BY <1>1 DEF DecodeSteps, DecodeWake, DecodeWait, Message, ListSteps, Move, Clear, Shrink, Add,
     Grow, Store, Length, LengthEarly, LateStore, Leave, CheckActive, CheckActiveNoTile, Flag,
     reader
<1>2. ASSUME NEW s \in Readers \ {r}, ReaderSteps(s)
      PROVE  rpc'[r] = rpc[r] /\ index'[r] = index[r] /\ cur'[r] = cur[r] /\ seen'[r] = seen[r]
  BY <1>2 DEF ReaderSteps, ReaderWake, Scan, LockRead, Load, Use, UnlockRead, ReaderWait, RGoto,
     TypeOK
<1>3. CASE UpkeepSteps
  BY <1>3 DEF UpkeepSteps, PriorityTasks, RemoveStale, ActiveUpdate, ActiveUpdated,
     ValiditiesUpdated, Removed, LockThread, UnlockThread, UpdateValidities, FreeAircraft, reader
<1>4. CASE \E a \in Aircraft : GrowOlder(a)
  BY <1>4 DEF GrowOlder, reader
<1>5. CASE \E a \in Aircraft, on \in BOOLEAN, g \in 0..2 :
              \E t \in flies[a] : ReplaceAircraft(a, t, on, g)
  BY <1>5 DEF ReplaceAircraft
<1>6. QED
  BY <1>1, <1>2, <1>3, <1>4, <1>5 DEF Next

\* What a reader finds in its list.
LEMMA LoadFinds ==
  ASSUME TypeOK, Listing, NEW r \in Readers, Load(r), rpc'[r] = "use"
  PROVE  /\ index[r] \in 1..ca[ScannedList(r)].len
         /\ cur'[r] = ca[ScannedList(r)].list[index[r]]
         /\ \/ cur'[r] \in table \union {None}
            \/ dpc = "lateStore" /\ cur'[r] \in Nothing
<1>1. PICK l \in Lists, i \in Nat \ {0} : l = ScannedList(r) /\ i = index[r]
  BY AircraftListsAssumption DEF TypeOK
<1>2. ca[l].len \in Nat
  BY TypeSplit DEF ListType
<1>3. i \in 1..ca[l].len /\ cur'[r] = ca[l].list[i]
  BY <1>1, <1>2 DEF Load, RGoto, TypeOK
<1>4. QED
  BY <1>1, <1>3, Stores

\* What a reader has loaded stays in memory.
LEMMA LoadedStep ==
  ASSUME TypeOK, Stopped, Listing, Loaded, Next
  PROVE  Loaded'
<1>1. SUFFICES ASSUME NEW r \in Readers, rpc'[r] = "use"
               PROVE  cur'[r] \in table' \union Nothing
  BY DEF Loaded
<1>2. table \subseteq table'
  BY <1>1, TableKept
<1>3. CASE ReaderSteps(r)
  <2>1. Load(r)
    BY <1>1, <1>3 DEF ReaderSteps, ReaderWake, Scan, LockRead, Use, UnlockRead, ReaderWait, RGoto,
       TypeOK
  <2>2. QED
    BY <1>1, <1>2, <2>1, LoadFinds DEF Nothing
<1>4. CASE ~ReaderSteps(r)
  BY <1>1, <1>2, <1>4, ReaderAlone DEF Loaded
<1>5. QED
  BY <1>3, <1>4

-----------------------------------------------------------------------------
(* Scans of the active list.                                               *)

\* What a reader must find only becomes less.
LEMMA MustKept ==
  ASSUME Next, NEW r \in Readers, TypeOK, ~ReaderSteps(r)
  PROVE  must'[r] \subseteq must[r]
<1> USE DEF TypeOK
<1>1. ASSUME NEW a, NEW lists, Left(a, lists) PROVE must'[r] \subseteq must[r]
  BY <1>1, LeftType
<1>2. CASE DecodeSteps
  BY <1>1, <1>2 DEF DecodeSteps, DecodeWake, DecodeWait, Message, ListSteps, Move, Clear, Shrink,
     Add, Grow, Store, Length, LengthEarly, LateStore, Leave, CheckActive, CheckActiveNoTile, Flag,
     reader
<1>3. ASSUME NEW s \in Readers \ {r}, ReaderSteps(s) PROVE must'[r] \subseteq must[r]
  BY <1>3 DEF ReaderSteps, ReaderWake, Scan, LockRead, Load, Use, UnlockRead, ReaderWait
<1>4. CASE UpkeepSteps
  BY <1>1, <1>4 DEF UpkeepSteps, PriorityTasks, RemoveStale, ActiveUpdate, ActiveUpdated,
     ValiditiesUpdated, Removed, LockThread, UnlockThread, UpdateValidities, FreeAircraft, reader
<1>5. CASE \E a \in Aircraft : GrowOlder(a)
  BY <1>5 DEF GrowOlder, reader
<1>6. CASE \E a \in Aircraft, on \in BOOLEAN, g \in 0..2 :
              \E t \in flies[a] : ReplaceAircraft(a, t, on, g)
  BY <1>1, <1>6 DEF ReplaceAircraft
<1>7. QED
  BY <1>2, <1>3, <1>4, <1>5, <1>6 DEF Next

\* One list keeps the entries of another, except for those that are no aircraft.
Keeps(c, d) ==
    \A i \in 1..c.len : i <= d.len /\ (d.list[i] = c.list[i] \/ c.list[i] \in Nothing)

\* While somebody scans, the active list keeps its entries.
LEMMA ActiveKept ==
  ASSUME TypeOK, Stopped, Listing, Next, NEW r \in Readers, rpc[r] # "wait"
  PROVE  Keeps(ca[Active], ca'[Active])
<1>1. Active \in Lists /\ Active \notin Tiles
  BY AircraftListsAssumption DEF Lists
<1>2. PICK list \in Seq(Entries), n \in Nat : ca[Active] = [list |-> list, len |-> n]
  BY <1>1, TypeSplit DEF ListType
<1>3. n <= Len(list) /\ Len(list) \in Nat
  <2>1. Stored(Active) <= Len(list) /\ (Stored(Active) # n => Active = cl /\ n <= Len(list))
    BY <1>1, <1>2 DEF Listing, Contents, InPlace, Holds, Stored, Working
  <2>2. QED
    BY <1>2, <2>1
<1>4. CASE ca'[Active] = ca[Active]
  BY <1>2, <1>4 DEF Keeps
<1>5. ASSUME NEW new, ca'[Active] = [list |-> new, len |-> n],
             \A i \in 1..n : new[i] = list[i] \/ list[i] \in Nothing
      PROVE  Keeps(ca[Active], ca'[Active])
  BY <1>2, <1>5 DEF Keeps
<1>6. CASE upc \in StoppedAt
  BY <1>6, StopTheWorld
<1>7. CASE Move \/ Clear \/ Shrink
  <2>1. cl # Active
    BY <1>1, <1>7 DEF Move, Clear, Shrink, DGoto, Listing, Working, Removing
  <2>2. QED
    BY <1>1, <1>4, <1>7, <2>1 DEF Move, Clear, Shrink, TypeOK
<1>8. CASE cl # Active /\ (Grow \/ Store \/ Length \/ LengthEarly \/ LateStore)
  BY <1>1, <1>4, <1>8 DEF Grow, Store, Length, LengthEarly, LateStore, TypeOK
<1>9. CASE cl = Active /\ Grow
  <2>1. ca'[Active] = [list |-> Grown(list), len |-> n]
    BY <1>1, <1>2, <1>9 DEF Grow, TypeOK
  <2>2. QED
    BY <1>3, <1>5, <2>1, Growing
<1>10. CASE cl = Active /\ Store
  <2>1. CASE ca' = ca
    BY <1>4, <2>1
  <2>2. CASE ca' = [ca EXCEPT ![Active].list[n + 1] = craft]
    <3>1. ca'[Active] = [list |-> [list EXCEPT ![n + 1] = craft], len |-> n]
      <4>1. ca'[Active] = [ca[Active] EXCEPT !.list[n + 1] = craft]
        BY <1>1, <2>2 DEF TypeOK
      <4>2. QED
        BY <1>2, <4>1
    <3>2. \A i \in 1..n : [list EXCEPT ![n + 1] = craft][i] = list[i]
      BY <1>3
    <3>3. QED
      BY <1>5, <3>1, <3>2
  <2>3. QED
    BY <1>2, <1>10, <2>1, <2>2 DEF Store
<1>11. CASE cl = Active /\ (Length \/ LengthEarly)
  <2>1. ca'[Active] = [list |-> list, len |-> n + 1]
    BY <1>1, <1>2, <1>11 DEF Length, LengthEarly, TypeOK
  <2>2. QED
    BY <1>2, <2>1 DEF Keeps
<1>12. CASE cl = Active /\ LateStore
  <2>1. ca'[Active] = [list |-> [list EXCEPT ![n] = craft], len |-> n]
    BY <1>1, <1>2, <1>12 DEF LateStore, TypeOK
  <2>2. n \in 1..Len(list) /\ list[n] \in Nothing
    <3>1. dpc = "lateStore" /\ n \in 1..Len(list)
      BY <1>2, <1>12 DEF LateStore, DGoto, Listing, Working
    <3>2. Unused(list, n - 1)
      BY <1>1, <1>2, <1>12, <3>1 DEF Listing, Contents, InPlace, Last, Stored
    <3>3. QED
      BY <1>3, <3>1, <3>2 DEF Unused
  <2>3. \A i \in 1..n : [list EXCEPT ![n] = craft][i] = list[i] \/ list[i] \in Nothing
    BY <1>3, <2>2
  <2>4. QED
    BY <1>5, <2>1, <2>3
<1>13. CASE DecodeSteps
  BY <1>4, <1>7, <1>8, <1>9, <1>10, <1>11, <1>12, <1>13 DEF DecodeSteps, DecodeWake, DecodeWait,
     Message, ListSteps, Add, Leave, CheckActive, CheckActiveNoTile, Flag
<1>14. CASE \E s \in Readers : ReaderSteps(s)
  BY <1>4, <1>14 DEF ReaderSteps, ReaderWake, Scan, LockRead, Load, Use, UnlockRead, ReaderWait
<1>15. CASE UpkeepSteps
  BY <1>4, <1>6, <1>15 DEF UpkeepSteps, PriorityTasks, RemoveStale, ActiveUpdate, ActiveUpdated,
     ValiditiesUpdated, Removed, LockThread, UnlockThread, UpdateValidities, FreeAircraft, StoppedAt
<1>16. CASE \E a \in Aircraft : GrowOlder(a)
  BY <1>4, <1>16 DEF GrowOlder
<1>17. CASE \E a \in Aircraft, on \in BOOLEAN, g \in 0..2 :
               \E t \in flies[a] : ReplaceAircraft(a, t, on, g)
  BY <1>6, <1>17 DEF ReplaceAircraft, StoppedAt
<1>18. QED
  BY <1>13, <1>14, <1>15, <1>16, <1>17 DEF Next

\* the same with the places a reader has before it
From(c, i) == {c.list[j] : j \in i..c.len}

\* A reader of a list that keeps its entries keeps what it has before it.
LEMMA AheadKept ==
  ASSUME NEW c \in ListType, NEW d \in ListType, Keeps(c, d), NEW i \in Nat \ {0}
  PROVE  From(c, i) \subseteq From(d, i) \union Nothing
<1>1. ASSUME NEW j \in i..c.len PROVE c.list[j] \in From(d, i) \union Nothing
  <2>1. c.len \in Nat /\ d.len \in Nat /\ j \in 1..c.len
    BY DEF ListType
  <2>2. j \in i..d.len /\ (d.list[j] = c.list[j] \/ c.list[j] \in Nothing)
    BY <2>1 DEF Keeps
  <2>3. QED
    BY <2>2 DEF From
<1>2. QED
  BY <1>1 DEF From

\* A scan of the active list loses nothing: only entries behind those it has before it are added.
LEMMA ScanningStep ==
  ASSUME TypeOK, Stopped, Listing, Scanning, Next
  PROVE  Scanning'
<1>1. SUFFICES ASSUME NEW r \in Readers
               PROVE  /\ rpc'[r] \in {"wait", "begin"} => index'[r] = 1
                      /\ ScannedList(r) = Active =>
                            /\ rpc'[r] = "loop" => must'[r] \subseteq seen'[r] \union Ahead(r)'
                            /\ rpc'[r] = "use" =>
                                  must'[r] \subseteq seen'[r] \union {cur'[r]} \union Ahead(r)'
                            /\ rpc'[r] = "end" => must'[r] \subseteq seen'[r]
  BY DEF Scanning
<1> DEFINE c == ca[Active]
           d == ca'[Active]
<1>2. c \in ListType /\ d \in ListType /\ must[r] \subseteq Aircraft /\ index[r] \in Nat \ {0}
  BY ListingStep, TypeSplit DEF Kept, Lists, TypeOK
<1>3. ScannedList(r) = Active =>
         /\ Ahead(r) = From(c, IF rpc[r] = "use" THEN index[r] + 1 ELSE index[r])
         /\ Ahead(r)' = From(d, IF rpc'[r] = "use" THEN index'[r] + 1 ELSE index'[r])
  BY DEF Ahead, From
<1>4. c.len \in Nat
  BY <1>2 DEF ListType
<1> HIDE DEF c, d
<1>5. CASE ~ReaderSteps(r)
  <2>1. /\ rpc'[r] = rpc[r] /\ index'[r] = index[r] /\ cur'[r] = cur[r] /\ seen'[r] = seen[r]
        /\ must'[r] \subseteq must[r]
    BY <1>5, ReaderAlone, MustKept
  <2>2. CASE rpc[r] \in {"loop", "use"} /\ ScannedList(r) = Active
    <3>1. Ahead(r) \subseteq Ahead(r)' \union Nothing
      <4>1. Keeps(c, d)
        BY <2>2, ActiveKept DEF c, d
      <4>2. PICK i \in Nat \ {0} : Ahead(r) = From(c, i) /\ Ahead(r)' = From(d, i)
        BY <1>2, <1>3, <2>1, <2>2
      <4>3. QED
        BY <1>2, <4>1, <4>2, AheadKept
    <3>2. must[r] \intersect Nothing = {}
      BY <1>2, AircraftListsAssumption DEF Nothing
    <3>3. QED
      BY <2>1, <2>2, <3>1, <3>2 DEF Scanning
  <2>3. QED
    BY <2>1, <2>2 DEF Scanning
<1>6. CASE ReaderWake(r) \/ ReaderWait(r)
  BY <1>6 DEF ReaderWake, ReaderWait, RGoto, Scanning, TypeOK
<1>7. CASE LockRead(r)
  <2>1. rpc'[r] = "loop" /\ index'[r] = 1 /\ ca' = ca
    BY <1>7 DEF LockRead, RGoto, Scanning, TypeOK
  <2>2. CASE ScannedList(r) = Active
    <3>1. must'[r] \subseteq Listed(Active)
      BY <1>7, <2>2 DEF LockRead, TypeOK
    <3>2. Ahead(r)' = Listed(Active)
      BY <1>3, <2>1, <2>2 DEF Listed, From, d
    <3>3. QED
      BY <2>1, <3>1, <3>2
  <2>3. QED
    BY <2>1, <2>2
<1>8. CASE Load(r)
  <2>1. /\ rpc[r] = "loop" /\ ca' = ca /\ must' = must /\ seen' = seen /\ index' = index
        /\ rpc'[r] \in {"use", "end"}
    BY <1>8 DEF Load, RGoto, TypeOK, reader
  <2>2. CASE ScannedList(r) = Active
    <3>1. must[r] \subseteq seen[r] \union From(c, index[r])
      BY <1>3, <2>1, <2>2 DEF Scanning
    <3>2. CASE index[r] <= c.len
      <4>1. rpc'[r] = "use" /\ cur'[r] = c.list[index[r]]
        BY <1>8, <2>2, <3>2 DEF Load, RGoto, TypeOK, c
      <4>2. From(c, index[r]) \subseteq {c.list[index[r]]} \union From(c, index[r] + 1)
        BY <1>2, <1>4 DEF From
      <4>3. QED
        BY <1>3, <2>1, <2>2, <3>1, <4>1, <4>2 DEF c, d
    <3>3. CASE ~(index[r] <= c.len)
      <4>1. From(c, index[r]) = {}
        BY <1>2, <1>4, <3>3 DEF From
      <4>2. rpc'[r] = "end"
        BY <1>8, <2>2, <3>3 DEF Load, RGoto, TypeOK, c
      <4>3. QED
        BY <2>1, <3>1, <4>1, <4>2
    <3>4. QED
      BY <3>2, <3>3
  <2>3. QED
    BY <2>1, <2>2
<1>9. CASE Use(r)
  <2>1. /\ rpc[r] = "use" /\ ca' = ca /\ must' = must /\ rpc'[r] = "loop"
        /\ index'[r] = index[r] + 1 /\ seen'[r] = seen[r] \union ({cur[r]} \ {None})
    BY <1>9 DEF Use, RGoto, TypeOK
  <2>2. None \notin must[r]
    BY <1>2, AircraftListsAssumption
  <2>3. QED
    BY <1>3, <2>1, <2>2 DEF Scanning, c, d
<1>10. CASE UnlockRead(r)
  BY <1>10 DEF UnlockRead, RGoto, TypeOK
<1>11. QED
  BY <1>5, <1>6, <1>7, <1>8, <1>9, <1>10 DEF ReaderSteps, Scan

-----------------------------------------------------------------------------
(* The theorems.                                                           *)

\* At the start there is no aircraft and every list is empty.
LEMMA InitIInv == ASSUME Init PROVE IInv
<1> USE AircraftListsAssumption DEF Init, Lists, Threads
<1>1. craft \in Aircraft
  BY DEF Init
<1>2. TypeOK
  <2>1. <<>> \in Seq(Entries)
    OBVIOUS
  <2>2. QED
    BY <1>1, <2>1 DEF TypeOK, Entries
<1>3. Stopped
  BY DEF Stopped
<1>4. Counted
  <2>1. \A l \in Lists : ScannersOf(l) = {}
    BY DEF ScannersOf
  <2>2. \A l \in Lists : Cardinality(ScannersOf(l)) = 0
    BY <2>1, FS_EmptySet
  <2>3. QED
    BY <2>2 DEF Counted
<1>5. Working /\ Behind
  BY DEF Working, Behind, Removing, Adding
<1>6. Contents
  <2>1. ASSUME NEW l \in Lists PROVE InPlace(l)
    <3>1. ca[l].list = <<>> /\ Stored(l) = 0 /\ Last(l) = 0 /\ Expected(l) = {} /\ Len(<<>>) = 0
      BY <2>1 DEF Stored, Last, Expected, Flagged, Removing, Adding
    <3>2. QED
      BY <3>1 DEF InPlace, Holds, Unused
  <2>2. QED
    BY <2>1 DEF Contents
<1>7. Loaded /\ Scanning
  BY DEF Loaded, Scanning
<1>8. QED
  BY <1>2, <1>3, <1>4, <1>5, <1>6, <1>7 DEF IInv, Control, Listing

\* A step that changes nothing.
LEMMA Stuttering == ASSUME IInv, UNCHANGED vars PROVE IInv'
<1> USE DEF IInv, Control, Listing, vars, state, craftVars, locks, decode, reader, upkeep
<1>1. TypeOK' /\ Stopped'
  BY DEF TypeOK, Stopped
<1>2. Counted'
  BY DEF Counted, ScannersOf
<1>3. Working' /\ Behind'
  BY DEF Working, Behind
<1>4. Contents'
  <2>1. \A l \in Lists : Stays(l)
    BY DEF Stays, Stored, Expected, Last, Flagged
  <2>2. QED
    BY <2>1, Staying DEF Contents
<1>5. Loaded' /\ Scanning'
  BY DEF Loaded, Scanning, Ahead
<1>6. QED
  BY <1>1, <1>2, <1>3, <1>4, <1>5

\* IInv is an invariant.
THEOREM Invariance == Spec => []IInv
<1>1. IInv /\ [Next]_vars => IInv'
  <2> SUFFICES ASSUME IInv, [Next]_vars PROVE IInv'
    OBVIOUS
  <2>1. CASE Next
    <3>1. TypeOK' /\ Stopped' /\ Counted'
      BY <2>1, TypeStep, StoppedStep, CountedStep DEF IInv, Control
    <3>2. Listing'
      BY <2>1, ListingStep DEF IInv, Control, Kept
    <3>3. Loaded' /\ Scanning'
      BY <2>1, LoadedStep, ScanningStep DEF IInv, Control
    <3>4. QED
      BY <3>1, <3>2, <3>3 DEF IInv, Control
  <2>2. CASE UNCHANGED vars
    BY <2>2, Stuttering
  <2>3. QED
    BY <2>1, <2>2
<1>2. QED
  BY <1>1, InitIInv, PTL DEF Spec

\* The variables always have their types.
THEOREM TypeCorrect == Spec => []TypeOK
<1>1. IInv => TypeOK
  BY DEF IInv, Control
<1>2. QED
  BY <1>1, Invariance, PTL

\* When nobody scans, no reader is counted.
LEMMA NobodyCounted ==
  ASSUME IInv, upc = "stopped", NEW l \in Lists
  PROVE  reader_count[l] = 0
<1>1. ScannersOf(l) = {}
  BY StopTheWorld DEF IInv, Control, StoppedAt, ScannersOf
<1>2. QED
  BY <1>1, FS_EmptySet DEF IInv, Control, Counted

\* An entry nobody has written is read only between the two stores of ca_add.
LEMMA StoredFirst ==
  ASSUME IInv, Next, NEW r \in Readers, cur[r] # Garbage, cur'[r] = Garbage
  PROVE  dpc = "lateStore"
<1>1. ReaderSteps(r)
  BY ReaderAlone DEF IInv, Control
<1>2. CASE Load(r)
  <2>1. rpc'[r] = "use"
    BY <1>2 DEF Load, RGoto, IInv, Control, TypeOK
  <2>2. Garbage \notin table \union {None}
    BY AircraftListsAssumption DEF IInv, Control, TypeOK
  <2>3. QED
    BY <1>2, <2>1, <2>2, LoadFinds DEF IInv, Control
<1>3. CASE Use(r)
  BY <1>3, AircraftListsAssumption DEF Use, IInv, Control, TypeOK
<1>4. QED
  BY <1>1, <1>2, <1>3 DEF ReaderSteps, ReaderWake, Scan, LockRead, UnlockRead, ReaderWait

\* The length of the array of a list.
LEMMA RemovalLength ==
  ASSUME NEW c \in ListType, NEW a
  PROVE  Len(RemoveFrom(c, a).list) = Len(c.list)
BY DEF RemoveFrom, ListType

\* Only ca_add grows an array, and not while the list has readers.
LEMMA NoRealloc ==
  ASSUME IInv, Next, NEW l \in Lists, reader_count[l] > 0
  PROVE  Len(ca'[l].list) = Len(ca[l].list)
<1>1. TypeOK /\ Stopped /\ Listing /\ Active \in Lists
  BY DEF IInv, Control, Lists
<1>2. PICK list \in Seq(Entries), n \in Nat : ca[l] = [list |-> list, len |-> n]
  BY <1>1, TypeSplit DEF ListType
<1>3. CASE ca'[l] = ca[l]
  BY <1>3
<1>4. ASSUME NEW a, ca'[l] = RemoveFrom(ca[l], a) PROVE Len(ca'[l].list) = Len(ca[l].list)
  BY <1>1, <1>4, TypeSplit, RemovalLength
<1>5. ASSUME NEW p, NEW x, ca'[l].list = [list EXCEPT ![p] = x]
      PROVE  Len(ca'[l].list) = Len(ca[l].list)
  BY <1>2, <1>5
<1>6. CASE l # cl /\ ListSteps
  BY <1>3, <1>6 DEF ListSteps, Move, Clear, Shrink, Add, Grow, Store, Length, LengthEarly,
     LateStore, Leave, CheckActive, CheckActiveNoTile, Flag, TypeOK, IInv, Control
<1>7. CASE l = cl /\ ListSteps
  <2>1. CASE Move
    BY <1>1, <1>2, <1>5, <1>7, <2>1 DEF Move, TypeOK
  <2>2. CASE Clear
    BY <1>1, <1>2, <1>5, <1>7, <2>2 DEF Clear, TypeOK
  <2>3. CASE Store
    BY <1>1, <1>2, <1>3, <1>5, <1>7, <2>3 DEF Store, TypeOK
  <2>4. CASE LateStore
    BY <1>1, <1>2, <1>5, <1>7, <2>4 DEF LateStore, TypeOK
  <2>5. CASE Grow
    BY <1>7, <2>5 DEF Grow
  <2>6. CASE Shrink \/ Length \/ LengthEarly
    BY <1>1, <1>2, <1>7, <2>6 DEF Shrink, Length, LengthEarly, TypeOK
  <2>7. QED
    BY <1>3, <1>7, <2>1, <2>2, <2>3, <2>4, <2>5, <2>6 DEF ListSteps, Add, Leave, CheckActive,
       CheckActiveNoTile, Flag
<1>8. ASSUME NEW a \in Aircraft
      PROVE  /\ OffTile(a, ca)[l] \in {ca[l], RemoveFrom(ca[l], a)}
             /\ OffActive(a, OffTile(a, ca))[l] \in {ca[l], RemoveFrom(ca[l], a)}
             /\ [OffTile(a, ca) EXCEPT ![Active] = RemoveFrom(@, a)][l] \in
                    {ca[l], RemoveFrom(ca[l], a)}
  <2>1. /\ globe_index \in [Aircraft -> Tiles \union {NoTile}] /\ DOMAIN ca = Lists
        /\ ca = [k \in Lists |-> ca[k]] /\ globe_index[a] # Active
    BY <1>1, AircraftListsAssumption DEF TypeOK
  <2> DEFINE off == OffTile(a, ca)
  <2>2. /\ DOMAIN off = Lists /\ off = [k \in Lists |-> off[k]]
        /\ \A k \in Lists : off[k] = IF k = globe_index[a] THEN RemoveFrom(ca[k], a) ELSE ca[k]
    BY <2>1, Off
  <2> HIDE DEF off
  <2>3. \A k \in Lists : OffActive(a, off)[k] = IF k = Active /\ onActiveList[a]
                                                THEN RemoveFrom(off[k], a) ELSE off[k]
    BY <1>1, <2>2 DEF OffActive
  <2>4. [off EXCEPT ![Active] = RemoveFrom(@, a)][l] = IF l = Active THEN RemoveFrom(off[l], a)
                                                       ELSE off[l]
    BY <2>2
  <2>5. QED
    BY <2>1, <2>2, <2>3, <2>4 DEF off
<1>9. ASSUME NEW a \in Aircraft, UpdateValidities(a) PROVE Len(ca'[l].list) = Len(ca[l].list)
  BY <1>3, <1>4, <1>8, <1>9 DEF UpdateValidities
<1>10. ASSUME NEW a \in Aircraft, FreeAircraft(a) PROVE Len(ca'[l].list) = Len(ca[l].list)
  BY <1>3, <1>4, <1>8, <1>10 DEF FreeAircraft
<1>11. CASE ActiveUpdate
  <2>1. PICK i \in 1..ca[Active].len,
             a \in {ca[Active].list[k] : k \in 1..ca[Active].len} :
           /\ a = ca[Active].list[i] /\ upc = "active"
           /\ ca' = [OffTile(a, ca) EXCEPT ![Active] = RemoveFrom(@, a)]
    BY <1>11 DEF ActiveUpdate
  <2>2. a \in Aircraft
    <3>1. Listed(Active) = Flagged(Active)
      BY <1>1, <2>1, StopTheWorld, Settled DEF StoppedAt
    <3>2. QED
      BY <1>1, <2>1, <3>1, FlaggedType DEF Listed, TypeOK
  <2>3. QED
    BY <1>3, <1>4, <1>8, <2>1, <2>2
<1>12. CASE UpkeepSteps
  BY <1>3, <1>9, <1>10, <1>11, <1>12 DEF UpkeepSteps, PriorityTasks, RemoveStale, ActiveUpdated,
     ValiditiesUpdated, Removed, LockThread, UnlockThread
<1>13. CASE \E s \in Readers : ReaderSteps(s)
  BY <1>3, <1>13 DEF ReaderSteps, ReaderWake, Scan, LockRead, Load, Use, UnlockRead, ReaderWait
<1>14. CASE \E a \in Aircraft, on \in BOOLEAN, g \in 0..2 :
               \E t \in flies[a] : ReplaceAircraft(a, t, on, g)
  BY <1>14, NobodyCounted DEF ReplaceAircraft
<1>15. CASE \E a \in Aircraft : GrowOlder(a)
  BY <1>3, <1>15 DEF GrowOlder
<1>16. CASE DecodeSteps
  BY <1>3, <1>6, <1>7, <1>16 DEF DecodeSteps, DecodeWake, DecodeWait, Message
<1>17. QED
  BY <1>12, <1>13, <1>14, <1>15, <1>16 DEF Next

\* What a reader scans stays valid memory while it scans: no aircraft it has loaded is freed, an
\* entry that nobody has written is read only if ca_add's stores are reordered, and the array is
\* not reallocated.
THEOREM ReadersSafety == Spec => ReadersSafe
<1>1. IInv => ReadersHoldAircraft
  BY DEF IInv, Loaded, ReadersHoldAircraft, Nothing
<1>2. IInv /\ [Next]_vars =>
         [\A r \in Readers : cur[r] # Garbage /\ cur'[r] = Garbage => dpc = "lateStore"]_vars
  BY StoredFirst
<1>3. IInv /\ [Next]_vars =>
         [\A l \in Lists : reader_count[l] > 0 => Len(ca'[l].list) = Len(ca[l].list)]_vars
  BY NoRealloc
<1>4. QED
  BY <1>1, <1>2, <1>3, Invariance, PTL DEF Spec, ReadersSafe, StoredBeforeRead, NoReallocUnderReader

\* The first n entries of a list that holds a set are as many as the set.
LEMMA HoldsCount ==
  ASSUME NEW list, NEW n \in Nat, NEW S, Holds(list, n, S)
  PROVE  Cardinality(S) = n
<1> DEFINE f == [i \in 1..n |-> list[i]]
<1>1. f \in [1..n -> S]
  BY DEF Holds
<1>2. f \in Surjection(1..n, S)
  BY <1>1 DEF Holds, Surjection
<1>3. f \in Injection(1..n, S)
  BY <1>1 DEF Holds, Injection, IsInjective
<1>4. IsFiniteSet(1..n) /\ Cardinality(1..n) = n
  BY FS_Interval
<1>5. QED
  BY <1>2, <1>3, <1>4, FS_Surjection

\* Between messages the lists and the aircraft agree, each aircraft is on a list once.
THEOREM ListsAgree == Spec => []ListsMatchFlags
<1>1. ASSUME IInv PROVE ListsMatchFlags
  <2>1. SUFFICES ASSUME dpc \in {"wait", "top"}, NEW l \in Lists
                 PROVE  Listed(l) = Flagged(l) /\ Cardinality(Listed(l)) = ca[l].len
    BY DEF ListsMatchFlags
  <2>2. Listed(l) = Flagged(l) /\ Holds(ca[l].list, ca[l].len, Flagged(l))
    BY <1>1, <2>1, Settled DEF IInv, Control
  <2>3. ca[l].len \in Nat
    BY <1>1, TypeSplit DEF IInv, Control, ListType
  <2>4. QED
    BY <2>2, <2>3, HoldsCount
<1>2. QED
  BY <1>1, Invariance, PTL

\* The lists are what the aircraft say, and a scan of the active list finds every aircraft that
\* is on it from its beginning to its end.  (A scan of a tile's list need not: see the README.)
THEOREM ListsCompleteness ==
  ASSUME \A r \in Readers : ScannedList(r) = Active
  PROVE  Spec => []ListsComplete
<1>1. IInv => ScanComplete
  BY DEF IInv, Scanning, ScanComplete
<1>2. QED
  BY <1>1, Invariance, ListsAgree, PTL DEF ListsComplete
=============================================================================
