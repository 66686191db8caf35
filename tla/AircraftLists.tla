---------------------------- MODULE AircraftLists ----------------------------
(***************************************************************************)
(* The lists of aircraft: aircraftActive and one list per globe tile, each *)
(* a struct craftArray.  The decode thread adds aircraft and moves them    *)
(* from tile to tile, the JSON threads scan the lists, and the upkeep      *)
(* thread removes aircraft after it stopped the others by locking their    *)
(* threads' mutexes (priorityTasksRun).                                    *)
(*                                                                         *)
(* ca_lock_read counts readers and keeps write_mutex locked while there    *)
(* are any; write_mutex protects against realloc only.  Additions and      *)
(* removals hold change_mutex, which readers do not look at, so each       *)
(* store to the array or its length is a step.  While the other threads    *)
(* are stopped, a whole ca_add or ca_remove is one step.                   *)
(*                                                                         *)
(* Time is the age of an aircraft's last message: 0 shown in aircraft.json *)
(* (includeAircraftJson), 1 not shown, 2 leaves the active list, 3 is      *)
(* removed from memory.                                                    *)
(***************************************************************************)
EXTENDS Integers, Sequences, FiniteSets

CONSTANTS
    Aircraft,
    Tiles,          \* indexes of globeLists
    NoTile,         \* -5
    Active,         \* the list aircraftActive
    Readers,        \* threads that scan a list
    ScannedList(_), \* the list a reader scans
    Decode, Upkeep, Nobody,
    None, Garbage,  \* a NULL entry; memory nobody has written since realloc
    Flights,        \* bounds: for each aircraft the tiles (or none) it may be found on, if any
    AllocStep,      \* 16 in the code
    StoresReordered \* may the two stores of ca_add become visible in reverse order?

Lists == Tiles \union {Active}
Threads == Readers \union {Decode}

ASSUME AircraftListsAssumption ==
    /\ NoTile \notin Tiles /\ Active \notin Tiles \union {NoTile}
    /\ \A r \in Readers : ScannedList(r) \in Lists
    /\ IsFiniteSet(Readers)
    /\ Flights \subseteq [Aircraft -> SUBSET (Tiles \union {NoTile})]
    /\ \A f \in Flights : \E a \in Aircraft : f[a] # {}
    /\ Decode \notin Readers /\ {Upkeep, Nobody} \intersect Threads = {} /\ Upkeep # Nobody
    /\ {None, Garbage} \intersect Aircraft = {} /\ None # Garbage
    /\ AllocStep \in Nat \ {0} /\ StoresReordered \in BOOLEAN

VARIABLES
    flies,          \* one of Flights, never changes
    table,          \* aircraft in the hash table
    age, onActiveList, globe_index,     \* of each aircraft
    ca,             \* the lists: array and length
    change_mutex,   \* of each list: its owner
    reader_count,   \* of each list
    mutex,          \* of each thread: its owner
    dpc, craft, cl, tile,   \* decode thread: control point, aircraft, list, new tile
    rpc, index, cur,        \* readers: control point, i and a of the loop
    seen, must,     \* history: aircraft scanned; aircraft that have been listed all the time
    upc, locked, todo       \* upkeep: control point, threads locked, aircraft left

craftVars == <<table, age, onActiveList, globe_index>>
locks     == <<change_mutex, reader_count, mutex>>
decode    == <<dpc, craft, cl, tile>>
reader    == <<rpc, index, cur, seen, must>>
upkeep    == <<upc, locked, todo>>
state     == <<craftVars, ca, locks, decode, reader, upkeep>>
vars      == <<flies, state>>

Init ==
    /\ flies \in Flights
    /\ table = {}
    /\ age = [a \in Aircraft |-> 0]
    /\ onActiveList = [a \in Aircraft |-> FALSE]
    /\ globe_index = [a \in Aircraft |-> NoTile]
    /\ ca = [l \in Lists |-> [list |-> <<>>, len |-> 0]]
    /\ change_mutex = [l \in Lists |-> Nobody]
    /\ reader_count = [l \in Lists |-> 0]
    /\ mutex = [t \in Threads |-> Nobody]
    /\ dpc = "wait" /\ craft = (CHOOSE a \in Aircraft : flies[a] # {}) /\ cl = Active /\ tile = NoTile
    /\ rpc = [r \in Readers |-> "wait"]
    /\ index = [r \in Readers |-> 1]
    /\ cur = [r \in Readers |-> None]
    /\ seen = [r \in Readers |-> {}] /\ must = [r \in Readers |-> {}]
    /\ upc = "idle" /\ locked = {} /\ todo = {}

Listed(l) == {ca[l].list[i] : i \in 1..ca[l].len}

\* the aircraft of a list according to the aircraft themselves
Flagged(l) == {a \in table : IF l = Active THEN onActiveList[a] ELSE globe_index[a] = l}

PositionOf(c, a) == CHOOSE i \in 1..c.len : c.list[i] = a

\* realloc to alloc * 2 + 16
Grown(list) == list \o [i \in 1..(Len(list) + AllocStep) |-> Garbage]

\* ca_add and ca_remove as a whole
AddTo(c, a) ==
    LET list == IF c.len = Len(c.list) THEN Grown(c.list) ELSE c.list
    IN  IF \E i \in 1..c.len : c.list[i] = a THEN c
        ELSE [list |-> [list EXCEPT ![c.len + 1] = a], len |-> c.len + 1]

RemoveFrom(c, a) ==
    IF \E i \in 1..c.len : c.list[i] = a
    THEN [list |-> [c.list EXCEPT ![PositionOf(c, a)] = c.list[c.len], ![c.len] = None],
          len |-> c.len - 1]
    ELSE c

\* history: a left some lists, so their readers need not find it
Left(a, lists) ==
    must' = [r \in Readers |-> IF ScannedList(r) \in lists THEN must[r] \ {a} ELSE must[r]]

\* time passes
GrowOlder(a) ==
    /\ a \in table /\ age[a] < 3
    /\ age' = [age EXCEPT ![a] = @ + 1]
    /\ UNCHANGED <<table, onActiveList, globe_index, ca, locks, decode, reader, upkeep>>

-----------------------------------------------------------------------------
(* The decode thread.  Its mutex is free while it waits for data. *)

DGoto(from, to) == dpc = from /\ dpc' = to

DecodeWake ==
    /\ DGoto("wait", "top")
    /\ mutex[Decode] = Nobody
    /\ mutex' = [mutex EXCEPT ![Decode] = Decode]
    /\ UNCHANGED <<craftVars, ca, change_mutex, reader_count, craft, cl, tile, reader, upkeep>>

DecodeWait ==
    /\ DGoto("top", "wait")
    /\ mutex' = [mutex EXCEPT ![Decode] = Nobody]
    /\ UNCHANGED <<craftVars, ca, change_mutex, reader_count, craft, cl, tile, reader, upkeep>>

\* trackUpdateFromMessage: look the aircraft up or create it; a reliable position sets the
\* globe index, a first message alone does not make it shown
Message(a, t, g) ==
    /\ dpc = "top"
    /\ craft' = a
    /\ table' = table \union {a}
    /\ age' = [age EXCEPT ![a] = g]
    /\ IF t \in {NoTile, globe_index[a]}
       THEN dpc' = "active" /\ UNCHANGED <<globe_index, cl, tile, must>>
       ELSE /\ globe_index' = [globe_index EXCEPT ![a] = t]
            /\ tile' = t
            /\ cl' = IF globe_index[a] \in Tiles THEN globe_index[a] ELSE t
            /\ dpc' = IF globe_index[a] \in Tiles THEN "move" ELSE "add"
    /\ Left(a, {globe_index[a]} \ {globe_index'[a]})
    /\ UNCHANGED <<onActiveList, ca, locks, rpc, index, cur, seen, upkeep>>

\* ca_remove: "replace with last element in array"
Move ==
    /\ DGoto("move", "clear")
    /\ change_mutex[cl] = Nobody
    /\ change_mutex' = [change_mutex EXCEPT ![cl] = Decode]
    /\ ca' = [ca EXCEPT ![cl].list[PositionOf(ca[cl], craft)] = ca[cl].list[ca[cl].len]]
    /\ UNCHANGED <<craftVars, reader_count, mutex, craft, cl, tile, reader, upkeep>>

Clear ==
    /\ DGoto("clear", "shrink")
    /\ ca' = [ca EXCEPT ![cl].list[ca[cl].len] = None]
    /\ UNCHANGED <<craftVars, locks, craft, cl, tile, reader, upkeep>>

Shrink ==
    /\ DGoto("shrink", "add")
    /\ ca' = [ca EXCEPT ![cl].len = @ - 1]
    /\ change_mutex' = [change_mutex EXCEPT ![cl] = Nobody]
    /\ cl' = IF tile = NoTile THEN Active ELSE tile
    /\ UNCHANGED <<craftVars, reader_count, mutex, craft, tile, reader, upkeep>>

\* ca_add
Add ==
    /\ DGoto("add", IF ca[cl].len = Len(ca[cl].list) THEN "grow" ELSE "store")
    /\ change_mutex[cl] = Nobody
    /\ change_mutex' = [change_mutex EXCEPT ![cl] = Decode]
    /\ UNCHANGED <<craftVars, ca, reader_count, mutex, craft, cl, tile, reader, upkeep>>

\* under write_mutex, which is locked while there are readers
Grow ==
    /\ DGoto("grow", "store")
    /\ reader_count[cl] = 0
    /\ ca' = [ca EXCEPT ![cl].list = Grown(@)]
    /\ UNCHANGED <<craftVars, locks, craft, cl, tile, reader, upkeep>>

Store ==
    /\ IF craft \in Listed(cl)      \* "double add!"
       THEN DGoto("store", "leave") /\ UNCHANGED ca
       ELSE DGoto("store", "length") /\ ca' = [ca EXCEPT ![cl].list[ca[cl].len + 1] = craft]
    /\ UNCHANGED <<craftVars, locks, craft, cl, tile, reader, upkeep>>

Length ==
    /\ DGoto("length", "leave")
    /\ ca' = [ca EXCEPT ![cl].len = @ + 1]
    /\ UNCHANGED <<craftVars, locks, craft, cl, tile, reader, upkeep>>

\* the compiler and weakly ordered memory may swap the two: they are plain accesses
LengthEarly ==
    /\ StoresReordered
    /\ craft \notin Listed(cl)
    /\ DGoto("store", "lateStore")
    /\ ca' = [ca EXCEPT ![cl].len = @ + 1]
    /\ UNCHANGED <<craftVars, locks, craft, cl, tile, reader, upkeep>>

LateStore ==
    /\ DGoto("lateStore", "leave")
    /\ ca' = [ca EXCEPT ![cl].list[ca[cl].len] = craft]
    /\ UNCHANGED <<craftVars, locks, craft, cl, tile, reader, upkeep>>

Leave ==
    /\ DGoto("leave", IF cl = Active THEN "flag" ELSE "active")
    /\ change_mutex' = [change_mutex EXCEPT ![cl] = Nobody]
    /\ UNCHANGED <<craftVars, ca, reader_count, mutex, craft, cl, tile, reader, upkeep>>

\* the end of trackUpdateFromMessage
CheckActive ==
    /\ IF ~onActiveList[craft] /\ age[craft] = 0
       THEN DGoto("active", "add") /\ cl' = Active
       ELSE DGoto("active", "top") /\ UNCHANGED cl
    /\ UNCHANGED <<craftVars, ca, locks, craft, tile, reader, upkeep>>

\* the same, when updateValidities finds the position of the aircraft too old for its tile
CheckActiveNoTile ==
    /\ DGoto("active", "move")
    /\ ~onActiveList[craft] /\ age[craft] = 0 /\ globe_index[craft] \in Tiles
    /\ cl' = globe_index[craft] /\ tile' = NoTile
    /\ globe_index' = [globe_index EXCEPT ![craft] = NoTile]
    /\ Left(craft, {cl'})
    /\ UNCHANGED <<table, age, onActiveList, ca, locks, craft, rpc, index, cur, seen, upkeep>>

Flag ==
    /\ DGoto("flag", "top")
    /\ onActiveList' = [onActiveList EXCEPT ![craft] = TRUE]
    /\ UNCHANGED <<table, age, globe_index, ca, locks, craft, cl, tile, reader, upkeep>>

ListSteps ==
    \/ Move \/ Clear \/ Shrink \/ Add \/ Grow \/ Store \/ Length \/ LengthEarly \/ LateStore
    \/ Leave \/ CheckActive \/ CheckActiveNoTile \/ Flag

DecodeSteps ==
    \/ DecodeWake \/ DecodeWait \/ ListSteps
    \/ \E a \in Aircraft, g \in {0, 1} : \E t \in flies[a] : Message(a, t, g)

-----------------------------------------------------------------------------
(* Readers: generateAircraftBin, generateGlobeBin, generateGlobeJson, apiUpdate *)

RGoto(r, from, to) == rpc[r] = from /\ rpc' = [rpc EXCEPT ![r] = to]

ReaderWake(r) ==
    /\ RGoto(r, "wait", "begin")
    /\ mutex[r] = Nobody
    /\ mutex' = [mutex EXCEPT ![r] = r]
    /\ UNCHANGED <<craftVars, ca, change_mutex, reader_count, decode, index, cur, seen, must, upkeep>>

\* ca_lock_read
LockRead(r) ==
    /\ RGoto(r, "begin", "loop")
    /\ reader_count' = [reader_count EXCEPT ![ScannedList(r)] = @ + 1]
    /\ must' = [must EXCEPT ![r] = Listed(ScannedList(r)) \intersect Flagged(ScannedList(r))]
    /\ UNCHANGED <<craftVars, ca, change_mutex, mutex, decode, index, cur, seen, upkeep>>

Load(r) ==
    LET c == ca[ScannedList(r)]
    IN  /\ IF index[r] <= c.len
           THEN RGoto(r, "loop", "use") /\ cur' = [cur EXCEPT ![r] = c.list[index[r]]]
           ELSE RGoto(r, "loop", "end") /\ UNCHANGED cur
        /\ UNCHANGED <<craftVars, ca, locks, decode, index, seen, must, upkeep>>

\* "if (a == NULL) continue;"
Use(r) ==
    /\ RGoto(r, "use", "loop")
    /\ seen' = [seen EXCEPT ![r] = @ \union ({cur[r]} \ {None})]
    /\ cur' = [cur EXCEPT ![r] = None]
    /\ index' = [index EXCEPT ![r] = @ + 1]
    /\ UNCHANGED <<craftVars, ca, locks, decode, must, upkeep>>

\* ca_unlock_read
UnlockRead(r) ==
    /\ RGoto(r, "end", "begin")
    /\ reader_count' = [reader_count EXCEPT ![ScannedList(r)] = @ - 1]
    /\ index' = [index EXCEPT ![r] = 1]
    /\ seen' = [seen EXCEPT ![r] = {}] /\ must' = [must EXCEPT ![r] = {}]
    /\ UNCHANGED <<craftVars, ca, change_mutex, mutex, decode, cur, upkeep>>

\* Fault: the thread sleeps without giving up its mutex.
ReaderWaitLocked(r) ==
    /\ RGoto(r, "begin", "wait")
    /\ UNCHANGED <<craftVars, ca, locks, decode, index, cur, seen, must, upkeep>>

ReaderWait(r) ==
    /\ RGoto(r, "begin", "wait")
    /\ mutex' = [mutex EXCEPT ![r] = Nobody]
    /\ UNCHANGED <<craftVars, ca, change_mutex, reader_count, decode, index, cur, seen, must, upkeep>>

Scan(r) == LockRead(r) \/ Load(r) \/ Use(r) \/ UnlockRead(r)

ReaderSteps(r) == ReaderWake(r) \/ Scan(r) \/ ReaderWait(r)

-----------------------------------------------------------------------------
(* The upkeep thread: priorityTasksRun *)

UGoto(from, to) == upc = from /\ upc' = to

PriorityTasks ==
    /\ UGoto("idle", "lock")
    /\ UNCHANGED <<craftVars, ca, locks, decode, reader, locked, todo>>

\* Fault: the mutexes of the readers are tried and the result is ignored.
LockThreadTry(t) ==
    /\ upc = "lock" /\ t \notin locked
    /\ t = Decode => locked = Readers /\ mutex[t] = Nobody
    /\ mutex' = [mutex EXCEPT ![t] = Upkeep]
    /\ locked' = locked \union {t}
    /\ upc' = IF locked' = Threads THEN "stopped" ELSE "lock"
    /\ UNCHANGED <<craftVars, ca, change_mutex, reader_count, decode, reader, todo>>

\* lockThreads: the decode thread is the last
LockThread(t) ==
    /\ upc = "lock" /\ t \notin locked
    /\ t = Decode => locked = Readers
    /\ mutex[t] = Nobody
    /\ mutex' = [mutex EXCEPT ![t] = Upkeep]
    /\ locked' = locked \union {t}
    /\ upc' = IF locked' = Threads THEN "stopped" ELSE "lock"
    /\ UNCHANGED <<craftVars, ca, change_mutex, reader_count, decode, reader, todo>>

\* what removing a from its tile, and from the active list, leaves of the lists
OffTile(a, lists) ==
    IF globe_index[a] \in Tiles
    THEN [lists EXCEPT ![globe_index[a]] = RemoveFrom(@, a)] ELSE lists

OffActive(a, lists) ==
    IF onActiveList[a] THEN [lists EXCEPT ![Active] = RemoveFrom(@, a)] ELSE lists

\* load_aircraft, called by loadReplaceState: an aircraft read from a state file replaces the
\* one in memory
ReplaceAircraft(a, t, on, g) ==
    /\ upc = "stopped"
    /\ LET off == OffTile(a, OffActive(a, ca))
           tiled == IF t \in Tiles THEN [off EXCEPT ![t] = AddTo(@, a)] ELSE off
       IN  ca' = IF on THEN [tiled EXCEPT ![Active] = AddTo(@, a)] ELSE tiled
    /\ table' = table \union {a}
    /\ age' = [age EXCEPT ![a] = g]
    /\ onActiveList' = [onActiveList EXCEPT ![a] = on]
    /\ globe_index' = [globe_index EXCEPT ![a] = t]
    /\ Left(a, Lists)
    /\ UNCHANGED <<locks, decode, rpc, index, cur, seen, upkeep>>

\* trackRemoveStale, unless a database update is finished instead
RemoveStale ==
    /\ upc = "stopped" /\ upc' \in {"active", "unlock"}
    /\ UNCHANGED <<craftVars, ca, locks, decode, reader, locked, todo>>

\* activeUpdate: the first aircraft of the array that is too old leaves the list
ActiveUpdate ==
    LET c == ca[Active]
        old == {i \in 1..c.len : age[c.list[i]] >= 2}
    IN  /\ upc = "active" /\ old # {}
        /\ change_mutex[Active] = Nobody
        /\ \E i \in old :
               LET a == c.list[i]
               IN  /\ \A j \in old : i <= j
                   /\ onActiveList' = [onActiveList EXCEPT ![a] = FALSE]
                   /\ globe_index' = [globe_index EXCEPT ![a] = NoTile]
                   /\ ca' = [OffTile(a, ca) EXCEPT ![Active] = RemoveFrom(@, a)]
                   /\ Left(a, {Active, globe_index[a]})
        /\ UNCHANGED <<table, age, locks, decode, rpc, index, cur, seen, upkeep>>

\* the tasks that run activeUpdateRange get the whole list, under ca_lock_read
ActiveUpdated ==
    /\ UGoto("active", "validities")
    /\ \A a \in Listed(Active) : age[a] < 2
    /\ todo' = Listed(Active)
    /\ reader_count' = [reader_count EXCEPT ![Active] = @ + 1]
    /\ UNCHANGED <<craftVars, ca, change_mutex, mutex, decode, reader, locked>>

\* an aircraft that is not heard any more may lose its tile
UpdateValidities(a) ==
    /\ upc = "validities" /\ a \in todo
    /\ todo' = todo \ {a}
    /\ \/ /\ age[a] > 0
          /\ ca' = OffTile(a, ca)
          /\ globe_index' = [globe_index EXCEPT ![a] = NoTile]
          /\ Left(a, {globe_index[a]})
       \/ UNCHANGED <<ca, globe_index, must>>
    /\ UNCHANGED <<table, age, onActiveList, locks, decode, rpc, index, cur, seen, upc, locked>>

ValiditiesUpdated ==
    /\ UGoto("validities", "remove")
    /\ todo = {}
    /\ reader_count' = [reader_count EXCEPT ![Active] = @ - 1]
    /\ UNCHANGED <<craftVars, ca, change_mutex, mutex, decode, reader, locked, todo>>

\* Fault: an aircraft that is still on the active list is freed.
FreeAircraftActive(a) ==
    /\ upc = "remove"
    /\ a \in table /\ age[a] = 3
    /\ table' = table \ {a}
    /\ ca' = OffTile(a, ca)
    /\ globe_index' = [globe_index EXCEPT ![a] = NoTile]
    /\ onActiveList' = [onActiveList EXCEPT ![a] = FALSE]
    /\ age' = [age EXCEPT ![a] = 0]
    /\ Left(a, Lists)
    /\ UNCHANGED <<locks, decode, rpc, index, cur, seen, upkeep>>

\* removeStaleRange and freeAircraft; aircraft outside this run's part of the table stay
FreeAircraft(a) ==
    /\ upc = "remove"
    /\ a \in table /\ age[a] = 3
    /\ table' = table \ {a}
    /\ ca' = OffActive(a, OffTile(a, ca))
    /\ globe_index' = [globe_index EXCEPT ![a] = NoTile]
    /\ onActiveList' = [onActiveList EXCEPT ![a] = FALSE]
    /\ age' = [age EXCEPT ![a] = 0]
    /\ Left(a, Lists)
    /\ UNCHANGED <<locks, decode, rpc, index, cur, seen, upkeep>>

Removed ==
    /\ UGoto("remove", "unlock")
    /\ UNCHANGED <<craftVars, ca, locks, decode, reader, locked, todo>>

\* unlockThreads
UnlockThread(t) ==
    /\ upc = "unlock" /\ t \in locked
    /\ Decode \in locked => t = Decode
    /\ mutex' = [mutex EXCEPT ![t] = Nobody]
    /\ locked' = locked \ {t}
    /\ upc' = IF locked' = {} THEN "idle" ELSE "unlock"
    /\ UNCHANGED <<craftVars, ca, change_mutex, reader_count, decode, reader, todo>>

UpkeepSteps ==
    \/ PriorityTasks \/ RemoveStale \/ ActiveUpdate \/ ActiveUpdated \/ ValiditiesUpdated
    \/ Removed
    \/ \E t \in Threads : LockThread(t) \/ UnlockThread(t)
    \/ \E a \in Aircraft : UpdateValidities(a) \/ FreeAircraft(a)

-----------------------------------------------------------------------------
Next ==
    /\ \/ DecodeSteps
       \/ \E r \in Readers : ReaderSteps(r)
       \/ UpkeepSteps
       \/ \E a \in Aircraft : GrowOlder(a)
       \/ \E a \in Aircraft, on \in BOOLEAN, g \in 0..2 :
             \E t \in flies[a] : ReplaceAircraft(a, t, on, g)
    /\ UNCHANGED flies

Spec == Init /\ [][Next]_vars

(***************************************************************************)
(* Threads keep running and every thread comes back to its timed wait.     *)
(* Messages, spontaneous ageing and state files are not fair.  SF where    *)
(* other threads may disable the step again and again: a mutex, or the     *)
(* write lock behind overlapping readers.                                  *)
(***************************************************************************)
Fairness ==
    /\ WF_state(ListSteps) /\ SF_state(Grow)
    /\ SF_state(DecodeWait) /\ SF_state(DecodeWake)
    /\ \A r \in Readers : /\ WF_state(Scan(r))
                          /\ SF_state(ReaderWait(r))
    /\ WF_state(UpkeepSteps)
    /\ \A t \in Threads : SF_state(LockThread(t))

FairSpec == Spec /\ Fairness

-----------------------------------------------------------------------------
(* Properties *)

Entries == Aircraft \union {None, Garbage}

\* The type of every variable.
TypeOK ==
    /\ flies \in Flights
    /\ table \subseteq Aircraft
    /\ age \in [Aircraft -> 0..3]
    /\ onActiveList \in [Aircraft -> BOOLEAN]
    /\ globe_index \in [Aircraft -> Tiles \union {NoTile}]
    /\ ca \in [Lists -> [list : Seq(Entries), len : Nat]]
    /\ change_mutex \in [Lists -> {Decode, Nobody}]
    /\ reader_count \in [Lists -> Nat]
    /\ mutex \in [Threads -> Threads \union {Upkeep, Nobody}]
    /\ dpc \in {"wait", "top", "move", "clear", "shrink", "add", "grow", "store", "length",
                "lateStore", "leave", "active", "flag"}
    /\ craft \in Aircraft
    /\ cl \in Lists
    /\ tile \in Tiles \union {NoTile}
    /\ rpc \in [Readers -> {"wait", "begin", "loop", "use", "end"}]
    /\ index \in [Readers -> Nat \ {0}]
    /\ cur \in [Readers -> Entries]
    /\ seen \in [Readers -> SUBSET Entries]
    /\ must \in [Readers -> SUBSET Aircraft]
    /\ upc \in {"idle", "lock", "stopped", "active", "validities", "remove", "unlock"}
    /\ locked \subseteq Threads
    /\ todo \subseteq Aircraft

\* Between messages every list holds exactly the aircraft that say they are on it, each of
\* them once and none that was freed: neither "double add!" nor "pointer not in array!".
ListsMatchFlags ==
    dpc \in {"wait", "top"} =>
        \A l \in Lists :
            /\ Listed(l) = Flagged(l)
            /\ Cardinality(Listed(l)) = ca[l].len

\* "stop all threads so we can remove aircraft from the list": a reader never holds the
\* pointer of an aircraft that was freed.
ReadersHoldAircraft ==
    \A r \in Readers : rpc[r] = "use" => cur[r] \in table \union {None, Garbage}

\* An entry that was never stored is read only while the length is visible before it.
StoredBeforeRead ==
    [][\A r \in Readers : cur[r] # Garbage /\ cur'[r] = Garbage => dpc = "lateStore"]_vars

\* "the worst case is that the newly added aircraft is skipped": a scan finds every aircraft
\* that is on the list from its beginning to its end.
ScanComplete == \A r \in Readers : rpc[r] = "end" => must[r] \subseteq seen[r]

\* The lists are what the aircraft say, and what readers are shown.
ListsComplete == ListsMatchFlags /\ ScanComplete

\* An array that somebody scans is not reallocated.
NoReallocUnderReader ==
    [][\A l \in Lists : reader_count[l] > 0 => Len(ca'[l].list) = Len(ca[l].list)]_vars

\* What a reader scans stays valid memory while it scans: the array and the aircraft.
ReadersSafe == []ReadersHoldAircraft /\ StoredBeforeRead /\ NoReallocUnderReader

\* priorityTasksRun returns: the threads it stops cannot keep it waiting, nor can the decode
\* thread in ca_add and readers that overlap for ever keep each other waiting.
StopTheWorldReturns == upc = "lock" ~> upc = "idle"

=============================================================================
