--------------------------- MODULE ApiBuffersProofs ---------------------------
(***************************************************************************)
(* Two buffers and a pause are enough, for every number of API threads,    *)
(* every interval and every pause of the update: a request that has run    *)
(* for less than the pause reads a buffer nobody writes.                   *)
(*                                                                         *)
(* This is not inductive.  The proofs add: which buffers the threads point *)
(* to at every point of an update (Pointed), and that a request that still *)
(* reads the buffer the next update will write has used up, together with  *)
(* what is left of the pause, at least the pause (Aged).                   *)
(***************************************************************************)
EXTENDS ApiBuffers, FiniteSetTheorems, TLAPS

Filling == {"alloc", "list", "json"}

\* All threads point to the buffer that was written last; while one is written, to the other.
Pointed ==
    /\ pc = "wait" => \A t \in Threads : apiFlip[t] = flip
    /\ pc \in Filling => \A t \in Threads : apiFlip[t] # flip

\* A request is old enough before the buffer it reads is written.
Aged ==
    request # NoRequest =>
        /\ request.buffer \in Ids
        /\ pc = "wait" /\ request.buffer # flip => request.age + remaining >= MinGap
        /\ pc \in Filling /\ request.buffer = flip => request.age >= MinGap

\* the inductive invariant
IInv == TypeOK /\ Pointed /\ Aged
-----------------------------------------------------------------------------
\* The smaller and the larger of two numbers.
LEMMA MinMax ==
  ASSUME NEW x \in Int, NEW y \in Int
  PROVE  /\ Min({x, y}) \in {x, y} /\ Min({x, y}) <= x /\ Min({x, y}) <= y
         /\ Max({x, y}) \in {x, y} /\ Max({x, y}) >= x /\ Max({x, y}) >= y
BY DEF Min, Max

\* A tick takes from the pause no more than it adds to the age of a request.
LEMMA Pause ==
  ASSUME MinGap \in Nat, NEW k \in 0..MinGap, NEW n \in Nat, NEW m \in Nat, m >= n - 1,
         NEW new, new = k + 1 \/ new = MinGap, k + n >= MinGap
  PROVE  new + m >= MinGap
OBVIOUS

\* The constants.
LEMMA Constants ==
  /\ 0 \in Threads /\ Interval \in Nat \ {0} /\ MinGap \in Nat \ {0} /\ MinGap < Interval
  /\ Movers \subseteq Aircraft
BY ApiBuffersAssumption

\* How many aircraft are listed.
LEMMA Counting == \A S \in SUBSET Aircraft : Cardinality(S) \in Nat
BY ApiBuffersAssumption, FS_Subset, FS_CardinalityType

\* The first update has filled buffer 1.
LEMMA InitIInv == ASSUME Init PROVE IInv
<1> USE Constants DEF Init, NoRequest
<1>1. TypeOK
  BY DEF TypeOK, Ids
<1>2. Pointed /\ Aged
  BY DEF Pointed, Aged, Filling
<1>3. QED
  BY <1>1, <1>2 DEF IInv

\* IInv is kept by every step.
LEMMA StepIInv ==
  ASSUME IInv, Next
  PROVE  IInv'
<1> USE Constants DEF IInv, Ids
<1>1. CASE StartUpdate
  <2>1. /\ pc = "wait" /\ pc' = "alloc" /\ remaining = 0 /\ acCount' \in Nat
        /\ flip' = (apiFlip[0] + 1) % 2 /\ flip \in {0, 1} /\ apiFlip[0] = flip
        /\ UNCHANGED <<active, apiFlip, remaining, phase, request>>
    BY <1>1, Counting DEF TypeOK, NoRequest, StartUpdate, Pointed
  <2>2. flip' \in 0..1 /\ flip' # flip
    BY <2>1
  <2>3. TypeOK' /\ Pointed'
    BY <2>1, <2>2 DEF TypeOK, NoRequest, Pointed, Filling
  <2>4. Aged'
    BY <2>1, <2>2 DEF TypeOK, NoRequest, Aged, Filling
  <2>5. QED
    BY <2>3, <2>4
<1>2. CASE Allocate \/ FillList \/ GenerateJson
  BY <1>2 DEF TypeOK, NoRequest, Allocate, FillList, GenerateJson, Pointed, Aged, Filling
<1>3. ASSUME NEW t \in Threads, Publish(t) PROVE IInv'
  <2>1. /\ pc = "publish" /\ apiFlip' \in [Threads -> Ids]
        /\ UNCHANGED <<active, update, phase, request>>
    BY <1>3 DEF TypeOK, NoRequest, Publish
  <2>2. QED
    BY <2>1 DEF TypeOK, NoRequest, update, Pointed, Aged, Filling
<1>4. CASE FinishUpdate
  <2>1. /\ pc' = "wait" /\ remaining' \in 0..(2 * Interval) /\ remaining' >= MinGap
        /\ \A t \in Threads : apiFlip[t] = flip
        /\ UNCHANGED <<active, apiFlip, flip, acCount, phase, request>>
    BY <1>4 DEF TypeOK, NoRequest, FinishUpdate
  <2>2. QED
    BY <2>1 DEF TypeOK, NoRequest, Pointed, Aged, Filling
<1>5. ASSUME NEW t \in Threads, BeginRequest(t) PROVE IInv'
  <2>1. /\ request' = [buffer |-> apiFlip[t], age |-> 0] /\ apiFlip[t] \in Ids
        /\ UNCHANGED <<active, apiFlip, update, phase>>
    BY <1>5 DEF TypeOK, NoRequest, BeginRequest
  <2>2. TypeOK' /\ Pointed'
    BY <2>1 DEF TypeOK, NoRequest, update, Pointed, Filling
  <2>3. Aged'
    BY <2>1 DEF TypeOK, NoRequest, update, Pointed, Aged, Filling
  <2>4. QED
    BY <2>2, <2>3
<1>6. CASE EndRequest
  <2>1. request' = NoRequest /\ UNCHANGED <<active, apiFlip, update, phase>>
    BY <1>6 DEF TypeOK, NoRequest, EndRequest
  <2>2. TypeOK' /\ Pointed'
    BY <2>1 DEF TypeOK, NoRequest, update, Pointed, Filling
  <2>3. Aged'
    BY <2>1 DEF TypeOK, NoRequest, Aged
  <2>4. QED
    BY <2>2, <2>3
<1>7. ASSUME NEW a \in Movers, AddAircraft(a) \/ RemoveAircraft(a) PROVE IInv'
  BY <1>7 DEF TypeOK, NoRequest, AddAircraft, RemoveAircraft, update, Pointed, Aged, Filling
<1>8. CASE Tick
  <2>1. /\ remaining' \in 0..(2 * Interval) /\ remaining' >= remaining - 1
        /\ phase' \in 0..(Interval - 1)
        /\ UNCHANGED <<active, apiFlip, pc, flip, acCount>>
    <3>1. PICK n \in Nat, p \in Nat : n = remaining /\ p = phase /\ n <= 2 * Interval
      BY DEF TypeOK
    <3>2. PICK x \in Int : x = n - 1
      OBVIOUS
    <3>3. remaining' = Max({x, 0}) /\ phase' = (p + 1) % Interval
      BY <1>8, <3>1, <3>2 DEF Tick
    <3>4. PICK m : m = Max({x, 0})
      OBVIOUS
    <3>5. m \in {x, 0} /\ m >= x /\ m >= 0
      BY <3>4, MinMax
    <3>6. QED
      BY <1>8, <3>1, <3>2, <3>3, <3>4, <3>5 DEF Tick
  <2>2. CASE request = NoRequest
    BY <1>8, <2>1, <2>2 DEF TypeOK, Tick, Pointed, Aged, Filling
  <2>3. CASE request # NoRequest
    <3>1. PICK b \in Ids, k \in 0..MinGap : request = [buffer |-> b, age |-> k]
      BY <2>3 DEF TypeOK, Aged
    <3>2. PICK x \in Int, y \in Int : x = k + 1 /\ y = MinGap
      BY <3>1
    <3>3. PICK new : new = Min({x, y})
      OBVIOUS
    <3>4. request' = [buffer |-> b, age |-> new]
      BY <1>8, <2>3, <3>1, <3>2, <3>3 DEF Tick
    <3>5. new \in {x, y} /\ new <= x /\ new <= y
      BY <3>3, MinMax
    <3>6. new \in 0..MinGap /\ (new = k + 1 \/ new = MinGap)
      BY <3>1, <3>2, <3>5
    <3>7. request' \in [buffer : Ids \union {-1}, age : 0..MinGap]
      BY <3>4, <3>6
    <3>8. TypeOK' /\ Pointed'
      BY <2>1, <3>7 DEF TypeOK, Pointed, Filling
    <3>9. Aged'
      <4>1. request'.buffer = b /\ request'.age = new /\ request.buffer = b /\ request.age = k
        BY <3>1, <3>4
      <4>2. pc = "wait" /\ b # flip => new + remaining' >= MinGap
        <5>1. SUFFICES ASSUME pc = "wait", b # flip PROVE new + remaining' >= MinGap
          OBVIOUS
        <5>2. k + remaining >= MinGap
          BY <2>3, <4>1, <5>1 DEF Aged
        <5>3. PICK n \in Nat, m \in Nat : n = remaining /\ m = remaining' /\ m >= n - 1
          BY <2>1 DEF TypeOK
        <5>4. k + n >= MinGap
          BY <5>2, <5>3
        <5>5. new + m >= MinGap
          BY <3>6, <5>3, <5>4, Pause
        <5>6. QED
          BY <5>3, <5>5
      <4>3. pc \in Filling /\ b = flip => new >= MinGap
        BY <2>3, <3>1, <3>6, <4>1 DEF Aged
      <4>4. QED
        BY <2>1, <3>1, <4>1, <4>2, <4>3 DEF Aged
    <3>10. QED
      BY <3>8, <3>9
  <2>4. QED
    BY <2>2, <2>3
<1>9. QED
  BY <1>1, <1>2, <1>3, <1>4, <1>5, <1>6, <1>7, <1>8 DEF Next, Update

\* IInv is an invariant.
THEOREM Invariance == Spec => []IInv
<1>1. IInv /\ [Next]_vars => IInv'
  <2> SUFFICES ASSUME IInv, [Next]_vars PROVE IInv'
    OBVIOUS
  <2>1. CASE Next
    BY <2>1, StepIInv
  <2>2. CASE UNCHANGED vars
    BY <2>2 DEF IInv, TypeOK, Pointed, Aged, vars, update
  <2>3. QED
    BY <2>1, <2>2
<1>2. QED
  BY <1>1, InitIInv, PTL DEF Spec

\* A request that has run for less than the pause of the update reads a buffer nobody writes.
THEOREM StableBuffers == Spec => []FreshRequestsReadStableBuffer
<1>1. IInv => FreshRequestsReadStableBuffer
  BY Constants DEF IInv, TypeOK, Aged, FreshRequestsReadStableBuffer, Writing, Filling
<1>2. QED
  BY <1>1, Invariance, PTL
=============================================================================
