------------------------ MODULE ApiConnectionsProofs ------------------------
(***************************************************************************)
(* The connections of an API thread, for every number of clients and       *)
(* connection structs, whatever the clients send and however slowly they   *)
(* read: a client receives the replies to its own requests in order, and   *)
(* neither a struct nor the bytes of a reply are lost or released twice.   *)
(*                                                                         *)
(* RepliesInOrder is not inductive: nothing in it says that the next unit  *)
(* sent belongs to the reply whose last unit the client has received.  The *)
(* invariant ties an open connection to its client (Tie): what was sent of *)
(* the reply is what ends the client's stream, everything received before  *)
(* belongs to earlier requests and everything on its way to later ones.    *)
(* NothingLeaks counts; the invariant says it without counting (Structs:   *)
(* the stack holds each closed struct once) and adds that a closed struct  *)
(* holds no bytes, that a queued client has received nothing, and that no  *)
(* client is queued twice.                                                 *)
(*                                                                         *)
(* A handler makes several calls, so every lemma about one is about a      *)
(* world, the record of the variables that the handlers pass on: a sound   *)
(* world stays sound.  That the folds of the model (the sum of the bytes,  *)
(* closing connections, the loop of acceptCon) have the values they seem   *)
(* to have is proved by induction over the subsets of a finite set.        *)
(***************************************************************************)
EXTENDS ApiConnections, FiniteSetTheorems, SequenceTheorems, WellFoundedInduction, TLAPS

\* what a client sends
Chunks == [kind : Kinds, size : Nat \ {0}, keepalive : BOOLEAN]

\* a script
Script == Seq(Chunks)

\* the types of the parts of the world
ClientRec == [status : {"new", "queued", "open", "closed"}, sent : Nat, inbox : Seq(Nat),
              gone : {"no", "half", "reset"}, room : BOOLEAN, got : Seq(Nat \X Nat)]
ConRec    == [open : BOOLEAN, client : Clients \union {NoClient}, keepalive : BOOLEAN,
              request : Nat, reply : Nat, len : Nat, sent : Nat, out : BOOLEAN, wakeups : Nat]
Worlds(n) == [net : [Clients -> ClientRec], backlog : Seq(Clients), cons : [1..n -> ConRec],
              stack : Seq(1..n), buffered : Int, exit : BOOLEAN]

-----------------------------------------------------------------------------
(* What a client has received, s being its script.                         *)

\* a status, or the last unit of a reply
Whole(s, x) == x[1] = 0 \/ x[2] = s[x[1]].size

\* Unit n of what was received continues a reply whose request was sent, and is continued by it
\* unless it is the end.
UnitInOrder(s, sent, g, n) ==
    g[n][1] # 0 =>
        /\ g[n][1] \in 1..sent /\ g[n][1] \in DOMAIN s /\ s[g[n][1]].kind = "fetch"
        /\ g[n][2] \in 1..s[g[n][1]].size
        /\ g[n][2] > 1 => n > 1 /\ g[n - 1] = <<g[n][1], g[n][2] - 1>>
        /\ g[n][2] < s[g[n][1]].size /\ n < Len(g) =>
              \/ g[n + 1] = <<g[n][1], g[n][2] + 1>>
              \/ g[n + 1] = Status(500) /\ n + 1 = Len(g)
        /\ \A m \in 1..(n - 1) : g[m][1] <= g[n][1]

\* ... and so does every other
InOrder(s, sent, g) == \A n \in 1..Len(g) : UnitInOrder(s, sent, g, n)

\* The last thing received is not the middle of a reply.
Settled(s, g) == g # <<>> => Whole(s, g[Len(g)])

\* No reply was given up.
Unbroken(s, g) ==
    \A n \in 1..(Len(g) - 1) : Whole(s, g[n]) \/ g[n + 1] = <<g[n][1], g[n][2] + 1>>

\* The requests on their way come after those that were answered, in order.
Inbox(s, k) ==
    /\ \A j \in 1..Len(k.inbox) : k.inbox[j] \in 1..k.sent
    /\ \A i, j \in 1..Len(k.inbox) : i < j => k.inbox[i] < k.inbox[j]
    /\ \A n \in 1..Len(k.got), j \in 1..Len(k.inbox) : k.got[n][1] < k.inbox[j]

\* what is known of a client
ClientInv(s, k) ==
    /\ k.sent <= Len(s)
    /\ InOrder(s, k.sent, k.got)
    /\ Inbox(s, k)
    /\ k.status \in {"new", "queued"} => k.got = <<>>

\* What is known of a client and its connection x: the reply that is being sent is the one the
\* client gets.
Tie(s, k, x) ==
    /\ Unbroken(s, k.got)
    /\ x.sent <= x.len
    /\ x.len > 0 =>
        /\ x.reply \in 1..k.sent /\ s[x.reply].kind = "fetch" /\ x.len = s[x.reply].size
        /\ x.request <= RequestMax
        /\ \A n \in 1..Len(k.got) : k.got[n][1] <= x.reply
        /\ x.sent > 0 => k.got # <<>> /\ k.got[Len(k.got)] = <<x.reply, x.sent>>
        /\ \A j \in 1..Len(k.inbox) : x.reply < k.inbox[j]
    /\ x.sent = 0 => Settled(s, k.got)

-----------------------------------------------------------------------------
(* The connections and their clients.                                      *)

\* the open ones
OpenIn(cs) == {c \in DOMAIN cs : cs[c].open}

\* each client, and each connection with its own
ClientsInv(w, s) == \A k \in Clients : ClientInv(s[k], w.net[k])

Ties(w, s) ==
    \A c \in OpenIn(w.cons) :
        w.cons[c].client \in Clients /\ Tie(s[w.cons[c].client], w.net[w.cons[c].client], w.cons[c])

\* The stack holds the structs that are not open, once; an open struct has a client of its own.
Structs(w) ==
    /\ \A i, j \in 1..Len(w.stack) : w.stack[i] = w.stack[j] => i = j
    /\ \A c \in DOMAIN w.cons : c \in OpenIn(w.cons) <=> \A i \in 1..Len(w.stack) : w.stack[i] # c
    /\ \A c \in OpenIn(w.cons) : w.cons[c].client \in Clients /\ w.net[w.cons[c].client].status = "open"
    /\ \A c, d \in OpenIn(w.cons) : w.cons[c].client = w.cons[d].client => c = d
    /\ \A k \in Clients : w.net[k].status = "open" => \E c \in OpenIn(w.cons) : w.cons[c].client = k

\* Those in the backlog wait for a connection, once.
Waiting(w) ==
    /\ \A i \in 1..Len(w.backlog) : w.net[w.backlog[i]].status = "queued"
    /\ \A i, j \in 1..Len(w.backlog) : w.backlog[i] = w.backlog[j] => i = j

\* the bytes of the replies held by the connections in S
Sum(cs, S) == MapThenSumSet(LAMBDA c : cs[c].len, S)

\* The replies that are held are counted, and exceed the limit by one at most.
Bytes(w, cf) ==
    /\ \A c \in DOMAIN w.cons \ OpenIn(w.cons) : w.cons[c] = FreshCon
    /\ w.buffered = Sum(w.cons, OpenIn(w.cons))
    /\ w.buffered > 0 =>
        \E k \in Clients : \E i \in 1..Len(cf.script[k]) : w.buffered <= cf.limit + cf.script[k][i].size

\* what is known of the world
Sound(w, cf) ==
    /\ w \in Worlds(cf.structs)
    /\ ClientsInv(w, cf.script) /\ Ties(w, cf.script)
    /\ Structs(w) /\ Waiting(w) /\ Bytes(w, cf)

\* the inductive invariant
IInv ==
    /\ config \in Configs /\ running \in BOOLEAN
    /\ \A e \in events : e.con \in 0..config.structs
    /\ Sound(World, config)
-----------------------------------------------------------------------------
(* Folds.  MapThenFoldSet chooses a function that satisfies a recursive    *)
(* equation over the subsets; that there is one is proved here, for the    *)
(* three folds of the model at once.                                       *)

\* the order of the numbers
Less == {ss \in Nat \X Nat : ss[1] < ss[2]}

\* The order of the numbers is well-founded.
LEMMA LessWF == IsWellFoundedOn(Less, Nat)
BY NatLessThanWellFounded DEF OpToRel, Less

\* A nonempty set of numbers has a least one.
LEMMA NatMin == \A T : T \subseteq Nat /\ T # {} => \E x \in T : \A y \in T : x <= y
<1> SUFFICES ASSUME NEW T, T \subseteq Nat, T # {}
             PROVE  \E x \in T : \A y \in T : x <= y
  OBVIOUS
<1>1. PICK x \in T : \A y \in T : ~ (<<y, x>> \in Less)
  BY LessWF, WFMin
<1>2. ASSUME NEW y \in T, y < x
      PROVE  FALSE
  <2>1. <<y, x>> \in Nat \X Nat
    OBVIOUS
  <2>2. QED
    BY <1>1, <1>2, <2>1 DEF Less
<1>3. QED
  BY <1>2

\* Induction, for sets of numbers.
LEMMA NatSetInduction ==
  ASSUME NEW T, 0 \in T, \A n \in Nat : n \in T => n + 1 \in T
  PROVE  Nat \subseteq T
<1>1. SUFFICES ASSUME Nat \ T # {}
               PROVE  FALSE
  OBVIOUS
<1>2. PICK m \in Nat \ T : \A y \in Nat \ T : m <= y
  BY <1>1, NatMin
<1>3. m # 0 /\ m - 1 \in Nat /\ m - 1 \in T
  BY <1>2
<1>4. QED
  BY <1>2, <1>3

\* Induction over the subsets of a finite set: a set that has every subset all of whose
\* proper subsets it has, has them all.
LEMMA SubsetInduction ==
  ASSUME NEW S, IsFiniteSet(S), NEW T,
         \A s \in SUBSET S : (\A t \in SUBSET S : t \subseteq s /\ t # s => t \in T) => s \in T
  PROVE  SUBSET S \subseteq T
<1> DEFINE R == StrictSubsetOrdering(S)
           U == (SUBSET S) \ T
<1>1. IsWellFoundedOn(R, FiniteSubsetsOf(S))
  BY FS_StrictSubsetOrderingWellFounded
<1>2. FiniteSubsetsOf(S) = SUBSET S
  BY FS_Subset DEF FiniteSubsetsOf
<1>3. SUFFICES ASSUME U # {}
               PROVE  FALSE
  OBVIOUS
<1>4. U \subseteq FiniteSubsetsOf(S)
  BY <1>2
<1>5. PICK x \in U : \A y \in U : ~ (<<y, x>> \in R)
  <2> HIDE DEF U
  <2> QED
    BY <1>1, <1>3, <1>4, WFMin
<1>6. ASSUME NEW t \in SUBSET S, t \subseteq x, t # x
      PROVE  t \in T
  <2>1. x \in SUBSET S
    BY <1>5
  <2>2. <<t, x>> \in R
    BY <1>6, <2>1 DEF StrictSubsetOrdering
  <2>3. QED
    BY <1>5, <2>2
<1>7. QED
  BY <1>5, <1>6

\* any element of s
Item(s) == CHOOSE x \in s : TRUE

\* the element a fold removes first: Sum, CloseAll and AcceptCon
Chosen(how, s) == IF how = "accept" THEN Max(s) ELSE Item(s)

\* ... and what it does with element x, v being the value for the others
Folded(how, data, x, v) ==
    CASE how = "sum"    -> data[x].len + v
      [] how = "close"  -> CloseCon(v, x)
      [] how = "accept" -> AcceptOne(v, data[x])

\* g is a function the fold over S may choose.
IsFold(how, data, base, S, g) ==
    g = [s \in SUBSET S |->
            IF s = {} THEN base
            ELSE Folded(how, data, Chosen(how, s), g[s \ {Chosen(how, s)}])]

\* A finite set of numbers has a greatest one.
LEMMA NatMax ==
  ASSUME NEW S, S \subseteq Nat, IsFiniteSet(S), S # {}
  PROVE  Max(S) \in S /\ \A x \in S : x <= Max(S)
<1> DEFINE T == {s \in SUBSET S : s = {} \/ \E m \in s : \A x \in s : x <= m}
<1>1. ASSUME NEW s \in SUBSET S, \A t \in SUBSET S : t \subseteq s /\ t # s => t \in T
      PROVE  s \in T
  <2>1. CASE s # {}
    <3>1. PICK e \in s : TRUE
      BY <2>1
    <3>2. s \ {e} \in T
      BY <1>1, <3>1
    <3>3. CASE s \ {e} = {}
      BY <3>1, <3>3
    <3>4. CASE s \ {e} # {}
      <4>1. PICK m \in s \ {e} : \A x \in s \ {e} : x <= m
        BY <3>2, <3>4
      <4>2. CASE e <= m
        BY <4>1, <4>2
      <4>3. CASE ~(e <= m)
        <5>1. \A x \in s : x <= e
          BY <4>1, <4>3
        <5>2. QED
          BY <5>1
      <4>4. QED
        BY <4>2, <4>3
    <3>5. QED
      BY <3>3, <3>4
  <2>2. QED
    BY <2>1
<1>2. SUBSET S \subseteq T
  <2> HIDE DEF T
  <2>1. QED
    BY <1>1, SubsetInduction
<1>3. \E x \in S : \A y \in S : x >= y
  <2>1. PICK m \in S : \A x \in S : x <= m
    BY <1>2
  <2>2. QED
    BY <2>1
<1>4. QED
  BY <1>3 DEF Max

\* The recursive equation has a solution: one for the subsets of up to n elements gives one
\* for those of n + 1.
LEMMA FoldExists ==
  ASSUME NEW how, NEW data, NEW base, NEW S, IsFiniteSet(S), how = "accept" => S \subseteq Nat
  PROVE  \E g : IsFold(how, data, base, S, g)
<1> DEFINE Val(g, s) == IF s = {} THEN base
                        ELSE Folded(how, data, Chosen(how, s), g[s \ {Chosen(how, s)}])
           Small(n) == {s \in SUBSET S : Cardinality(s) <= n}
           Have == {n \in Nat : \E g : g = [s \in Small(n) |-> Val(g, s)]}
<1>1. \A s \in SUBSET S : IsFiniteSet(s) /\ Cardinality(s) \in Nat
  BY FS_Subset, FS_CardinalityType
<1>2. \A s \in SUBSET S : s # {} => Chosen(how, s) \in s
  <2> SUFFICES ASSUME NEW s \in SUBSET S, s # {}
               PROVE  Chosen(how, s) \in s
    OBVIOUS
  <2>1. CASE how = "accept"
    BY <1>1, <2>1, NatMax DEF Chosen
  <2>2. CASE how # "accept"
    BY <2>2 DEF Chosen, Item
  <2>3. QED
    BY <2>1, <2>2
<1>3. 0 \in Have
  <2>1. \A s \in Small(0) : s = {}
    BY <1>1, FS_EmptySet
  <2>2. [s \in Small(0) |-> base] = [s \in Small(0) |-> Val([t \in Small(0) |-> base], s)]
    BY <2>1
  <2>3. QED
    BY <2>2
<1>4. ASSUME NEW n \in Nat, n \in Have
      PROVE  n + 1 \in Have
  <2>1. PICK g : g = [s \in Small(n) |-> Val(g, s)]
    BY <1>4
  <2> DEFINE h == [s \in Small(n + 1) |-> Val(g, s)]
  <2>2. \A s \in Small(n) : h[s] = g[s]
    <3>1. Small(n) \subseteq Small(n + 1)
      BY <1>1
    <3>2. QED
      BY <2>1, <3>1
  <2>3. \A s \in Small(n + 1) : s # {} => s \ {Chosen(how, s)} \in Small(n)
    <3> SUFFICES ASSUME NEW s \in Small(n + 1), s # {}
                 PROVE  s \ {Chosen(how, s)} \in Small(n)
      OBVIOUS
    <3>1. Chosen(how, s) \in s
      BY <1>2
    <3>2. Cardinality(s \ {Chosen(how, s)}) = Cardinality(s) - 1
      BY <1>1, <3>1, FS_RemoveElement
    <3>3. QED
      BY <1>1, <3>2
  <2>4. ASSUME NEW s \in Small(n + 1)
        PROVE  Val(h, s) = Val(g, s)
    <3>1. s # {} => h[s \ {Chosen(how, s)}] = g[s \ {Chosen(how, s)}]
      BY <2>2, <2>3
    <3> HIDE DEF h
    <3>2. QED
      BY <3>1
  <2>5. h = [s \in Small(n + 1) |-> Val(h, s)]
    BY <2>4
  <2> HIDE DEF h, Small, Val
  <2>6. QED
    BY <2>5
<1>5. Nat \subseteq Have
  <2> HIDE DEF Have
  <2>1. QED
    BY <1>3, <1>4, NatSetInduction
<1>6. Cardinality(S) \in Have
  BY <1>1, <1>5
<1>7. Small(Cardinality(S)) = SUBSET S
  BY <1>1, FS_Subset
<1>8. PICK g : g = [s \in Small(Cardinality(S)) |-> Val(g, s)]
  BY <1>6
<1>9. QED
  BY <1>7, <1>8 DEF IsFold

\* Each fold of the model is such a function at the whole set.
LEMMA SumFold ==
  ASSUME NEW cs, NEW S, IsFiniteSet(S)
  PROVE  \E g : IsFold("sum", cs, 0, S, g) /\ Sum(cs, S) = g[S]
<1>1. \E g : IsFold("sum", cs, 0, S, g)
  BY FoldExists
<1>2. \E g : g = [s \in SUBSET S |-> IF s = {} THEN 0 ELSE cs[Item(s)].len + g[s \ {Item(s)}]]
  BY <1>1 DEF IsFold, Folded, Chosen
<1>3. \E g : /\ g = [s \in SUBSET S |-> IF s = {} THEN 0 ELSE cs[Item(s)].len + g[s \ {Item(s)}]]
             /\ Sum(cs, S) = g[S]
  BY <1>2 DEF Sum, MapThenSumSet, MapThenFoldSet, Item
<1>4. QED
  BY <1>3 DEF IsFold, Folded, Chosen

\* As for Sum.
LEMMA CloseFold ==
  ASSUME NEW w, NEW S, IsFiniteSet(S)
  PROVE  \E g : IsFold("close", 0, w, S, g) /\ CloseAll(w, S) = g[S]
<1>1. \E g : IsFold("close", 0, w, S, g)
  BY FoldExists
<1>2. \E g : g = [s \in SUBSET S |-> IF s = {} THEN w ELSE CloseCon(g[s \ {Item(s)}], Item(s))]
  BY <1>1 DEF IsFold, Folded, Chosen
<1>3. \E g : /\ g = [s \in SUBSET S |-> IF s = {} THEN w ELSE CloseCon(g[s \ {Item(s)}], Item(s))]
             /\ CloseAll(w, S) = g[S]
  BY <1>2 DEF CloseAll, FoldSet, MapThenFoldSet, Item
<1>4. QED
  BY <1>3 DEF IsFold, Folded, Chosen

\* As for Sum.
LEMMA AcceptFold ==
  ASSUME NEW base, NEW seq, NEW n \in Nat, DOMAIN seq = 1..n
  PROVE  \E g : IsFold("accept", seq, base, 1..n, g) /\ FoldLeft(AcceptOne, base, seq) = g[1..n]
<1>1. \A g : IsFold("accept", seq, base, 1..n, g) <=>
             g = [s \in SUBSET (1..n) |-> IF s = {} THEN base
                                          ELSE AcceptOne(g[s \ {Max(s)}], seq[Max(s)])]
  BY DEF IsFold, Folded, Chosen
<1>2. \E g : IsFold("accept", seq, base, 1..n, g)
  <2>1. IsFiniteSet(1..n) /\ 1..n \subseteq Nat
    BY FS_Interval
  <2>2. QED
    BY <2>1, FoldExists
<1>3. QED
  BY <1>1, <1>2 DEF FoldLeft, MapThenFoldSet
-----------------------------------------------------------------------------
(* The bytes held by a set of connections.                                 *)

\* The connections in S hold the same in cs and in ds.
SameLens(cs, ds, S) == \A c \in S : cs[c].len = ds[c].len

\* g is a function the sum over S may choose.
IsSum(cs, S, g) == IsFold("sum", cs, 0, S, g)

\* Two functions of sets agree on the subsets of S.
SameOn(S, g, h) == \A s \in SUBSET S : g[s] = h[s]

\* A sum does not depend on what it is not about.
LEMMA SumSame ==
  ASSUME NEW cs, NEW ds, NEW S, NEW U, NEW V, IsFiniteSet(S), S \subseteq U, S \subseteq V,
         NEW g, NEW h, IsSum(cs, U, g), IsSum(ds, V, h), SameLens(cs, ds, S)
  PROVE  SameOn(S, g, h)
<1> DEFINE T == {s \in SUBSET S : g[s] = h[s]}
<1>1. ASSUME NEW s \in SUBSET S, \A t \in SUBSET S : t \subseteq s /\ t # s => t \in T
      PROVE  s \in T
  <2>1. s \in SUBSET U /\ s \in SUBSET V
    OBVIOUS
  <2>2. CASE s = {}
    BY <2>1, <2>2 DEF IsSum, IsFold
  <2>3. CASE s # {}
    <3>1. Item(s) \in s
      BY <2>3 DEF Item
    <3>2. s \ {Item(s)} \in T
      BY <1>1, <3>1
    <3>3. g[s] = cs[Item(s)].len + g[s \ {Item(s)}] /\ h[s] = ds[Item(s)].len + h[s \ {Item(s)}]
      BY <2>1, <2>3 DEF IsSum, IsFold, Folded, Chosen
    <3>4. QED
      BY <3>1, <3>2, <3>3 DEF SameLens
  <2>4. QED
    BY <2>2, <2>3
<1>2. SUBSET S \subseteq T
  <2> HIDE DEF T
  <2>1. QED
    BY <1>1, SubsetInduction
<1>3. QED
  BY <1>2 DEF SameOn

\* A sum may split off any element, not only the one the fold chooses.
LEMMA SumSplit ==
  ASSUME NEW n \in Nat, NEW cs \in [1..n -> ConRec], NEW S \in SUBSET (1..n), IsFiniteSet(S),
         NEW g, IsSum(cs, S, g)
  PROVE  \A s \in SUBSET S : g[s] \in Nat /\ \A x \in s : g[s] = cs[x].len + g[s \ {x}]
<1> DEFINE W(x) == cs[x].len
           T == {s \in SUBSET S : g[s] \in Nat /\ \A x \in s : g[s] = W(x) + g[s \ {x}]}
<1>1. \A x \in S : W(x) \in Nat
  BY DEF ConRec
<1>2. ASSUME NEW s \in SUBSET S, \A t \in SUBSET S : t \subseteq s /\ t # s => t \in T
      PROVE  s \in T
  <2>1. CASE s = {}
    BY <2>1 DEF IsSum, IsFold
  <2>2. CASE s # {}
    <3> DEFINE c == Item(s)
    <3>1. c \in s
      BY <2>2 DEF Item
    <3>2. s \ {c} \in T
      BY <1>2, <3>1
    <3>3. g[s] = W(c) + g[s \ {c}]
      BY <2>2 DEF IsSum, IsFold, Folded, Chosen
    <3>4. g[s] \in Nat /\ g[s \ {c}] \in Nat
      <4>1. W(c) \in Nat /\ g[s \ {c}] \in Nat
        BY <1>1, <3>1, <3>2
      <4> HIDE DEF W, c
      <4>2. QED
        BY <3>3, <4>1
    <3>5. ASSUME NEW x \in s, x # c
          PROVE  g[s] = W(x) + g[s \ {x}]
      <4>1. s \ {x} \in T /\ c \in s \ {x} /\ x \in s \ {c}
        BY <1>2, <3>1, <3>5
      <4>2. (s \ {x}) \ {c} = (s \ {c}) \ {x}
        OBVIOUS
      <4>3. (s \ {x}) \ {c} \in T
        BY <1>2, <3>5
      <4>4. g[s \ {x}] = W(c) + g[(s \ {x}) \ {c}] /\ g[s \ {c}] = W(x) + g[(s \ {c}) \ {x}]
        BY <3>2, <4>1
      <4>5. W(c) \in Nat /\ W(x) \in Nat /\ g[(s \ {x}) \ {c}] \in Nat
        BY <1>1, <3>1, <3>5, <4>3
      <4>6. g[s \ {x}] = W(c) + g[(s \ {c}) \ {x}] /\ g[(s \ {c}) \ {x}] \in Nat
        BY <4>2, <4>4, <4>5
      <4> DEFINE all == g[s]   lessC == g[s \ {c}]   lessX == g[s \ {x}]   less == g[(s \ {c}) \ {x}]
                 wc == W(c)    wx == W(x)
      <4>7. /\ all = wc + lessC /\ lessC = wx + less /\ lessX = wc + less
            /\ less \in Nat /\ wc \in Nat /\ wx \in Nat
        BY <3>3, <4>4, <4>5, <4>6
      <4>8. all = wx + lessX
        <5> HIDE DEF all, lessC, lessX, less, wc, wx
        <5>1. QED
          BY <4>7
      <4>9. QED
        BY <4>8
    <3>6. QED
      BY <3>3, <3>4, <3>5
  <2>3. QED
    BY <2>1, <2>2
<1>3. SUBSET S \subseteq T
  <2> HIDE DEF T
  <2>1. QED
    BY <1>2, SubsetInduction
<1>4. QED
  BY <1>3

\* What is used of the sum: of nothing, of one connection more, and that it depends on the
\* connections it is about only.
LEMMA Sums ==
  ASSUME NEW n \in Nat, NEW cs \in [1..n -> ConRec]
  PROVE  /\ Sum(cs, {}) = 0
         /\ \A S \in SUBSET (1..n) : Sum(cs, S) \in Nat
         /\ \A S \in SUBSET (1..n) : \A x \in S : Sum(cs, S) = cs[x].len + Sum(cs, S \ {x})
         /\ \A ds \in [1..n -> ConRec] : \A S \in SUBSET (1..n) :
              SameLens(cs, ds, S) => Sum(cs, S) = Sum(ds, S)
<1>1. \A S \in SUBSET (1..n) : IsFiniteSet(S)
  <2>1. IsFiniteSet(1..n)
    BY FS_Interval
  <2>2. QED
    BY <2>1, FS_Subset
<1>2. \A S \in SUBSET (1..n), ds \in [1..n -> ConRec] :
         \E g : IsSum(ds, S, g) /\ Sum(ds, S) = g[S]
  BY <1>1, SumFold DEF IsSum
<1>3. Sum(cs, {}) = 0
  <2>1. PICK g : IsSum(cs, {}, g) /\ Sum(cs, {}) = g[{}]
    BY <1>2
  <2>2. QED
    BY <2>1 DEF IsSum, IsFold
<1>4. ASSUME NEW S \in SUBSET (1..n)
      PROVE  Sum(cs, S) \in Nat /\ \A x \in S : Sum(cs, S) = cs[x].len + Sum(cs, S \ {x})
  <2>1. PICK g : IsSum(cs, S, g) /\ Sum(cs, S) = g[S]
    BY <1>2
  <2>2. Sum(cs, S) \in Nat /\ \A x \in S : Sum(cs, S) = cs[x].len + g[S \ {x}]
    <3>1. IsFiniteSet(S) /\ IsSum(cs, S, g)
      BY <1>1, <2>1
    <3>3. \A s \in SUBSET S : g[s] \in Nat /\ \A x \in s : g[s] = cs[x].len + g[s \ {x}]
      BY <3>1, SumSplit
    <3>4. QED
      BY <2>1, <3>3
  <2>3. ASSUME NEW x \in S
        PROVE  Sum(cs, S \ {x}) = g[S \ {x}]
    <3>1. PICK h : IsSum(cs, S \ {x}, h) /\ Sum(cs, S \ {x}) = h[S \ {x}]
      BY <1>2
    <3>2. \A s \in SUBSET (S \ {x}) : h[s] = g[s]
      <4> DEFINE R == S \ {x}
      <4>1. IsFiniteSet(R) /\ R \subseteq R /\ R \subseteq S
        BY <1>1
      <4>2. SameLens(cs, cs, R)
        BY DEF SameLens
      <4>3. IsSum(cs, R, h) /\ IsSum(cs, S, g)
        BY <2>1, <3>1
      <4>4. SameOn(R, h, g)
        <5> HIDE DEF R
        <5>1. QED
          BY <4>1, <4>2, <4>3, SumSame
      <4>5. QED
        BY <4>4 DEF SameOn
    <3>3. QED
      BY <3>1, <3>2
  <2>4. QED
    BY <2>2, <2>3
<1>5. ASSUME NEW ds \in [1..n -> ConRec], NEW S \in SUBSET (1..n), SameLens(cs, ds, S)
      PROVE  Sum(cs, S) = Sum(ds, S)
  <2>1. PICK g : IsSum(cs, S, g) /\ Sum(cs, S) = g[S]
    BY <1>2
  <2>2. PICK h : IsSum(ds, S, h) /\ Sum(ds, S) = h[S]
    BY <1>2
  <2>3. SameOn(S, g, h)
    <3>1. IsFiniteSet(S) /\ S \subseteq S
      BY <1>1
    <3>2. QED
      BY <1>5, <2>1, <2>2, <3>1, SumSame
  <2>4. QED
    BY <2>1, <2>2, <2>3 DEF SameOn
<1>6. QED
  BY <1>3, <1>4, <1>5

\* One connection changes what it holds.
LEMMA SumChange ==
  ASSUME NEW n \in Nat, NEW cs \in [1..n -> ConRec], NEW ds \in [1..n -> ConRec], NEW c \in 1..n,
         SameLens(cs, ds, (1..n) \ {c}), NEW S \in SUBSET (1..n), c \in S
  PROVE  /\ Sum(ds, S) = Sum(cs, S) - cs[c].len + ds[c].len
         /\ Sum(ds, S \ {c}) = Sum(cs, S) - cs[c].len
<1>1. S \ {c} \in SUBSET (1..n) /\ SameLens(cs, ds, S \ {c})
  BY DEF SameLens
<1>2. Sum(cs, S \ {c}) = Sum(ds, S \ {c}) /\ Sum(cs, S \ {c}) \in Nat
  BY <1>1, Sums
<1>3. Sum(cs, S) = cs[c].len + Sum(cs, S \ {c}) /\ Sum(ds, S) = ds[c].len + Sum(ds, S \ {c})
  BY Sums
<1>4. cs[c].len \in Nat /\ ds[c].len \in Nat
  BY DEF ConRec
<1>5. QED
  BY <1>2, <1>3, <1>4
-----------------------------------------------------------------------------
(* Changing one connection and its client.                                 *)

\* what is known of a configuration
LEMMA ConfigTypes ==
  ASSUME NEW cf \in Configs
  PROVE  /\ cf.structs \in Nat \ {0} /\ cf.limit \in Nat
         /\ cf.script \in [Clients -> Script]
         /\ RequestMax \in Nat /\ AcceptMax \in Nat /\ WakeupMax \in Nat
BY ApiConnectionsAssumption DEF Script, Chunks

\* The fields of a chunk.
LEMMA ChunkTypes ==
  ASSUME NEW s \in Script, NEW i \in 1..Len(s)
  PROVE  s[i].kind \in Kinds /\ s[i].size \in Nat \ {0} /\ s[i].keepalive \in BOOLEAN
<1>1. s[i] \in Chunks
  BY ElementOfSeq DEF Script
<1>2. QED
  BY <1>1 DEF Chunks

\* the world of a step of a connection: its client becomes y, it becomes x
Put(w, c, y, x, b) ==
    [net |-> [w.net EXCEPT ![w.cons[c].client] = y], backlog |-> w.backlog,
     cons |-> [w.cons EXCEPT ![c] = x], stack |-> w.stack, buffered |-> b, exit |-> w.exit]

\* The fields of a world, and of its parts.
LEMMA WorldTypes ==
  ASSUME NEW n \in Nat, NEW w \in Worlds(n)
  PROVE  /\ w.net \in [Clients -> ClientRec] /\ w.backlog \in Seq(Clients)
         /\ w.cons \in [1..n -> ConRec] /\ w.stack \in Seq(1..n)
         /\ w.buffered \in Int /\ w.exit \in BOOLEAN
         /\ w = [net |-> w.net, backlog |-> w.backlog, cons |-> w.cons, stack |-> w.stack,
                 buffered |-> w.buffered, exit |-> w.exit]
BY DEF Worlds

\* The fields of a client.
LEMMA ClientTypes ==
  ASSUME NEW k \in ClientRec
  PROVE  /\ k.status \in {"new", "queued", "open", "closed"} /\ k.sent \in Nat
         /\ k.inbox \in Seq(Nat) /\ k.gone \in {"no", "half", "reset"} /\ k.room \in BOOLEAN
         /\ k.got \in Seq(Nat \X Nat)
         /\ k = [status |-> k.status, sent |-> k.sent, inbox |-> k.inbox, gone |-> k.gone,
                 room |-> k.room, got |-> k.got]
BY DEF ClientRec

\* The fields of a connection.
LEMMA ConTypes ==
  ASSUME NEW x \in ConRec
  PROVE  /\ x.open \in BOOLEAN /\ x.client \in Clients \union {NoClient} /\ x.keepalive \in BOOLEAN
         /\ x.request \in Nat /\ x.reply \in Nat /\ x.len \in Nat /\ x.sent \in Nat
         /\ x.out \in BOOLEAN /\ x.wakeups \in Nat
         /\ x = [open |-> x.open, client |-> x.client, keepalive |-> x.keepalive,
                 request |-> x.request, reply |-> x.reply, len |-> x.len, sent |-> x.sent,
                 out |-> x.out, wakeups |-> x.wakeups]
BY DEF ConRec

\* an open connection, its client and the script of that
LEMMA OpenTypes ==
  ASSUME NEW cf \in Configs, NEW w, Sound(w, cf), NEW c \in 1..cf.structs, w.cons[c].open
  PROVE  /\ w.cons[c] \in ConRec /\ w.cons[c].client \in Clients
         /\ w.net[w.cons[c].client] \in ClientRec /\ w.net[w.cons[c].client].status = "open"
         /\ cf.script[w.cons[c].client] \in Script
         /\ ClientInv(cf.script[w.cons[c].client], w.net[w.cons[c].client])
         /\ Tie(cf.script[w.cons[c].client], w.net[w.cons[c].client], w.cons[c])
         /\ c \in OpenIn(w.cons) /\ OpenIn(w.cons) \subseteq 1..cf.structs
<1>1. w \in Worlds(cf.structs) /\ cf.structs \in Nat
  BY ConfigTypes DEF Sound
<1>2. w.cons \in [1..cf.structs -> ConRec] /\ w.net \in [Clients -> ClientRec]
  BY <1>1, WorldTypes
<1>3. c \in OpenIn(w.cons) /\ OpenIn(w.cons) \subseteq 1..cf.structs
  BY <1>2 DEF OpenIn
<1>4. w.cons[c].client \in Clients /\ w.net[w.cons[c].client].status = "open"
  BY <1>3 DEF Sound, Structs
<1>5. QED
  BY <1>2, <1>3, <1>4, ConfigTypes DEF Sound, ClientsInv, Ties

\* The structs do not notice what is sent and received.
LEMMA StructsFrame ==
  ASSUME NEW n, NEW w, NEW v, Structs(w), v.stack = w.stack, DOMAIN v.cons = 1..n, DOMAIN w.cons = 1..n,
         OpenIn(v.cons) = OpenIn(w.cons), OpenIn(w.cons) \subseteq 1..n,
         \A d \in 1..n : v.cons[d].client = w.cons[d].client,
         \A m \in Clients : v.net[m].status = w.net[m].status
  PROVE  Structs(v)
<1>1. /\ \A d \in DOMAIN v.cons : d \in OpenIn(v.cons) <=> \A i \in 1..Len(v.stack) : v.stack[i] # d
      /\ \A i, j \in 1..Len(v.stack) : v.stack[i] = v.stack[j] => i = j
  BY DEF Structs
<1>2. \A d \in OpenIn(v.cons) : v.cons[d].client \in Clients /\ v.net[v.cons[d].client].status = "open"
  BY DEF Structs
<1>3. \A d, e \in OpenIn(v.cons) : v.cons[d].client = v.cons[e].client => d = e
  BY DEF Structs
<1>4. \A m \in Clients : v.net[m].status = "open" => \E d \in OpenIn(v.cons) : v.cons[d].client = m
  BY DEF Structs
<1>5. QED
  BY <1>1, <1>2, <1>3, <1>4 DEF Structs

\* Nor do those that wait.
LEMMA WaitingFrame ==
  ASSUME NEW w, NEW v, Waiting(w), v.backlog = w.backlog, w.backlog \in Seq(Clients),
         \A m \in Clients : v.net[m].status = w.net[m].status
  PROVE  Waiting(v)
<1>1. \A i \in 1..Len(w.backlog) : w.backlog[i] \in Clients
  OBVIOUS
<1>2. QED
  BY <1>1 DEF Waiting

\* some reply fits
Bounded(cf, b) ==
    \E k \in Clients : \E i \in 1..Len(cf.script[k]) : b <= cf.limit + cf.script[k][i].size

\* Less than what is bounded is bounded.
LEMMA BoundedLess ==
  ASSUME NEW cf \in Configs, NEW a \in Int, NEW b \in Int, a <= b, Bounded(cf, b)
  PROVE  Bounded(cf, a)
<1>1. PICK m \in Clients : \E i \in 1..Len(cf.script[m]) : b <= cf.limit + cf.script[m][i].size
  BY DEF Bounded
<1>2. PICK i \in 1..Len(cf.script[m]) : b <= cf.limit + cf.script[m][i].size
  BY <1>1
<1>3. cf.limit + cf.script[m][i].size \in Nat
  <2>1. cf.script[m] \in Script /\ cf.limit \in Nat
    BY ConfigTypes
  <2>2. cf.script[m][i].size \in Nat
    BY <2>1, ChunkTypes
  <2>3. QED
    BY <2>1, <2>2
<1>4. a <= cf.limit + cf.script[m][i].size
  BY <1>2, <1>3
<1>5. QED
  BY <1>4 DEF Bounded

\* The new state of a connection and its client fits the rest of the world.
CanPut(w, cf, c, y, x, b) ==
    LET s == cf.script[w.cons[c].client] IN
    /\ Sound(w, cf) /\ c \in 1..cf.structs /\ w.cons[c].open
    /\ y \in ClientRec /\ y.status = "open" /\ ClientInv(s, y)
    /\ x \in ConRec /\ x.open /\ x.client = w.cons[c].client /\ Tie(s, y, x)
    /\ b = w.buffered - w.cons[c].len + x.len
    /\ b <= w.buffered \/ Bounded(cf, b)

\* A step of one connection that keeps its client keeps the world sound.
LEMMA PutSound ==
  ASSUME NEW cf \in Configs, NEW w, NEW c, NEW y, NEW x, NEW b, CanPut(w, cf, c, y, x, b)
  PROVE  Sound(Put(w, c, y, x, b), cf)
<1> DEFINE v == Put(w, c, y, x, b)
           k == w.cons[c].client
           n == cf.structs
<1>1. /\ Sound(w, cf) /\ c \in 1..n /\ w.cons[c].open /\ y \in ClientRec /\ x \in ConRec
      /\ y.status = "open" /\ ClientInv(cf.script[k], y) /\ Tie(cf.script[k], y, x)
      /\ x.open /\ x.client = k /\ b = w.buffered - w.cons[c].len + x.len
      /\ b <= w.buffered \/ Bounded(cf, b)
  BY DEF CanPut
<1>2. /\ w \in Worlds(n) /\ n \in Nat /\ k \in Clients
      /\ w.net \in [Clients -> ClientRec] /\ w.backlog \in Seq(Clients)
      /\ w.cons \in [1..n -> ConRec] /\ w.stack \in Seq(1..n)
      /\ w.buffered \in Int /\ w.exit \in BOOLEAN /\ w.net[k].status = "open"
      /\ OpenIn(w.cons) \subseteq 1..n /\ c \in OpenIn(w.cons)
      /\ w.cons[c].len \in Nat /\ x.len \in Nat
  BY <1>1, ConfigTypes, WorldTypes, OpenTypes, ConTypes DEF Sound
<1>3. /\ v.net = [w.net EXCEPT ![k] = y] /\ v.cons = [w.cons EXCEPT ![c] = x]
      /\ v.backlog = w.backlog /\ v.stack = w.stack /\ v.buffered = b /\ v.exit = w.exit
  BY DEF Put
<1>4. v \in Worlds(n)
  BY <1>1, <1>2 DEF Put, Worlds
<1>5. /\ \A d \in 1..n : v.cons[d] = IF d = c THEN x ELSE w.cons[d]
      /\ \A m \in Clients : v.net[m] = IF m = k THEN y ELSE w.net[m]
      /\ DOMAIN v.cons = 1..n /\ DOMAIN w.cons = 1..n
  BY <1>2, <1>3
<1> HIDE DEF v, k, n
<1>6. OpenIn(v.cons) = OpenIn(w.cons)
  <2>1. \A d \in 1..n : v.cons[d].open <=> w.cons[d].open
    BY <1>1, <1>5
  <2>2. QED
    BY <1>5, <2>1 DEF OpenIn
<1>7. /\ \A d \in 1..n : v.cons[d].client = w.cons[d].client
      /\ \A m \in Clients : v.net[m].status = w.net[m].status
  BY <1>1, <1>2, <1>5 DEF k
<1>8. ClientsInv(v, cf.script)
  BY <1>1, <1>2, <1>5 DEF ClientsInv, Sound
<1>9. Ties(v, cf.script)
  <2> SUFFICES ASSUME NEW d \in OpenIn(v.cons)
               PROVE  /\ v.cons[d].client \in Clients
                      /\ Tie(cf.script[v.cons[d].client], v.net[v.cons[d].client], v.cons[d])
    BY DEF Ties
  <2>1. d \in 1..n /\ d \in OpenIn(w.cons)
    BY <1>2, <1>6
  <2>2. CASE d = c
    BY <1>1, <1>2, <1>5, <2>1, <2>2
  <2>3. CASE d # c
    <3>1. w.cons[d].client # k
      BY <1>1, <1>2, <2>1, <2>3 DEF Sound, Structs, k
    <3>2. QED
      BY <1>1, <1>5, <2>1, <2>3, <3>1 DEF Sound, Ties
  <2>4. QED
    BY <2>2, <2>3
<1>10. Structs(v)
  BY <1>1, <1>2, <1>3, <1>5, <1>6, <1>7, StructsFrame DEF Sound
<1>11. Waiting(v)
  BY <1>1, <1>2, <1>3, <1>7, WaitingFrame DEF Sound
<1>12. Bytes(v, cf)
  <2>1. Sum(v.cons, OpenIn(v.cons)) = b
    <3>1. w.buffered = Sum(w.cons, OpenIn(w.cons))
      BY <1>1 DEF Sound, Bytes
    <3>2. Sum(v.cons, OpenIn(w.cons)) = Sum(w.cons, OpenIn(w.cons)) - w.cons[c].len + x.len
      <4> DEFINE cs == w.cons   ds == v.cons   S == OpenIn(cs)
      <4>1. n \in Nat /\ cs \in [1..n -> ConRec] /\ ds \in [1..n -> ConRec]
            /\ c \in 1..n /\ S \in SUBSET (1..n) /\ c \in S /\ ds[c] = x
        BY <1>1, <1>2, <1>3
      <4>2. SameLens(cs, ds, (1..n) \ {c})
        BY <1>5 DEF SameLens
      <4> HIDE DEF cs, ds, S
      <4>3. Sum(ds, S) = Sum(cs, S) - cs[c].len + ds[c].len
        BY <4>1, <4>2, SumChange
      <4>4. QED
        BY <4>1, <4>3 DEF cs, ds, S
    <3>3. QED
      BY <1>1, <1>6, <3>1, <3>2
  <2>2. \A d \in DOMAIN v.cons \ OpenIn(v.cons) : v.cons[d] = FreshCon
    BY <1>1, <1>2, <1>5, <1>6 DEF Sound, Bytes
  <2>3. b \in Int
    BY <1>1, <1>2
  <2>4. b > 0 => Bounded(cf, b)
    <3>1. ASSUME b > 0, b <= w.buffered
          PROVE  Bounded(cf, w.buffered)
      BY <1>1, <1>2, <2>3, <3>1 DEF Sound, Bytes, Bounded
    <3>2. QED
      BY <1>1, <1>2, <2>3, <3>1, BoundedLess
  <2>5. QED
    BY <1>3, <2>1, <2>2, <2>4 DEF Bytes, Bounded
<1>13. QED
  BY <1>4, <1>8, <1>9, <1>10, <1>11, <1>12 DEF Sound, v, n

-----------------------------------------------------------------------------
(* Closing one connection.                                                 *)

\* the world after connection c was closed, its client having become y
End(w, c, y) ==
    [net |-> [w.net EXCEPT ![w.cons[c].client] = y], backlog |-> w.backlog,
     cons |-> [w.cons EXCEPT ![c] = FreshCon], stack |-> Append(w.stack, c),
     buffered |-> w.buffered - w.cons[c].len, exit |-> w.exit]

\* What the client received is in order.
CanEnd(w, cf, c, y) ==
    /\ Sound(w, cf) /\ c \in 1..cf.structs /\ w.cons[c].open
    /\ y \in ClientRec /\ y.status = "closed" /\ ClientInv(cf.script[w.cons[c].client], y)

\* A struct that is put on the stack is on it once, and is not open any more.
LEMMA StructsEnd ==
  ASSUME NEW n \in Nat, NEW w, NEW v, NEW c \in 1..n, Structs(w), c \in OpenIn(w.cons),
         w.stack \in Seq(1..n), v.stack = Append(w.stack, c),
         DOMAIN v.cons = 1..n, DOMAIN w.cons = 1..n,
         OpenIn(w.cons) \subseteq 1..n, OpenIn(v.cons) = OpenIn(w.cons) \ {c},
         \A d \in (1..n) \ {c} : v.cons[d].client = w.cons[d].client,
         \A m \in Clients : m # w.cons[c].client => v.net[m].status = w.net[m].status,
         v.net[w.cons[c].client].status # "open"
  PROVE  Structs(v)
<1>1. /\ \A i, j \in 1..Len(w.stack) : w.stack[i] = w.stack[j] => i = j
      /\ \A d \in 1..n : d \in OpenIn(w.cons) <=> \A i \in 1..Len(w.stack) : w.stack[i] # d
      /\ \A d \in OpenIn(w.cons) : w.cons[d].client \in Clients /\ w.net[w.cons[d].client].status = "open"
      /\ \A d, e \in OpenIn(w.cons) : w.cons[d].client = w.cons[e].client => d = e
      /\ \A m \in Clients : w.net[m].status = "open" => \E d \in OpenIn(w.cons) : w.cons[d].client = m
  BY DEF Structs
<1>2. /\ Len(v.stack) = Len(w.stack) + 1 /\ Len(w.stack) \in Nat
      /\ \A i \in 1..Len(w.stack) : v.stack[i] = w.stack[i]
      /\ v.stack[Len(w.stack) + 1] = c
  BY AppendProperties, LenProperties
<1>3. \A i, j \in 1..Len(v.stack) : v.stack[i] = v.stack[j] => i = j
  <2>1. \A i \in 1..Len(w.stack) : w.stack[i] # c
    BY <1>1
  <2>2. \A i \in 1..Len(v.stack) : i \in 1..Len(w.stack) \/ i = Len(w.stack) + 1
    BY <1>2
  <2>3. QED
    BY <1>1, <1>2, <2>1, <2>2
<1>4. \A d \in DOMAIN v.cons : d \in OpenIn(v.cons) <=> \A i \in 1..Len(v.stack) : v.stack[i] # d
  <2>1. ASSUME NEW d \in 1..n, d # c
        PROVE  d \in OpenIn(v.cons) <=> \A i \in 1..Len(v.stack) : v.stack[i] # d
    <3>1. (\A i \in 1..Len(v.stack) : v.stack[i] # d) <=> (\A i \in 1..Len(w.stack) : w.stack[i] # d)
      <4>1. \A i \in 1..Len(v.stack) : i \in 1..Len(w.stack) \/ i = Len(w.stack) + 1
        BY <1>2
      <4>2. \A i \in 1..Len(w.stack) : i \in 1..Len(v.stack)
        BY <1>2
      <4>3. QED
        BY <1>2, <2>1, <4>1, <4>2
    <3>2. QED
      BY <1>1, <2>1, <3>1
  <2>2. c \notin OpenIn(v.cons) /\ \E i \in 1..Len(v.stack) : v.stack[i] = c
    <3>1. Len(w.stack) + 1 \in 1..Len(v.stack)
      BY <1>2
    <3>2. QED
      BY <1>2, <3>1
  <2>3. QED
    BY <2>1, <2>2
<1>5. \A d \in OpenIn(v.cons) : v.cons[d].client = w.cons[d].client /\ w.cons[d].client # w.cons[c].client
  BY <1>1
<1>6. /\ \A d \in OpenIn(v.cons) : v.cons[d].client \in Clients /\ v.net[v.cons[d].client].status = "open"
      /\ \A d, e \in OpenIn(v.cons) : v.cons[d].client = v.cons[e].client => d = e
  <2>1. \A d \in OpenIn(v.cons) : d \in OpenIn(w.cons)
    OBVIOUS
  <2>2. ASSUME NEW d \in OpenIn(v.cons)
        PROVE  v.cons[d].client \in Clients /\ v.net[v.cons[d].client].status = "open"
    <3>1. /\ w.cons[d].client \in Clients /\ w.net[w.cons[d].client].status = "open"
          /\ v.cons[d].client = w.cons[d].client /\ w.cons[d].client # w.cons[c].client
      BY <1>1, <1>5, <2>1
    <3>2. v.net[w.cons[d].client].status = w.net[w.cons[d].client].status
      BY <3>1
    <3>3. QED
      BY <3>1, <3>2
  <2>3. \A d, e \in OpenIn(v.cons) : v.cons[d].client = v.cons[e].client => d = e
    BY <1>1, <1>5, <2>1
  <2>4. QED
    BY <2>2, <2>3
<1>7. \A m \in Clients : v.net[m].status = "open" => \E d \in OpenIn(v.cons) : v.cons[d].client = m
  <2> SUFFICES ASSUME NEW m \in Clients, v.net[m].status = "open"
               PROVE  \E d \in OpenIn(v.cons) : v.cons[d].client = m
    OBVIOUS
  <2>1. m # w.cons[c].client /\ w.net[m].status = "open"
    OBVIOUS
  <2>2. PICK d \in OpenIn(w.cons) : w.cons[d].client = m
    BY <1>1, <2>1
  <2>3. d \in OpenIn(v.cons)
    BY <2>1, <2>2
  <2>4. QED
    BY <1>5, <2>2, <2>3
<1>8. QED
  BY <1>3, <1>4, <1>6, <1>7 DEF Structs

\* Closing a connection keeps the world sound.
LEMMA EndSound ==
  ASSUME NEW cf \in Configs, NEW w, NEW c, NEW y, CanEnd(w, cf, c, y)
  PROVE  Sound(End(w, c, y), cf)
<1> DEFINE v == End(w, c, y)
           k == w.cons[c].client
           n == cf.structs
<1>1. /\ Sound(w, cf) /\ c \in 1..n /\ w.cons[c].open /\ y \in ClientRec /\ FreshCon \in ConRec
      /\ y.status = "closed" /\ ClientInv(cf.script[k], y)
  BY DEF CanEnd, FreshCon, ConRec
<1>2. /\ w \in Worlds(n) /\ n \in Nat /\ k \in Clients
      /\ w.net \in [Clients -> ClientRec] /\ w.backlog \in Seq(Clients)
      /\ w.cons \in [1..n -> ConRec] /\ w.stack \in Seq(1..n)
      /\ w.buffered \in Int /\ w.exit \in BOOLEAN /\ w.net[k].status = "open"
      /\ OpenIn(w.cons) \subseteq 1..n /\ c \in OpenIn(w.cons)
      /\ w.cons[c].len \in Nat /\ Append(w.stack, c) \in Seq(1..n)
  <2>1. w \in Worlds(n) /\ n \in Nat
    BY <1>1, ConfigTypes DEF Sound
  <2>2. /\ k \in Clients /\ w.net[k].status = "open" /\ w.cons[c] \in ConRec
        /\ OpenIn(w.cons) \subseteq 1..n /\ c \in OpenIn(w.cons)
    BY <1>1, OpenTypes
  <2>3. /\ w.net \in [Clients -> ClientRec] /\ w.backlog \in Seq(Clients)
        /\ w.cons \in [1..n -> ConRec] /\ w.stack \in Seq(1..n)
        /\ w.buffered \in Int /\ w.exit \in BOOLEAN
    BY <2>1, WorldTypes
  <2>4. Append(w.stack, c) \in Seq(1..n)
    BY <1>1, <2>3, AppendProperties
  <2>5. QED
    BY <2>1, <2>2, <2>3, <2>4, ConTypes
<1>3. /\ v.net = [w.net EXCEPT ![k] = y] /\ v.cons = [w.cons EXCEPT ![c] = FreshCon]
      /\ v.backlog = w.backlog /\ v.stack = Append(w.stack, c) /\ v.exit = w.exit
      /\ v.buffered = w.buffered - w.cons[c].len
  BY DEF End
<1>4. v \in Worlds(n)
  BY <1>1, <1>2 DEF End, Worlds
<1>5. /\ \A d \in 1..n : v.cons[d] = IF d = c THEN FreshCon ELSE w.cons[d]
      /\ \A m \in Clients : v.net[m] = IF m = k THEN y ELSE w.net[m]
      /\ DOMAIN v.cons = 1..n /\ DOMAIN w.cons = 1..n
  BY <1>2, <1>3
<1>6. ~FreshCon.open /\ FreshCon.len = 0 /\ FreshCon.sent = 0
  BY DEF FreshCon
<1> HIDE DEF v, k, n
<1>7. OpenIn(v.cons) = OpenIn(w.cons) \ {c}
  <2>1. \A d \in 1..n : v.cons[d].open <=> w.cons[d].open /\ d # c
    BY <1>1, <1>5, <1>6
  <2>2. QED
    BY <1>5, <2>1 DEF OpenIn
<1>8. ClientsInv(v, cf.script)
  BY <1>1, <1>2, <1>5 DEF ClientsInv, Sound
<1>9. Ties(v, cf.script)
  <2> SUFFICES ASSUME NEW d \in OpenIn(v.cons)
               PROVE  /\ v.cons[d].client \in Clients
                      /\ Tie(cf.script[v.cons[d].client], v.net[v.cons[d].client], v.cons[d])
    BY DEF Ties
  <2>1. d \in 1..n /\ d \in OpenIn(w.cons) /\ d # c
    BY <1>2, <1>7
  <2>2. w.cons[d].client # k
    BY <1>1, <1>2, <2>1 DEF Sound, Structs, k
  <2>3. QED
    BY <1>1, <1>5, <2>1, <2>2 DEF Sound, Ties
<1>10. Structs(v)
  <2>1. \A d \in (1..n) \ {c} : v.cons[d].client = w.cons[d].client
    BY <1>5
  <2>2. \A m \in Clients : m # w.cons[c].client => v.net[m].status = w.net[m].status
    BY <1>5 DEF k
  <2>3. v.net[w.cons[c].client].status # "open"
    BY <1>1, <1>2, <1>5 DEF k
  <2>4. Structs(w)
    BY <1>1 DEF Sound
  <2>5. /\ n \in Nat /\ c \in 1..n /\ c \in OpenIn(w.cons) /\ w.stack \in Seq(1..n)
        /\ v.stack = Append(w.stack, c) /\ DOMAIN v.cons = 1..n /\ DOMAIN w.cons = 1..n
        /\ OpenIn(w.cons) \subseteq 1..n /\ OpenIn(v.cons) = OpenIn(w.cons) \ {c}
    BY <1>1, <1>2, <1>3, <1>5, <1>7
  <2>6. QED
    BY <2>1, <2>2, <2>3, <2>4, <2>5, StructsEnd
<1>11. Waiting(v)
  <2>1. Waiting(w) /\ \A i \in 1..Len(w.backlog) : w.backlog[i] \in Clients
    BY <1>1, <1>2 DEF Sound
  <2>2. \A i \in 1..Len(w.backlog) : v.net[w.backlog[i]] = w.net[w.backlog[i]]
    BY <1>2, <1>5, <2>1 DEF Waiting
  <2>3. QED
    BY <1>3, <2>1, <2>2 DEF Waiting
<1>12. Bytes(v, cf)
  <2>1. Sum(v.cons, OpenIn(v.cons)) = v.buffered
    <3>1. w.buffered = Sum(w.cons, OpenIn(w.cons))
      BY <1>1 DEF Sound, Bytes
    <3>2. Sum(v.cons, OpenIn(w.cons) \ {c}) = Sum(w.cons, OpenIn(w.cons)) - w.cons[c].len
      <4> DEFINE cs == w.cons   ds == v.cons   S == OpenIn(cs)
      <4>1. n \in Nat /\ cs \in [1..n -> ConRec] /\ ds \in [1..n -> ConRec]
            /\ c \in 1..n /\ S \in SUBSET (1..n) /\ c \in S
        BY <1>1, <1>2, <1>3
      <4>2. SameLens(cs, ds, (1..n) \ {c})
        BY <1>5 DEF SameLens
      <4> HIDE DEF cs, ds, S
      <4>3. Sum(ds, S \ {c}) = Sum(cs, S) - cs[c].len
        BY <4>1, <4>2, SumChange
      <4>4. QED
        BY <4>3 DEF cs, ds, S
    <3>3. QED
      BY <1>3, <1>7, <3>1, <3>2
  <2>2. \A d \in DOMAIN v.cons \ OpenIn(v.cons) : v.cons[d] = FreshCon
    BY <1>1, <1>2, <1>5, <1>6, <1>7 DEF Sound, Bytes
  <2>3. v.buffered \in Int /\ v.buffered <= w.buffered
    BY <1>2, <1>3
  <2>4. v.buffered > 0 => Bounded(cf, v.buffered)
    <3>1. ASSUME v.buffered > 0
          PROVE  Bounded(cf, w.buffered)
      BY <1>1, <1>2, <2>3, <3>1 DEF Sound, Bytes, Bounded
    <3>2. QED
      BY <1>2, <2>3, <3>1, BoundedLess
  <2>5. QED
    BY <2>1, <2>2, <2>4 DEF Bytes, Bounded
<1>13. QED
  BY <1>4, <1>8, <1>9, <1>10, <1>11, <1>12 DEF Sound, v, n

-----------------------------------------------------------------------------
(* What a client receives.                                                 *)

\* One thing more was received.
LEMMA GotMore ==
  ASSUME NEW g \in Seq(Nat \X Nat), NEW z \in Nat \X Nat
  PROVE  /\ Append(g, z) \in Seq(Nat \X Nat) /\ Append(g, z) # <<>>
         /\ Len(Append(g, z)) = Len(g) + 1 /\ Len(g) \in Nat
         /\ \A i \in 1..Len(g) : Append(g, z)[i] = g[i]
         /\ Append(g, z)[Len(g) + 1] = z
BY AppendProperties, LenProperties

\* A unit that was in order is, when what comes after the last one is right.
LEMMA UnitStays ==
  ASSUME NEW s, NEW sent, NEW g, NEW h, NEW l \in Nat, Len(g) = l, Len(h) \in Nat, Len(h) > l,
         NEW n \in 1..l, UnitInOrder(s, sent, g, n), \A i \in 1..l : h[i] = g[i],
         \/ Whole(s, g[n])
         \/ h[n + 1] = <<g[n][1], g[n][2] + 1>>
         \/ h[n + 1] = Status(500) /\ n + 1 = Len(h)
  PROVE  UnitInOrder(s, sent, h, n)
<1>1. h[n] = g[n] /\ (n > 1 => h[n - 1] = g[n - 1]) /\ \A m \in 1..(n - 1) : h[m] = g[m]
  OBVIOUS
<1>2. SUFFICES ASSUME h[n][1] # 0
               PROVE  /\ h[n][1] \in 1..sent /\ h[n][1] \in DOMAIN s /\ s[h[n][1]].kind = "fetch"
                      /\ h[n][2] \in 1..s[h[n][1]].size
                      /\ h[n][2] > 1 => n > 1 /\ h[n - 1] = <<h[n][1], h[n][2] - 1>>
                      /\ h[n][2] < s[h[n][1]].size /\ n < Len(h) =>
                            \/ h[n + 1] = <<h[n][1], h[n][2] + 1>>
                            \/ h[n + 1] = Status(500) /\ n + 1 = Len(h)
                      /\ \A m \in 1..(n - 1) : h[m][1] <= h[n][1]
  BY DEF UnitInOrder
<1>3. /\ g[n][1] \in 1..sent /\ g[n][1] \in DOMAIN s /\ s[g[n][1]].kind = "fetch"
      /\ g[n][2] \in 1..s[g[n][1]].size
      /\ g[n][2] > 1 => n > 1 /\ g[n - 1] = <<g[n][1], g[n][2] - 1>>
      /\ \A m \in 1..(n - 1) : g[m][1] <= g[n][1]
  BY <1>1, <1>2 DEF UnitInOrder
<1>4. Whole(s, g[n]) => ~(h[n][2] < s[h[n][1]].size)
  BY <1>1, <1>2, <1>3 DEF Whole
<1>5. QED
  BY <1>1, <1>3, <1>4

\* A status ends what was received, or comes between two replies.
LEMMA StatusInOrder ==
  ASSUME NEW s, NEW k \in ClientRec, NEW code \in Nat, ClientInv(s, k), Unbroken(s, k.got),
         code = 500 \/ Settled(s, k.got)
  PROVE  /\ InOrder(s, k.sent, Append(k.got, Status(code)))
         /\ Append(k.got, Status(code)) \in Seq(Nat \X Nat)
         /\ Settled(s, Append(k.got, Status(code)))
         /\ Settled(s, k.got) => Unbroken(s, Append(k.got, Status(code)))
         /\ \A j \in 1..Len(k.inbox), n \in 1..Len(Append(k.got, Status(code))) :
               Append(k.got, Status(code))[n][1] < k.inbox[j]
<1> DEFINE g == k.got   z == Status(code)   h == Append(g, z)   l == Len(g)
<1>1. z \in Nat \X Nat /\ z[1] = 0
  BY DEF Status
<1>2. g \in Seq(Nat \X Nat) /\ k.inbox \in Seq(Nat) /\ k.sent \in Nat
  BY ClientTypes
<1>3. /\ h \in Seq(Nat \X Nat) /\ h # <<>> /\ Len(h) = l + 1 /\ l \in Nat
      /\ (\A i \in 1..l : h[i] = g[i]) /\ h[l + 1] = z
  BY <1>1, <1>2, GotMore
<1>4. \A n \in 1..Len(h) : n \in 1..l \/ n = l + 1
  <2> HIDE DEF h, l
  <2>1. QED
    BY <1>3
<1>5. ASSUME NEW n \in 1..l
      PROVE  \/ Whole(s, g[n])
             \/ h[n + 1] = <<g[n][1], g[n][2] + 1>>
             \/ h[n + 1] = Status(500) /\ n + 1 = Len(h)
  <2>1. CASE n = l
    <3>1. g # <<>>
      BY <1>2, <2>1
    <3>2. QED
      BY <1>3, <2>1, <3>1 DEF Settled
  <2>2. CASE n # l
    <3>1. n \in 1..(l - 1) /\ h[n + 1] = g[n + 1]
      BY <1>3, <2>2
    <3>2. QED
      BY <3>1 DEF Unbroken
  <2>3. QED
    BY <2>1, <2>2
<1>6. Whole(s, h[l + 1])
  BY <1>1, <1>3 DEF Whole
<1> HIDE DEF h, l, g, z
<1>7. InOrder(s, k.sent, h)
  <2> SUFFICES ASSUME NEW n \in 1..Len(h)
               PROVE  UnitInOrder(s, k.sent, h, n)
    BY DEF InOrder
  <2>1. CASE n \in 1..l
    <3>1. UnitInOrder(s, k.sent, g, n)
      BY <2>1 DEF ClientInv, InOrder, g, l
    <3>2. Len(g) = l /\ Len(h) \in Nat /\ Len(h) > l /\ l \in Nat /\ \A i \in 1..l : h[i] = g[i]
      BY <1>3 DEF l
    <3>3. \/ Whole(s, g[n])
          \/ h[n + 1] = <<g[n][1], g[n][2] + 1>>
          \/ h[n + 1] = Status(500) /\ n + 1 = Len(h)
      BY <1>5, <2>1
    <3>4. QED
      BY <2>1, <3>1, <3>2, <3>3, UnitStays
  <2>2. CASE n = l + 1
    BY <1>1, <1>3, <2>2 DEF UnitInOrder
  <2>3. QED
    BY <1>4, <2>1, <2>2
<1>8. Settled(s, h)
  BY <1>3, <1>6 DEF Settled
<1>9. ASSUME Settled(s, g)
      PROVE  Unbroken(s, h)
  <2> SUFFICES ASSUME NEW n \in 1..(Len(h) - 1)
               PROVE  Whole(s, h[n]) \/ h[n + 1] = <<h[n][1], h[n][2] + 1>>
    BY DEF Unbroken
  <2>1. n \in 1..l /\ h[n] = g[n]
    BY <1>3
  <2>2. CASE n = l
    <3>1. g # <<>>
      BY <1>2, <2>1, <2>2 DEF l, g
    <3>2. QED
      BY <1>9, <2>1, <2>2, <3>1 DEF Settled, l
  <2>3. CASE n # l
    <3>1. n \in 1..(l - 1) /\ h[n + 1] = g[n + 1]
      BY <1>3, <2>1, <2>3
    <3>2. QED
      BY <2>1, <3>1 DEF Unbroken, l, g
  <2>4. QED
    BY <2>2, <2>3
<1>10. ASSUME NEW j \in 1..Len(k.inbox), NEW n \in 1..Len(h)
       PROVE  h[n][1] < k.inbox[j]
  <2>1. Inbox(s, k)
    BY DEF ClientInv
  <2>2. CASE n \in 1..l
    BY <1>3, <2>1, <2>2 DEF Inbox, l, g
  <2>3. CASE n = l + 1
    <3>1. k.inbox[j] \in 1..k.sent
      BY <2>1 DEF Inbox
    <3>2. QED
      BY <1>1, <1>2, <1>3, <2>3, <3>1
  <2>4. QED
    BY <1>4, <2>2, <2>3
<1>11. QED
  BY <1>3, <1>7, <1>8, <1>9, <1>10 DEF g, h, z

\* n units more of the reply that is being sent
UnitsOf(x, n) == [i \in 1..n |-> <<x.reply, x.sent + i>>]

\* h is g and the n units of reply r that follow unit a.
Extended(g, h, n, r, a) ==
    /\ g \in Seq(Nat \X Nat) /\ h \in Seq(Nat \X Nat) /\ Len(h) = Len(g) + n
    /\ \A i \in 1..Len(g) : h[i] = g[i]
    /\ \A i \in 1..n : h[Len(g) + i] = <<r, a + i>>

\* A client that has received g may be sent n units of reply r, which follow unit a.
MayFollow(s, sent, g, n, r, a) ==
    /\ r \in 1..sent /\ r \in DOMAIN s /\ s[r].kind = "fetch"
    /\ s[r].size \in Nat /\ a + n <= s[r].size
    /\ \A m \in 1..Len(g) : g[m][1] <= r
    /\ a > 0 => g # <<>> /\ g[Len(g)] = <<r, a>>
    /\ a = 0 => Settled(s, g)
    /\ Unbroken(s, g)

\* The units are appended.
LEMMA UnitsAppended ==
  ASSUME NEW g \in Seq(Nat \X Nat), NEW x \in ConRec, NEW n \in Nat
  PROVE  Extended(g, g \o UnitsOf(x, n), n, x.reply, x.sent)
<1> DEFINE t == UnitsOf(x, n)   h == g \o t   r == x.reply   a == x.sent
<1>1. r \in Nat /\ a \in Nat
  BY ConTypes
<1>2. t \in Seq(Nat \X Nat) /\ Len(t) = n /\ \A i \in 1..n : t[i] = <<r, a + i>>
  <2>1. t = [i \in 1..n |-> <<r, a + i>>]
    BY DEF UnitsOf
  <2> HIDE DEF t, r, a
  <2>2. \A i \in 1..n : <<r, a + i>> \in Nat \X Nat
    BY <1>1
  <2>3. QED
    BY <2>1, <2>2
<1> HIDE DEF t, r, a
<1>3. /\ h \in Seq(Nat \X Nat) /\ Len(h) = Len(g) + n /\ Len(g) \in Nat
      /\ \A i \in 1..(Len(g) + n) : h[i] = IF i <= Len(g) THEN g[i] ELSE t[i - Len(g)]
  BY <1>2, ConcatProperties, LenProperties
<1> DEFINE l == Len(g)
<1> HIDE DEF h, l
<1>4. l \in Nat /\ \A i \in 1..(l + n) : h[i] = IF i <= l THEN g[i] ELSE t[i - l]
  BY <1>3 DEF l
<1>5. ASSUME NEW i \in 1..l
      PROVE  h[i] = g[i]
  <2>1. i \in 1..(l + n) /\ i <= l
    BY <1>4
  <2>2. QED
    BY <1>4, <2>1
<1>6. ASSUME NEW i \in 1..n
      PROVE  h[l + i] = <<r, a + i>>
  <2>1. l + i \in 1..(l + n) /\ ~(l + i <= l) /\ (l + i) - l = i
    BY <1>4
  <2>2. h[l + i] = t[i]
    BY <1>4, <2>1
  <2>3. QED
    BY <1>2, <2>2
<1>7. QED
  BY <1>3, <1>5, <1>6 DEF Extended, h, t, l, r, a

\* The places of h.
LEMMA Places ==
  ASSUME NEW l \in Nat, NEW n \in Nat, NEW m \in 1..(l + n)
  PROVE  m \in 1..l \/ (m - l \in 1..n /\ m = l + (m - l) /\ ~(m \in 1..l))
OBVIOUS

\* Replies come in the order of their requests.
LEMMA UnitsBelow ==
  ASSUME NEW s, NEW sent, NEW g, NEW h, NEW n \in Nat, NEW r \in Nat, NEW a \in Nat,
         Extended(g, h, n, r, a), MayFollow(s, sent, g, n, r, a)
  PROVE  \A m \in 1..Len(h) : h[m][1] <= r
<1> DEFINE l == Len(g)
<1>1. l \in Nat /\ Len(h) = l + n
  BY LenProperties DEF Extended
<1>2. \A i \in 1..l : h[i] = g[i] /\ g[i][1] <= r
  BY DEF Extended, MayFollow
<1>3. \A i \in 1..n : h[l + i] = <<r, a + i>>
  BY DEF Extended
<1> HIDE DEF l
<1>4. ASSUME NEW m \in 1..(l + n)
      PROVE  h[m][1] <= r
  <2>1. CASE m \in 1..l
    BY <1>2, <2>1
  <2>2. CASE m - l \in 1..n /\ m = l + (m - l)
    <3>1. h[m] = <<r, a + (m - l)>>
      BY <1>3, <2>2
    <3>2. QED
      BY <3>1
  <2>3. QED
    BY <1>1, <2>1, <2>2, Places
<1>5. QED
  BY <1>1, <1>4

\* Every unit of h but the last is followed by the next one, or is the end of its reply.
LEMMA UnitsUnbroken ==
  ASSUME NEW s, NEW sent, NEW g, NEW h, NEW n \in Nat, NEW r \in Nat, NEW a \in Nat,
         Extended(g, h, n, r, a), MayFollow(s, sent, g, n, r, a)
  PROVE  Unbroken(s, h)
<1> DEFINE l == Len(g)
<1>1. l \in Nat /\ Len(h) = l + n
  BY LenProperties DEF Extended
<1>2. \A i \in 1..l : h[i] = g[i]
  BY DEF Extended
<1>3. \A i \in 1..n : h[l + i] = <<r, a + i>>
  BY DEF Extended
<1>4. \A i \in 1..(l - 1) : Whole(s, g[i]) \/ g[i + 1] = <<g[i][1], g[i][2] + 1>>
  BY DEF MayFollow, Unbroken
<1>5. l > 0 => g # <<>>
  OBVIOUS
<1>6. (a > 0 => g[l] = <<r, a>>) /\ (l > 0 /\ a = 0 => Whole(s, g[l]))
  BY <1>5 DEF MayFollow, Settled
<1> HIDE DEF l
<1>7. ASSUME NEW m \in 1..(l + n), m < l + n
      PROVE  Whole(s, h[m]) \/ h[m + 1] = <<h[m][1], h[m][2] + 1>>
  <2>1. CASE m \in 1..l /\ m < l
    <3>1. m \in 1..(l - 1) /\ m + 1 \in 1..l
      BY <1>1, <2>1
    <3>2. QED
      BY <1>2, <1>4, <2>1, <3>1
  <2>2. CASE m = l
    <3>1. l > 0 /\ l \in 1..l /\ 1 \in 1..n
      BY <1>1, <1>7, <2>2
    <3>2. h[l] = g[l] /\ h[l + 1] = <<r, a + 1>>
      BY <1>2, <1>3, <3>1
    <3>3. CASE a = 0
      BY <1>6, <2>2, <3>1, <3>2, <3>3
    <3>4. CASE a > 0
      BY <1>6, <2>2, <3>2, <3>4
    <3>5. QED
      BY <3>3, <3>4
  <2>3. CASE m - l \in 1..n /\ m = l + (m - l)
    <3> DEFINE i == m - l
    <3>1. i \in 1..n /\ i + 1 \in 1..n /\ m = l + i /\ m + 1 = l + (i + 1)
      BY <1>1, <1>7, <2>3
    <3> HIDE DEF i
    <3>2. h[m] = <<r, a + i>> /\ h[m + 1] = <<r, a + (i + 1)>>
      BY <1>3, <3>1
    <3>3. a + (i + 1) = (a + i) + 1
      BY <3>1
    <3>4. QED
      BY <3>2, <3>3
  <2>4. QED
    <3>1. m \in 1..l => m < l \/ m = l
      BY <1>1
    <3>2. QED
      BY <1>1, <2>1, <2>2, <2>3, <3>1, Places
<1>8. \A m \in 1..(Len(h) - 1) : m \in 1..(l + n) /\ m < l + n
  BY <1>1
<1>9. QED
  BY <1>7, <1>8 DEF Unbroken

\* A new unit is in order.
LEMMA UnitNew ==
  ASSUME NEW s, NEW sent, NEW g, NEW h, NEW n \in Nat, NEW r \in Nat, NEW a \in Nat,
         Extended(g, h, n, r, a), MayFollow(s, sent, g, n, r, a), NEW i \in 1..n
  PROVE  UnitInOrder(s, sent, h, Len(g) + i)
<1> DEFINE l == Len(g)   m == l + i
<1>1. l \in Nat /\ Len(h) = l + n
  BY LenProperties DEF Extended
<1>2. \A j \in 1..n : h[l + j] = <<r, a + j>>
  BY DEF Extended
<1>3. h[m] = <<r, a + i>>
  BY <1>2
<1>4. r \in 1..sent /\ r \in DOMAIN s /\ s[r].kind = "fetch" /\ a + i \in 1..s[r].size
  <2>1. r \in 1..sent /\ r \in DOMAIN s /\ s[r].kind = "fetch" /\ s[r].size \in Nat /\ a + n <= s[r].size
    BY DEF MayFollow
  <2> DEFINE z == s[r].size
  <2>2. z \in Nat /\ a + n <= z
    BY <2>1
  <2> HIDE DEF z
  <2>3. a + i \in 1..z
    BY <2>2
  <2>4. QED
    BY <2>1, <2>3 DEF z
<1>5. a > 0 /\ l \in 1..l => h[l] = <<r, a>>
  BY DEF Extended, MayFollow
<1>6. a > 0 => l # 0
  BY DEF Extended, MayFollow
<1> HIDE DEF l
<1>7. a + i > 1 => m > 1 /\ h[m - 1] = <<r, (a + i) - 1>>
  <2>1. CASE i = 1
    <3>1. a + i > 1 => a > 0 /\ l \in 1..l /\ m - 1 = l /\ m > 1 /\ (a + i) - 1 = a
      BY <1>1, <1>6, <2>1
    <3>2. QED
      BY <1>5, <3>1
  <2>2. CASE i # 1
    <3>1. i - 1 \in 1..n /\ m - 1 = l + (i - 1) /\ m > 1 /\ a + (i - 1) = (a + i) - 1
      BY <1>1, <2>2
    <3>2. h[l + (i - 1)] = <<r, a + (i - 1)>>
      BY <1>2, <3>1
    <3> HIDE DEF m
    <3>3. QED
      BY <3>1, <3>2
  <2>3. QED
    BY <2>1, <2>2
<1>8. m < Len(h) => h[m + 1] = <<r, (a + i) + 1>>
  <2>1. m < Len(h) => i + 1 \in 1..n /\ m + 1 = l + (i + 1)
    BY <1>1
  <2>2. a + (i + 1) = (a + i) + 1
    OBVIOUS
  <2> HIDE DEF m
  <2>3. QED
    BY <1>2, <2>1, <2>2
<1>9. \A p \in 1..(m - 1) : h[p][1] <= r
  <2>1. \A p \in 1..(m - 1) : p \in 1..Len(h)
    BY <1>1
  <2>2. QED
    BY <2>1, UnitsBelow
<1> HIDE DEF m
<1>10. h[m][1] = r /\ h[m][2] = a + i
  BY <1>3
<1>11. UnitInOrder(s, sent, h, m)
  BY <1>4, <1>7, <1>8, <1>9, <1>10 DEF UnitInOrder
<1>12. QED
  BY <1>11 DEF m, l

\* Everything is in order.
LEMMA AllInOrder ==
  ASSUME NEW s, NEW sent, NEW g, NEW h, NEW n \in Nat, NEW r \in Nat, NEW a \in Nat,
         Extended(g, h, n, r, a), MayFollow(s, sent, g, n, r, a), InOrder(s, sent, g)
  PROVE  InOrder(s, sent, h)
<1> DEFINE l == Len(g)
<1>1. l \in Nat /\ Len(h) = l + n
  BY LenProperties DEF Extended
<1>2. \A i \in 1..l : h[i] = g[i]
  BY DEF Extended
<1>3. \A m \in 1..l : UnitInOrder(s, sent, g, m)
  BY DEF InOrder
<1> HIDE DEF l
<1>4. SUFFICES ASSUME NEW m \in 1..(l + n)
               PROVE  UnitInOrder(s, sent, h, m)
  BY <1>1 DEF InOrder
<1>5. CASE m \in 1..l /\ n > 0
  <2>1. m \in 1..(Len(h) - 1) /\ Len(h) > l /\ Len(h) \in Nat /\ h[m] = g[m]
    BY <1>1, <1>2, <1>5
  <2>2. Whole(s, h[m]) \/ h[m + 1] = <<h[m][1], h[m][2] + 1>>
    <3>1. Unbroken(s, h)
      BY UnitsUnbroken
    <3>2. QED
      BY <2>1, <3>1 DEF Unbroken
  <2>3. Whole(s, g[m]) \/ h[m + 1] = <<g[m][1], g[m][2] + 1>>
    BY <2>1, <2>2
  <2>4. Len(g) = l
    BY DEF l
  <2>5. QED
    BY <1>1, <1>2, <1>3, <1>5, <2>1, <2>3, <2>4, UnitStays
<1>6. CASE n = 0
  <2>1. h = g
    <3>1. g \in Seq(Nat \X Nat) /\ h \in Seq(Nat \X Nat)
      BY DEF Extended
    <3>2. Len(h) = Len(g) /\ \A i \in 1..Len(h) : h[i] = g[i]
      BY <1>1, <1>2, <1>6 DEF l
    <3>3. QED
      BY <3>1, <3>2, SeqEqual
  <2>2. m \in 1..l
    BY <1>1, <1>6
  <2>3. QED
    BY <1>3, <2>1, <2>2
<1>7. CASE m - l \in 1..n /\ m = l + (m - l)
  <2>1. UnitInOrder(s, sent, h, l + (m - l))
    BY <1>7, UnitNew DEF l
  <2>2. QED
    BY <1>7, <2>1
<1>8. QED
  <2>1. n = 0 \/ n > 0
    OBVIOUS
  <2>2. QED
    BY <1>1, <1>5, <1>6, <1>7, <2>1, Places

\* The units continue what was received.
LEMMA UnitsInOrder ==
  ASSUME NEW s \in Script, NEW k \in ClientRec, NEW x \in ConRec, ClientInv(s, k), Tie(s, k, x),
         x.len > 0, NEW n \in 0..(x.len - x.sent)
  PROVE  LET h == k.got \o UnitsOf(x, n) IN
         /\ h \in Seq(Nat \X Nat)
         /\ InOrder(s, k.sent, h) /\ Unbroken(s, h)
         /\ \A m \in 1..Len(h) : h[m][1] <= x.reply
         /\ \A j \in 1..Len(k.inbox), m \in 1..Len(h) : h[m][1] < k.inbox[j]
         /\ x.sent + n > 0 => h # <<>> /\ h[Len(h)] = <<x.reply, x.sent + n>>
         /\ x.sent + n = 0 => Settled(s, h)
<1> DEFINE g == k.got   h == g \o UnitsOf(x, n)   r == x.reply   a == x.sent
<1>1. /\ g \in Seq(Nat \X Nat) /\ k.inbox \in Seq(Nat) /\ k.sent \in Nat
      /\ r \in Nat /\ a \in Nat /\ x.len \in Nat
  BY ClientTypes, ConTypes
<1>2. n \in Nat /\ a + n <= x.len
  BY <1>1
<1>3. Extended(g, h, n, r, a)
  BY <1>1, <1>2, UnitsAppended
<1>4. MayFollow(s, k.sent, g, n, r, a)
  <2>1. /\ Unbroken(s, g) /\ r \in 1..k.sent /\ s[r].kind = "fetch" /\ x.len = s[r].size
        /\ \A m \in 1..Len(g) : g[m][1] <= r
        /\ a > 0 => g # <<>> /\ g[Len(g)] = <<r, a>>
        /\ a = 0 => Settled(s, g)
    BY DEF Tie
  <2>2. r \in DOMAIN s
    BY <1>1, <2>1 DEF ClientInv, Script
  <2>3. s[r].size \in Nat /\ a + n <= s[r].size
    BY <1>1, <1>2, <2>1
  <2>4. QED
    BY <2>1, <2>2, <2>3 DEF MayFollow
<1>5. InOrder(s, k.sent, g)
  BY DEF ClientInv
<1>6. \A j \in 1..Len(k.inbox) : r < k.inbox[j]
  BY DEF Tie
<1> HIDE DEF g, h, r, a
<1>7. /\ h \in Seq(Nat \X Nat) /\ InOrder(s, k.sent, h)
      /\ \A m \in 1..Len(h) : h[m][1] <= r
  <2>1. h \in Seq(Nat \X Nat)
    BY <1>3 DEF Extended
  <2>2. InOrder(s, k.sent, h)
    BY <1>1, <1>2, <1>3, <1>4, <1>5, AllInOrder
  <2>3. \A m \in 1..Len(h) : h[m][1] <= r
    BY <1>1, <1>2, <1>3, <1>4, UnitsBelow
  <2>4. QED
    BY <2>1, <2>2, <2>3
<1>8. Unbroken(s, h)
  BY <1>1, <1>2, <1>3, <1>4, UnitsUnbroken
<1>9. ASSUME NEW j \in 1..Len(k.inbox), NEW m \in 1..Len(h)
      PROVE  h[m][1] < k.inbox[j]
  <2>1. h[m][1] <= r /\ r < k.inbox[j]
    BY <1>6, <1>7
  <2>2. h[m][1] \in Nat /\ k.inbox[j] \in Nat
    <3>1. h[m] \in Nat \X Nat
      BY <1>7, ElementOfSeq
    <3>2. k.inbox[j] \in Nat
      BY <1>1, ElementOfSeq
    <3>3. QED
      BY <3>1, <3>2
  <2> DEFINE p == h[m][1]   q == k.inbox[j]
  <2>3. p \in Nat /\ q \in Nat /\ p <= r /\ r < q
    BY <2>1, <2>2
  <2> HIDE DEF p, q
  <2>4. p < q
    BY <1>1, <2>3
  <2>5. QED
    BY <2>4 DEF p, q
<1>10. a + n > 0 => h # <<>> /\ h[Len(h)] = <<r, a + n>>
  <2>1. CASE n > 0
    <3>1. n \in 1..n /\ Len(h) = Len(g) + n /\ Len(g) \in Nat
      BY <1>1, <1>2, <1>3, <2>1, LenProperties DEF Extended
    <3>2. h[Len(g) + n] = <<r, a + n>>
      BY <1>3, <3>1 DEF Extended
    <3>3. Len(h) > 0
      BY <2>1, <3>1
    <3>4. h # <<>>
      BY <3>3
    <3>5. QED
      BY <3>1, <3>2, <3>4
  <2>2. CASE n = 0
    <3>1. h = g
      <4>1. Len(h) = Len(g) /\ \A i \in 1..Len(h) : h[i] = g[i]
        BY <1>1, <1>3, <2>2, LenProperties DEF Extended
      <4>2. QED
        BY <1>1, <1>7, <4>1, SeqEqual
    <3>2. a + n = a
      BY <1>1, <2>2
    <3>3. QED
      BY <1>4, <3>1, <3>2 DEF MayFollow
  <2>3. QED
    BY <1>2, <2>1, <2>2
<1>11. a + n = 0 => Settled(s, h)
  <2>1. a + n = 0 => a = 0 /\ n = 0
    BY <1>1, <1>2
  <2>2. CASE n = 0
    <3>1. Len(h) = Len(g) /\ \A i \in 1..Len(h) : h[i] = g[i]
      BY <1>1, <1>3, <2>2, LenProperties DEF Extended
    <3>2. h = g
      BY <1>1, <1>7, <3>1, SeqEqual
    <3>3. QED
      BY <1>4, <2>1, <3>2 DEF MayFollow
  <2>3. QED
    BY <2>1, <2>2
<1>12. QED
  BY <1>7, <1>8, <1>9, <1>10, <1>11 DEF h, g, r, a

-----------------------------------------------------------------------------
(* The handlers of one connection.                                         *)

\* The world is sound, and c is a connection.
At(w, c) == config \in Configs /\ Sound(w, config) /\ c \in 1..config.structs

\* ... which is open
OpenAt(w, c) == At(w, c) /\ w.cons[c].open

\* What is known of an open connection and its client.
LEMMA OpenFacts ==
  ASSUME NEW w, NEW c, OpenAt(w, c)
  PROVE  /\ config \in Configs /\ Sound(w, config) /\ config.structs \in Nat
         /\ c \in 1..config.structs /\ w.cons[c].open
         /\ w \in Worlds(config.structs)
         /\ w.cons[c] \in ConRec /\ w.cons[c].client \in Clients
         /\ w.net[w.cons[c].client] \in ClientRec /\ w.net[w.cons[c].client].status = "open"
         /\ config.script[w.cons[c].client] \in Script
         /\ ClientInv(config.script[w.cons[c].client], w.net[w.cons[c].client])
         /\ Tie(config.script[w.cons[c].client], w.net[w.cons[c].client], w.cons[c])
<1>1. config \in Configs /\ Sound(w, config) /\ c \in 1..config.structs /\ w.cons[c].open
  BY DEF OpenAt, At
<1>2. config.structs \in Nat /\ w \in Worlds(config.structs)
  BY <1>1, ConfigTypes DEF Sound
<1>3. /\ w.cons[c] \in ConRec /\ w.cons[c].client \in Clients
      /\ w.net[w.cons[c].client] \in ClientRec /\ w.net[w.cons[c].client].status = "open"
      /\ config.script[w.cons[c].client] \in Script
      /\ ClientInv(config.script[w.cons[c].client], w.net[w.cons[c].client])
      /\ Tie(config.script[w.cons[c].client], w.net[w.cons[c].client], w.cons[c])
  BY <1>1, OpenTypes
<1>4. QED
  BY <1>1, <1>2, <1>3

\* A connection that is not open is as after memset.
LEMMA ClosedIsFresh ==
  ASSUME NEW w, NEW c, At(w, c), ~w.cons[c].open
  PROVE  w.cons[c] = FreshCon
<1>1. w.cons \in [1..config.structs -> ConRec]
  BY WorldTypes, ConfigTypes DEF At, Sound
<1>2. c \in DOMAIN w.cons \ OpenIn(w.cons)
  BY <1>1 DEF At, OpenIn
<1>3. QED
  BY <1>2 DEF At, Sound, Bytes

\* How a world is updated.
LEMMA WorldForms ==
  ASSUME NEW o, NEW p, NEW q, NEW s, NEW b, NEW e, NEW i, NEW v,
         NEW w, w = [net |-> o, backlog |-> p, cons |-> q, stack |-> s, buffered |-> b, exit |-> e]
  PROVE  /\ [w EXCEPT !.net[i] = v] =
              [net |-> [o EXCEPT ![i] = v], backlog |-> p, cons |-> q, stack |-> s, buffered |-> b, exit |-> e]
         /\ [w EXCEPT !.backlog = v] =
              [net |-> o, backlog |-> v, cons |-> q, stack |-> s, buffered |-> b, exit |-> e]
         /\ [w EXCEPT !.cons[i] = v] =
              [net |-> o, backlog |-> p, cons |-> [q EXCEPT ![i] = v], stack |-> s, buffered |-> b, exit |-> e]
         /\ [w EXCEPT !.stack = v] =
              [net |-> o, backlog |-> p, cons |-> q, stack |-> v, buffered |-> b, exit |-> e]
         /\ [w EXCEPT !.buffered = v] =
              [net |-> o, backlog |-> p, cons |-> q, stack |-> s, buffered |-> v, exit |-> e]
         /\ [w EXCEPT !.exit = v] =
              [net |-> o, backlog |-> p, cons |-> q, stack |-> s, buffered |-> b, exit |-> v]
OBVIOUS

\* A world with an open connection, in parts.
LEMMA OpenForm ==
  ASSUME NEW w, NEW c, OpenAt(w, c)
  PROVE  /\ w = [net |-> w.net, backlog |-> w.backlog, cons |-> w.cons, stack |-> w.stack,
                 buffered |-> w.buffered, exit |-> w.exit]
         /\ [w.net EXCEPT ![w.cons[c].client] = w.net[w.cons[c].client]] = w.net
         /\ [w.cons EXCEPT ![c] = w.cons[c]] = w.cons
<1>1. /\ config.structs \in Nat /\ w \in Worlds(config.structs)
      /\ w.cons[c].client \in Clients /\ c \in 1..config.structs
  BY OpenFacts
<1>2. QED
  BY <1>1, WorldTypes

\* How the handlers write a step of a connection,
LEMMA PutCon ==
  ASSUME NEW w, NEW c, OpenAt(w, c), NEW x
  PROVE  [w EXCEPT !.cons[c] = x] = Put(w, c, w.net[w.cons[c].client], x, w.buffered)
<1> DEFINE k == w.cons[c].client
           o == w.net  p == w.backlog  q == w.cons  s == w.stack  u == w.buffered  e == w.exit
<1>1. w = [net |-> o, backlog |-> p, cons |-> q, stack |-> s, buffered |-> u, exit |-> e]
  BY OpenForm
<1>2. [o EXCEPT ![k] = o[k]] = o /\ [q EXCEPT ![c] = q[c]] = q
  BY OpenForm
<1> HIDE DEF o, p, q, s, u, e, k
<1> DEFINE qx == [q EXCEPT ![c] = x]
<1>3. [w EXCEPT !.cons[c] = x] = [net |-> o, backlog |-> p, cons |-> qx, stack |-> s, buffered |-> u, exit |-> e]
  BY <1>1
<1>4. QED
  BY <1>2, <1>3, Zenon DEF Put, qx, k, o, p, q, s, u, e

\* ... of its client,
LEMMA PutNet ==
  ASSUME NEW w, NEW c, OpenAt(w, c), NEW y
  PROVE  [w EXCEPT !.net[w.cons[c].client] = y] = Put(w, c, y, w.cons[c], w.buffered)
<1> DEFINE k == w.cons[c].client
           o == w.net  p == w.backlog  q == w.cons  s == w.stack  u == w.buffered  e == w.exit
<1>1. w = [net |-> o, backlog |-> p, cons |-> q, stack |-> s, buffered |-> u, exit |-> e]
  BY OpenForm
<1>2. [o EXCEPT ![k] = o[k]] = o /\ [q EXCEPT ![c] = q[c]] = q
  BY OpenForm
<1> HIDE DEF o, p, q, s, u, e, k
<1> DEFINE oy == [o EXCEPT ![k] = y]
<1>3. [w EXCEPT !.net[k] = y] = [net |-> oy, backlog |-> p, cons |-> q, stack |-> s, buffered |-> u, exit |-> e]
  BY <1>1
<1>4. QED
  BY <1>2, <1>3, Zenon DEF Put, oy, k, o, p, q, s, u, e

\* ... of both,
BothPut(w, c, x, y) == [[w EXCEPT !.net[w.cons[c].client] = y] EXCEPT !.cons[c] = x]

\* ... which is the step,
LEMMA PutBoth ==
  ASSUME NEW w, NEW c, OpenAt(w, c), NEW x, NEW y
  PROVE  BothPut(w, c, x, y) = Put(w, c, y, x, w.buffered)
<1> DEFINE k == w.cons[c].client
           o == w.net  p == w.backlog  q == w.cons  s == w.stack  u == w.buffered  e == w.exit
<1>1. w = [net |-> o, backlog |-> p, cons |-> q, stack |-> s, buffered |-> u, exit |-> e]
  BY OpenForm
<1>2. [o EXCEPT ![k] = o[k]] = o /\ [q EXCEPT ![c] = q[c]] = q
  BY OpenForm
<1> HIDE DEF o, p, q, s, u, e, k
<1> DEFINE oy == [o EXCEPT ![k] = y]   qx == [q EXCEPT ![c] = x]
           v == [w EXCEPT !.net[k] = y]
<1>3. v = [net |-> oy, backlog |-> p, cons |-> q, stack |-> s, buffered |-> u, exit |-> e]
  BY <1>1
<1> HIDE DEF v, oy
<1>4. [v EXCEPT !.cons[c] = x] = [net |-> oy, backlog |-> p, cons |-> qx, stack |-> s, buffered |-> u, exit |-> e]
  BY <1>3
<1>5. QED
  BY <1>4, Zenon DEF BothPut, Put, oy, qx, v, k, o, p, q, s, u, e

\* ... of the connection and the count of bytes,
BytesPut(w, c, x, b) == [[w EXCEPT !.buffered = b] EXCEPT !.cons[c] = x]

\* ... which is the step,
LEMMA PutBytes ==
  ASSUME NEW w, NEW c, OpenAt(w, c), NEW x, NEW b
  PROVE  BytesPut(w, c, x, b) = Put(w, c, w.net[w.cons[c].client], x, b)
<1> DEFINE k == w.cons[c].client
           o == w.net  p == w.backlog  q == w.cons  s == w.stack  u == w.buffered  e == w.exit
<1>1. w = [net |-> o, backlog |-> p, cons |-> q, stack |-> s, buffered |-> u, exit |-> e]
  BY OpenForm
<1>2. [o EXCEPT ![k] = o[k]] = o /\ [q EXCEPT ![c] = q[c]] = q
  BY OpenForm
<1> HIDE DEF o, p, q, s, u, e, k
<1> DEFINE qx == [q EXCEPT ![c] = x]
           v == [w EXCEPT !.buffered = b]
<1>3. v = [net |-> o, backlog |-> p, cons |-> q, stack |-> s, buffered |-> b, exit |-> e]
  BY <1>1
<1> HIDE DEF v
<1>4. [v EXCEPT !.cons[c] = x] = [net |-> o, backlog |-> p, cons |-> qx, stack |-> s, buffered |-> b, exit |-> e]
  BY <1>3
<1>5. QED
  BY <1>2, <1>4, Zenon DEF BytesPut, Put, qx, v, k, o, p, q, s, u, e

\* ... and the end of it.
LEMMA EndForm ==
  ASSUME NEW n \in Nat, NEW w \in Worlds(n), NEW c, NEW y, NEW k, k = w.cons[c].client
  PROVE  [[[[w EXCEPT !.net[k] = y] EXCEPT !.buffered = w.buffered - w.cons[c].len]
              EXCEPT !.cons[c] = FreshCon] EXCEPT !.stack = Append(w.stack, c)] = End(w, c, y)
<1> DEFINE o == w.net  p == w.backlog  q == w.cons  s == w.stack  u == w.buffered  e == w.exit
           oy == [o EXCEPT ![k] = y]  qx == [q EXCEPT ![c] = FreshCon]
           less == w.buffered - w.cons[c].len   more == Append(w.stack, c)
           v1 == [w EXCEPT !.net[k] = y]
           v2 == [v1 EXCEPT !.buffered = less]
           v3 == [v2 EXCEPT !.cons[c] = FreshCon]
           v4 == [v3 EXCEPT !.stack = more]
<1>1. w = [net |-> o, backlog |-> p, cons |-> q, stack |-> s, buffered |-> u, exit |-> e]
  BY WorldTypes
<1> HIDE DEF o, p, q, s, u, e, less, more
<1>2. v1 = [net |-> oy, backlog |-> p, cons |-> q, stack |-> s, buffered |-> u, exit |-> e]
  BY <1>1, WorldForms
<1> HIDE DEF v1, oy
<1>3. v2 = [net |-> oy, backlog |-> p, cons |-> q, stack |-> s, buffered |-> less, exit |-> e]
  BY <1>2, WorldForms
<1> HIDE DEF v2
<1>4. v3 = [net |-> oy, backlog |-> p, cons |-> qx, stack |-> s, buffered |-> less, exit |-> e]
  BY <1>3, WorldForms
<1> HIDE DEF v3, qx
<1>5. v4 = [net |-> oy, backlog |-> p, cons |-> qx, stack |-> more, buffered |-> less, exit |-> e]
  BY <1>4, WorldForms
<1>6. QED
  BY <1>5, Zenon DEF End, v1, v2, v3, v4, oy, qx, o, p, q, s, u, e, less, more

\* A client that is rid of what it sent.
LEMMA NoInbox ==
  ASSUME NEW s, NEW k \in ClientRec, ClientInv(s, k), NEW y,
         y = [status |-> k.status, sent |-> k.sent, inbox |-> <<>>, gone |-> k.gone, room |-> k.room,
              got |-> k.got]
         \/ y = [status |-> "closed", sent |-> k.sent, inbox |-> <<>>, gone |-> k.gone, room |-> k.room,
                 got |-> k.got]
  PROVE  y \in ClientRec /\ ClientInv(s, y)
<1>1. /\ k.status \in {"new", "queued", "open", "closed"} /\ k.sent \in Nat
      /\ k.gone \in {"no", "half", "reset"} /\ k.room \in BOOLEAN /\ k.got \in Seq(Nat \X Nat)
  BY ClientTypes
<1>2. /\ y.inbox = <<>> /\ y.sent = k.sent /\ y.got = k.got /\ Len(y.inbox) = 0
      /\ y.status = k.status \/ y.status = "closed"
  OBVIOUS
<1>3. y \in ClientRec
  <2>1. \A st \in {"new", "queued", "open", "closed"} :
           [status |-> st, sent |-> k.sent, inbox |-> <<>>, gone |-> k.gone, room |-> k.room,
            got |-> k.got] \in ClientRec
    BY <1>1 DEF ClientRec
  <2>2. QED
    BY <1>1, <2>1
<1>4. Inbox(s, y)
  BY <1>2 DEF Inbox
<1>5. ClientInv(s, y)
  BY <1>2, <1>4 DEF ClientInv
<1>6. QED
  BY <1>3, <1>5

\* A client whose connection was closed.
Gone(k) == [[k EXCEPT !.status = "closed"] EXCEPT !.inbox = <<>>]

\* What was known of it still is.
LEMMA GoneInv ==
  ASSUME NEW s, NEW k \in ClientRec, ClientInv(s, k)
  PROVE  Gone(k) \in ClientRec /\ Gone(k).status = "closed" /\ ClientInv(s, Gone(k))
<1> DEFINE a == k.status  b == k.sent  d == k.inbox  e == k.gone  f == k.room  g == k.got
           z == [k EXCEPT !.status = "closed"]   y == [z EXCEPT !.inbox = <<>>]
<1>1. k = [status |-> a, sent |-> b, inbox |-> d, gone |-> e, room |-> f, got |-> g]
  BY ClientTypes
<1> HIDE DEF a, b, d, e, f, g
<1>2. z = [status |-> "closed", sent |-> b, inbox |-> d, gone |-> e, room |-> f, got |-> g]
  BY <1>1
<1> HIDE DEF z
<1>3. y = [status |-> "closed", sent |-> b, inbox |-> <<>>, gone |-> e, room |-> f, got |-> g]
  BY <1>2
<1> HIDE DEF y
<1>4. y = [status |-> "closed", sent |-> k.sent, inbox |-> <<>>, gone |-> k.gone, room |-> k.room,
           got |-> k.got]
  BY <1>3 DEF b, e, f, g
<1>5. y \in ClientRec /\ ClientInv(s, y)
  BY <1>4, NoInbox
<1>6. y.status = "closed"
  BY <1>3
<1>7. QED
  BY <1>5, <1>6 DEF Gone, y, z

\* How apiCloseCon is written.
LEMMA CloseForm ==
  ASSUME NEW n \in Nat, NEW w \in Worlds(n), NEW c, w.cons[c].open
  PROVE  CloseCon(w, c) = End(w, c, Gone(w.net[w.cons[c].client]))
<1> DEFINE k == w.cons[c].client   y == Gone(w.net[k])
<1>1. CloseCon(w, c) = [[[[w EXCEPT !.net[k] = y] EXCEPT !.buffered = w.buffered - w.cons[c].len]
                          EXCEPT !.cons[c] = FreshCon] EXCEPT !.stack = Append(w.stack, c)]
  BY DEF CloseCon, Gone
<1> HIDE DEF y, k
<1>2. \A z : [[[[w EXCEPT !.net[k] = z] EXCEPT !.buffered = w.buffered - w.cons[c].len]
                EXCEPT !.cons[c] = FreshCon] EXCEPT !.stack = Append(w.stack, c)] = End(w, c, z)
  BY EndForm DEF k
<1>3. QED
  BY <1>1, <1>2, Zenon DEF y, k

\* apiCloseCon
LEMMA CloseSound ==
  ASSUME NEW w, NEW c, At(w, c)
  PROVE  Sound(CloseCon(w, c), config) /\ CloseCon(w, c).backlog = w.backlog
<1>1. CASE ~w.cons[c].open
  BY <1>1 DEF CloseCon, At
<1>2. CASE w.cons[c].open
  <2> DEFINE k == w.cons[c].client   y == Gone(w.net[k])
  <2>1. OpenAt(w, c)
    BY <1>2 DEF OpenAt
  <2>2. /\ config.structs \in Nat /\ w \in Worlds(config.structs) /\ c \in 1..config.structs
        /\ k \in Clients /\ w.net[k] \in ClientRec /\ ClientInv(config.script[k], w.net[k])
        /\ Sound(w, config) /\ config \in Configs
    BY <2>1, OpenFacts
  <2>3. y \in ClientRec /\ y.status = "closed" /\ ClientInv(config.script[k], y)
    BY <2>2, GoneInv
  <2>4. CloseCon(w, c) = End(w, c, y)
    BY <1>2, <2>2, CloseForm
  <2> HIDE DEF y
  <2>5. CanEnd(w, config, c, y)
    BY <1>2, <2>2, <2>3 DEF CanEnd
  <2>6. Sound(End(w, c, y), config)
    BY <2>2, <2>5, EndSound
  <2>7. End(w, c, y).backlog = w.backlog
    BY DEF End
  <2>8. QED
    BY <2>4, <2>6, <2>7
<1>3. QED
  BY <1>1, <1>2

\* What connection x looks like after apiResetCon.
Reset(x) == [[[[x EXCEPT !.request = 0] EXCEPT !.reply = 0] EXCEPT !.len = 0] EXCEPT !.sent = 0]

\* It is a connection without a request.
LEMMA ResetForm ==
  ASSUME NEW x \in ConRec
  PROVE  Reset(x) = [open |-> x.open, client |-> x.client, keepalive |-> x.keepalive, request |-> 0,
                     reply |-> 0, len |-> 0, sent |-> 0, out |-> x.out, wakeups |-> x.wakeups]
<1> DEFINE a == x.open  b == x.client  d == x.keepalive  e == x.request  f == x.reply
           g == x.len  h == x.sent  i == x.out  j == x.wakeups
           x1 == [x EXCEPT !.request = 0]  x2 == [x1 EXCEPT !.reply = 0]  x3 == [x2 EXCEPT !.len = 0]
           x4 == [x3 EXCEPT !.sent = 0]
<1>1. x = [open |-> a, client |-> b, keepalive |-> d, request |-> e, reply |-> f, len |-> g,
           sent |-> h, out |-> i, wakeups |-> j]
  BY ConTypes
<1> HIDE DEF a, b, d, e, f, g, h, i, j
<1>2. x1 = [open |-> a, client |-> b, keepalive |-> d, request |-> 0, reply |-> f, len |-> g,
            sent |-> h, out |-> i, wakeups |-> j]
  BY <1>1
<1> HIDE DEF x1
<1>3. x2 = [open |-> a, client |-> b, keepalive |-> d, request |-> 0, reply |-> 0, len |-> g,
            sent |-> h, out |-> i, wakeups |-> j]
  BY <1>2
<1> HIDE DEF x2
<1>4. x3 = [open |-> a, client |-> b, keepalive |-> d, request |-> 0, reply |-> 0, len |-> 0,
            sent |-> h, out |-> i, wakeups |-> j]
  BY <1>3
<1> HIDE DEF x3
<1>5. x4 = [open |-> a, client |-> b, keepalive |-> d, request |-> 0, reply |-> 0, len |-> 0,
            sent |-> 0, out |-> i, wakeups |-> j]
  BY <1>4
<1>6. QED
  BY <1>5, Zenon DEF Reset, x1, x2, x3, x4, a, b, d, i, j

\* A reply that was sent completely leaves the client settled.
LEMMA SentAll ==
  ASSUME NEW s, NEW k, NEW x \in ConRec, Tie(s, k, x), x.sent = x.len
  PROVE  Settled(s, k.got)
<1>1. x.sent \in Nat /\ x.len \in Nat /\ x.reply \in Nat
  BY ConTypes
<1>2. CASE x.sent = 0
  BY <1>2 DEF Tie
<1>3. CASE x.sent > 0
  <2>1. k.got[Len(k.got)] = <<x.reply, x.sent>> /\ x.len = s[x.reply].size
    BY <1>1, <1>3 DEF Tie
  <2>2. k.got[Len(k.got)][1] = x.reply /\ k.got[Len(k.got)][2] = x.sent
    BY <2>1
  <2>3. QED
    BY <2>1, <2>2 DEF Settled, Whole
<1>4. QED
  BY <1>1, <1>2, <1>3

\* A connection without a reply, whose client is settled.
LEMMA TieIdle ==
  ASSUME NEW s, NEW k, NEW x, Unbroken(s, k.got), Settled(s, k.got), x.len = 0, x.sent = 0
  PROVE  Tie(s, k, x)
BY DEF Tie

\* apiResetCon, when there is nothing left to send
LEMMA ResetSound ==
  ASSUME NEW w, NEW c, At(w, c), w.cons[c].open => w.cons[c].sent = w.cons[c].len
  PROVE  Sound(ResetCon(w, c), config)
<1>1. CASE ~w.cons[c].open
  BY <1>1 DEF ResetCon, At
<1>2. CASE w.cons[c].open /\ ~w.cons[c].keepalive
  BY <1>2, CloseSound DEF ResetCon
<1>3. CASE w.cons[c].open /\ w.cons[c].keepalive
  <2> DEFINE k == w.cons[c].client   x == Reset(w.cons[c])   b == w.buffered - w.cons[c].len
  <2>1. OpenAt(w, c)
    BY <1>3 DEF OpenAt
  <2>2. /\ config.structs \in Nat /\ w \in Worlds(config.structs) /\ c \in 1..config.structs
        /\ k \in Clients /\ w.net[k] \in ClientRec /\ ClientInv(config.script[k], w.net[k])
        /\ w.net[k].status = "open" /\ w.cons[c] \in ConRec
        /\ Tie(config.script[k], w.net[k], w.cons[c])
        /\ Sound(w, config) /\ config \in Configs
    BY <2>1, OpenFacts
  <2>3. ResetCon(w, c) = [[w EXCEPT !.buffered = b] EXCEPT !.cons[c] = x]
    <3>1. ResetCon(w, c) = [w EXCEPT !.buffered = @ - w.cons[c].len,
                            !.cons[c] = [@ EXCEPT !.request = 0, !.reply = 0, !.len = 0, !.sent = 0]]
      BY <1>3 DEF ResetCon
    <3>2. QED
      BY <3>1 DEF Reset
  <2>4. x \in ConRec /\ x.open /\ x.client = k /\ x.len = 0 /\ x.sent = 0
    <3> DEFINE y == w.cons[c]
    <3>1. x = [open |-> y.open, client |-> y.client, keepalive |-> y.keepalive, request |-> 0,
               reply |-> 0, len |-> 0, sent |-> 0, out |-> y.out, wakeups |-> y.wakeups]
      BY <2>2, ResetForm
    <3>2. /\ y.open \in BOOLEAN /\ y.client \in Clients \union {NoClient} /\ y.keepalive \in BOOLEAN
          /\ y.out \in BOOLEAN /\ y.wakeups \in Nat
      BY <2>2, ConTypes
    <3>3. y.open /\ y.client = k
      BY <1>3
    <3> HIDE DEF x, y, k
    <3>4. QED
      BY <3>1, <3>2, <3>3 DEF ConRec
  <2> HIDE DEF x, k
  <2>5. Tie(config.script[k], w.net[k], x)
    <3>1. Settled(config.script[k], w.net[k].got)
      BY <1>3, <2>2, SentAll
    <3>2. Unbroken(config.script[k], w.net[k].got)
      BY <2>2 DEF Tie
    <3>3. QED
      BY <2>4, <3>1, <3>2, TieIdle
  <2>6. b = w.buffered - w.cons[c].len + x.len /\ b <= w.buffered
    <3>1. w.buffered \in Int /\ w.cons[c].len \in Nat
      BY <2>2, WorldTypes, ConTypes
    <3>2. QED
      BY <2>4, <3>1
  <2> HIDE DEF b
  <2>7. CanPut(w, config, c, w.net[k], x, b)
    BY <1>3, <2>2, <2>4, <2>5, <2>6 DEF CanPut, k
  <2>8. ResetCon(w, c) = Put(w, c, w.net[k], x, b)
    <3>1. BytesPut(w, c, x, b) = Put(w, c, w.net[w.cons[c].client], x, b)
      BY <2>1, PutBytes
    <3>2. QED
      BY <2>3, <3>1 DEF BytesPut, k
  <2>9. QED
    BY <2>2, <2>7, <2>8, PutSound
<1>4. QED
  BY <1>1, <1>2, <1>3

\* A client that has received h.
LEMMA NewGot ==
  ASSUME NEW s, NEW k \in ClientRec, ClientInv(s, k), k.status = "open", NEW h \in Seq(Nat \X Nat),
         InOrder(s, k.sent, h), \A j \in 1..Len(k.inbox), n \in 1..Len(h) : h[n][1] < k.inbox[j],
         NEW r \in BOOLEAN, NEW y,
         y = [status |-> k.status, sent |-> k.sent, inbox |-> k.inbox, gone |-> k.gone, room |-> r,
              got |-> h]
  PROVE  y \in ClientRec /\ ClientInv(s, y)
<1>1. /\ k.status \in {"new", "queued", "open", "closed"} /\ k.sent \in Nat
      /\ k.inbox \in Seq(Nat) /\ k.gone \in {"no", "half", "reset"}
  BY ClientTypes
<1>2. y.status = k.status /\ y.inbox = k.inbox /\ y.sent = k.sent /\ y.got = h
  OBVIOUS
<1>3. y \in ClientRec
  BY <1>1 DEF ClientRec
<1>4. Inbox(s, y)
  <2>1. Inbox(s, k)
    BY DEF ClientInv
  <2> HIDE DEF Inbox
  <2>2. QED
    BY <1>2, <2>1 DEF Inbox
<1>5. ClientInv(s, y)
  BY <1>2, <1>4 DEF ClientInv
<1>6. QED
  BY <1>3, <1>5

\* What sendStatus does to the client.
Told(k, code) == [k EXCEPT !.got = Append(k.got, Status(code))]

\* The client is told whatever else is known of it.
LEMMA ToldInv ==
  ASSUME NEW s, NEW k \in ClientRec, NEW code \in Nat, ClientInv(s, k), k.status = "open", Unbroken(s, k.got),
         code = 500 \/ Settled(s, k.got)
  PROVE  /\ Told(k, code) \in ClientRec /\ ClientInv(s, Told(k, code))
         /\ Told(k, code).status = k.status
         /\ Told(k, code).got = Append(k.got, Status(code))
<1> DEFINE h == Append(k.got, Status(code))
<1>1. k = [status |-> k.status, sent |-> k.sent, inbox |-> k.inbox, gone |-> k.gone, room |-> k.room,
           got |-> k.got] /\ k.room \in BOOLEAN
  BY ClientTypes
<1>2. /\ InOrder(s, k.sent, h) /\ h \in Seq(Nat \X Nat)
      /\ \A j \in 1..Len(k.inbox), n \in 1..Len(h) : h[n][1] < k.inbox[j]
  BY StatusInOrder
<1> DEFINE a == k.status  b == k.sent  d == k.inbox  e == k.gone  f == k.room  g == k.got
<1>3. k = [status |-> a, sent |-> b, inbox |-> d, gone |-> e, room |-> f, got |-> g]
  BY <1>1
<1> HIDE DEF h, a, b, d, e, f, g
<1>4. [k EXCEPT !.got = h] = [status |-> a, sent |-> b, inbox |-> d, gone |-> e, room |-> f, got |-> h]
  BY <1>3
<1>5. Told(k, code) = [status |-> a, sent |-> b, inbox |-> d, gone |-> e, room |-> f, got |-> h]
  BY <1>4 DEF Told, h
<1> HIDE DEF Told
<1>6. Told(k, code) \in ClientRec /\ ClientInv(s, Told(k, code))
  <2>1. Told(k, code) = [status |-> k.status, sent |-> k.sent, inbox |-> k.inbox, gone |-> k.gone,
                         room |-> k.room, got |-> h]
    BY <1>5 DEF a, b, d, e, f
  <2> DEFINE r == k.room   y == Told(k, code)
  <2>2. r \in BOOLEAN /\ y = [status |-> k.status, sent |-> k.sent, inbox |-> k.inbox, gone |-> k.gone,
                         room |-> r, got |-> h]
    BY <1>1, <2>1
  <2> HIDE DEF r, y
  <2>3. y \in ClientRec /\ ClientInv(s, y)
    BY <1>2, <2>2, NewGot
  <2>4. QED
    BY <2>3 DEF y
<1>7. Told(k, code).status = a /\ Told(k, code).got = h
  BY <1>5
<1>8. QED
  BY <1>6, <1>7 DEF a, h

\* sendStatus, when no reply is being sent
LEMMA StatusSound ==
  ASSUME NEW w, NEW c, OpenAt(w, c), w.cons[c].len = 0, NEW code \in Nat
  PROVE  /\ Sound(SendStatus(w, c, code), config)
         /\ SendStatus(w, c, code).cons = w.cons
<1> DEFINE k == w.cons[c].client   y == Told(w.net[k], code)   s == config.script[k]
<1>1. /\ config.structs \in Nat /\ w \in Worlds(config.structs) /\ c \in 1..config.structs
      /\ k \in Clients /\ w.net[k] \in ClientRec /\ ClientInv(s, w.net[k])
      /\ w.net[k].status = "open" /\ w.cons[c] \in ConRec /\ w.cons[c].open
      /\ Tie(s, w.net[k], w.cons[c])
      /\ Sound(w, config) /\ config \in Configs
  BY OpenFacts
<1>2. CASE SendStatus(w, c, code) = w
  BY <1>1, <1>2
<1>3. CASE SendStatus(w, c, code) # w
  <2>1. SendStatus(w, c, code) = [w EXCEPT !.net[k] = y]
    BY <1>3 DEF SendStatus, Told
  <2>2. w.cons[c].sent = 0 /\ w.cons[c].sent = w.cons[c].len
    BY <1>1, ConTypes DEF Tie
  <2>3. Unbroken(s, w.net[k].got) /\ Settled(s, w.net[k].got)
    BY <1>1, <2>2, SentAll DEF Tie
  <2>4. y \in ClientRec /\ ClientInv(s, y) /\ y.status = "open" /\ y.got = Append(w.net[k].got, Status(code))
    BY <1>1, <2>3, ToldInv
  <2>5. Tie(s, y, w.cons[c])
    <3>1. /\ Settled(s, Append(w.net[k].got, Status(code)))
          /\ Unbroken(s, Append(w.net[k].got, Status(code)))
      BY <1>1, <2>3, StatusInOrder
    <3>2. Settled(s, y.got) /\ Unbroken(s, y.got)
      BY <2>4, <3>1
    <3> HIDE DEF y
    <3>3. QED
      BY <2>2, <3>2, TieIdle
  <2> HIDE DEF y, k
  <2>6. SendStatus(w, c, code) = Put(w, c, y, w.cons[c], w.buffered)
    <3>1. [w EXCEPT !.net[k] = y] = Put(w, c, y, w.cons[c], w.buffered)
      BY PutNet DEF k
    <3>2. QED
      BY <2>1, <3>1, Zenon
  <2>7. CanPut(w, config, c, y, w.cons[c], w.buffered)
    <3>1. w.buffered \in Int
      BY <1>1, WorldTypes
    <3>2. w.buffered = w.buffered - w.cons[c].len + w.cons[c].len /\ w.buffered <= w.buffered
      BY <3>1
    <3>3. QED
      BY <1>1, <2>4, <2>5, <3>2 DEF CanPut, k
  <2>8. Sound(SendStatus(w, c, code), config)
    BY <1>1, <2>6, <2>7, PutSound
  <2>9. Put(w, c, y, w.cons[c], w.buffered).cons = w.cons
    BY <1>1, WorldTypes DEF Put
  <2>10. QED
    BY <2>6, <2>8, <2>9
<1>4. QED
  BY <1>2, <1>3

\* a request is refused
LEMMA RefuseSound ==
  ASSUME NEW w, NEW c, OpenAt(w, c), w.cons[c].len = 0, NEW code \in Nat
  PROVE  Sound(Refuse(w, c, code), config)
<1> DEFINE v == SendStatus(w, c, code)
<1>1. Sound(v, config) /\ v.cons = w.cons
  BY StatusSound
<1>2. v.cons[c].sent = v.cons[c].len
  <2>1. w.cons[c] \in ConRec /\ w.cons[c].sent <= w.cons[c].len
    BY OpenFacts DEF Tie
  <2>2. w.cons[c].sent \in Nat
    BY <2>1, ConTypes
  <2>3. QED
    BY <1>1, <2>1, <2>2
<1> HIDE DEF v
<1>3. At(v, c)
  BY <1>1 DEF At, OpenAt
<1>4. Sound(ResetCon(v, c), config)
  BY <1>2, <1>3, ResetSound
<1>5. QED
  BY <1>4 DEF Refuse, v

-----------------------------------------------------------------------------
(* Changing a connection.                                                  *)

\* The number of units sent changes, and nothing else.
LEMMA SetSent ==
  ASSUME NEW x \in ConRec, NEW v \in Nat
  PROVE  /\ [x EXCEPT !.sent = v] \in ConRec /\ [x EXCEPT !.sent = v].sent = v
         /\ [x EXCEPT !.sent = v].open = x.open
         /\ [x EXCEPT !.sent = v].client = x.client
         /\ [x EXCEPT !.sent = v].keepalive = x.keepalive
         /\ [x EXCEPT !.sent = v].request = x.request
         /\ [x EXCEPT !.sent = v].reply = x.reply
         /\ [x EXCEPT !.sent = v].len = x.len
         /\ [x EXCEPT !.sent = v].out = x.out /\ [x EXCEPT !.sent = v].wakeups = x.wakeups
<1> DEFINE a == x.open  b == x.client  d == x.keepalive  e == x.request  f == x.reply
           g == x.len  h == x.sent  i == x.out  j == x.wakeups
           y == [x EXCEPT !.sent = v]
<1>1. /\ x = [open |-> a, client |-> b, keepalive |-> d, request |-> e, reply |-> f,
             len |-> g, sent |-> h, out |-> i, wakeups |-> j]
      /\ a \in BOOLEAN /\ b \in Clients \union {NoClient} /\ d \in BOOLEAN /\ e \in Nat /\ f \in Nat
      /\ g \in Nat /\ h \in Nat /\ i \in BOOLEAN /\ j \in Nat
  BY ConTypes
<1> HIDE DEF a, b, d, e, f, g, h, i, j
<1>2. y = [open |-> a, client |-> b, keepalive |-> d, request |-> e, reply |-> f,
             len |-> g, sent |-> v, out |-> i, wakeups |-> j]
  BY <1>1
<1> HIDE DEF y
<1>3. y \in ConRec
  BY <1>1, <1>2 DEF ConRec
<1>4. y.open = a /\ y.client = b /\ y.keepalive = d /\ y.request = e
      /\ y.reply = f /\ y.len = g /\ y.sent = v /\ y.out = i /\ y.wakeups = j
  BY <1>2
<1>5. QED
  BY <1>3, <1>4 DEF y, a, b, d, e, f, g, h, i, j

\* The interest in EPOLLOUT.
LEMMA SetOut ==
  ASSUME NEW x \in ConRec, NEW v \in BOOLEAN
  PROVE  /\ [x EXCEPT !.out = v] \in ConRec /\ [x EXCEPT !.out = v].out = v
         /\ [x EXCEPT !.out = v].open = x.open
         /\ [x EXCEPT !.out = v].client = x.client
         /\ [x EXCEPT !.out = v].keepalive = x.keepalive
         /\ [x EXCEPT !.out = v].request = x.request
         /\ [x EXCEPT !.out = v].reply = x.reply
         /\ [x EXCEPT !.out = v].len = x.len
         /\ [x EXCEPT !.out = v].sent = x.sent /\ [x EXCEPT !.out = v].wakeups = x.wakeups
<1> DEFINE a == x.open  b == x.client  d == x.keepalive  e == x.request  f == x.reply
           g == x.len  h == x.sent  i == x.out  j == x.wakeups
           y == [x EXCEPT !.out = v]
<1>1. /\ x = [open |-> a, client |-> b, keepalive |-> d, request |-> e, reply |-> f,
             len |-> g, sent |-> h, out |-> i, wakeups |-> j]
      /\ a \in BOOLEAN /\ b \in Clients \union {NoClient} /\ d \in BOOLEAN /\ e \in Nat /\ f \in Nat
      /\ g \in Nat /\ h \in Nat /\ i \in BOOLEAN /\ j \in Nat
  BY ConTypes
<1> HIDE DEF a, b, d, e, f, g, h, i, j
<1>2. y = [open |-> a, client |-> b, keepalive |-> d, request |-> e, reply |-> f,
             len |-> g, sent |-> h, out |-> v, wakeups |-> j]
  BY <1>1
<1> HIDE DEF y
<1>3. y \in ConRec
  BY <1>1, <1>2 DEF ConRec
<1>4. y.open = a /\ y.client = b /\ y.keepalive = d /\ y.request = e
      /\ y.reply = f /\ y.len = g /\ y.sent = h /\ y.out = v /\ y.wakeups = j
  BY <1>2
<1>5. QED
  BY <1>3, <1>4 DEF y, a, b, d, e, f, g, h, i, j

\* What the header asks for.
LEMMA SetKeepalive ==
  ASSUME NEW x \in ConRec, NEW v \in BOOLEAN
  PROVE  /\ [x EXCEPT !.keepalive = v] \in ConRec /\ [x EXCEPT !.keepalive = v].keepalive = v
         /\ [x EXCEPT !.keepalive = v].open = x.open
         /\ [x EXCEPT !.keepalive = v].client = x.client
         /\ [x EXCEPT !.keepalive = v].request = x.request
         /\ [x EXCEPT !.keepalive = v].reply = x.reply
         /\ [x EXCEPT !.keepalive = v].len = x.len
         /\ [x EXCEPT !.keepalive = v].sent = x.sent
         /\ [x EXCEPT !.keepalive = v].out = x.out /\ [x EXCEPT !.keepalive = v].wakeups = x.wakeups
<1> DEFINE a == x.open  b == x.client  d == x.keepalive  e == x.request  f == x.reply
           g == x.len  h == x.sent  i == x.out  j == x.wakeups
           y == [x EXCEPT !.keepalive = v]
<1>1. /\ x = [open |-> a, client |-> b, keepalive |-> d, request |-> e, reply |-> f,
             len |-> g, sent |-> h, out |-> i, wakeups |-> j]
      /\ a \in BOOLEAN /\ b \in Clients \union {NoClient} /\ d \in BOOLEAN /\ e \in Nat /\ f \in Nat
      /\ g \in Nat /\ h \in Nat /\ i \in BOOLEAN /\ j \in Nat
  BY ConTypes
<1> HIDE DEF a, b, d, e, f, g, h, i, j
<1>2. y = [open |-> a, client |-> b, keepalive |-> v, request |-> e, reply |-> f,
             len |-> g, sent |-> h, out |-> i, wakeups |-> j]
  BY <1>1
<1> HIDE DEF y
<1>3. y \in ConRec
  BY <1>1, <1>2 DEF ConRec
<1>4. y.open = a /\ y.client = b /\ y.keepalive = v /\ y.request = e
      /\ y.reply = f /\ y.len = g /\ y.sent = h /\ y.out = i /\ y.wakeups = j
  BY <1>2
<1>5. QED
  BY <1>3, <1>4 DEF y, a, b, d, e, f, g, h, i, j

\* The number of chunks of the request.
LEMMA SetRequest ==
  ASSUME NEW x \in ConRec, NEW v \in Nat
  PROVE  /\ [x EXCEPT !.request = v] \in ConRec /\ [x EXCEPT !.request = v].request = v
         /\ [x EXCEPT !.request = v].open = x.open
         /\ [x EXCEPT !.request = v].client = x.client
         /\ [x EXCEPT !.request = v].keepalive = x.keepalive
         /\ [x EXCEPT !.request = v].reply = x.reply
         /\ [x EXCEPT !.request = v].len = x.len
         /\ [x EXCEPT !.request = v].sent = x.sent
         /\ [x EXCEPT !.request = v].out = x.out /\ [x EXCEPT !.request = v].wakeups = x.wakeups
<1> DEFINE a == x.open  b == x.client  d == x.keepalive  e == x.request  f == x.reply
           g == x.len  h == x.sent  i == x.out  j == x.wakeups
           y == [x EXCEPT !.request = v]
<1>1. /\ x = [open |-> a, client |-> b, keepalive |-> d, request |-> e, reply |-> f,
             len |-> g, sent |-> h, out |-> i, wakeups |-> j]
      /\ a \in BOOLEAN /\ b \in Clients \union {NoClient} /\ d \in BOOLEAN /\ e \in Nat /\ f \in Nat
      /\ g \in Nat /\ h \in Nat /\ i \in BOOLEAN /\ j \in Nat
  BY ConTypes
<1> HIDE DEF a, b, d, e, f, g, h, i, j
<1>2. y = [open |-> a, client |-> b, keepalive |-> d, request |-> v, reply |-> f,
             len |-> g, sent |-> h, out |-> i, wakeups |-> j]
  BY <1>1
<1> HIDE DEF y
<1>3. y \in ConRec
  BY <1>1, <1>2 DEF ConRec
<1>4. y.open = a /\ y.client = b /\ y.keepalive = d /\ y.request = v
      /\ y.reply = f /\ y.len = g /\ y.sent = h /\ y.out = i /\ y.wakeups = j
  BY <1>2
<1>5. QED
  BY <1>3, <1>4 DEF y, a, b, d, e, f, g, h, i, j

\* The number of wakeups.
LEMMA SetWakeups ==
  ASSUME NEW x \in ConRec, NEW v \in Nat
  PROVE  /\ [x EXCEPT !.wakeups = v] \in ConRec /\ [x EXCEPT !.wakeups = v].wakeups = v
         /\ [x EXCEPT !.wakeups = v].open = x.open
         /\ [x EXCEPT !.wakeups = v].client = x.client
         /\ [x EXCEPT !.wakeups = v].keepalive = x.keepalive
         /\ [x EXCEPT !.wakeups = v].request = x.request
         /\ [x EXCEPT !.wakeups = v].reply = x.reply
         /\ [x EXCEPT !.wakeups = v].len = x.len
         /\ [x EXCEPT !.wakeups = v].sent = x.sent /\ [x EXCEPT !.wakeups = v].out = x.out
<1> DEFINE a == x.open  b == x.client  d == x.keepalive  e == x.request  f == x.reply
           g == x.len  h == x.sent  i == x.out  j == x.wakeups
           y == [x EXCEPT !.wakeups = v]
<1>1. /\ x = [open |-> a, client |-> b, keepalive |-> d, request |-> e, reply |-> f,
             len |-> g, sent |-> h, out |-> i, wakeups |-> j]
      /\ a \in BOOLEAN /\ b \in Clients \union {NoClient} /\ d \in BOOLEAN /\ e \in Nat /\ f \in Nat
      /\ g \in Nat /\ h \in Nat /\ i \in BOOLEAN /\ j \in Nat
  BY ConTypes
<1> HIDE DEF a, b, d, e, f, g, h, i, j
<1>2. y = [open |-> a, client |-> b, keepalive |-> d, request |-> e, reply |-> f,
             len |-> g, sent |-> h, out |-> i, wakeups |-> v]
  BY <1>1
<1> HIDE DEF y
<1>3. y \in ConRec
  BY <1>1, <1>2 DEF ConRec
<1>4. y.open = a /\ y.client = b /\ y.keepalive = d /\ y.request = e
      /\ y.reply = f /\ y.len = g /\ y.sent = h /\ y.out = i /\ y.wakeups = v
  BY <1>2
<1>5. QED
  BY <1>3, <1>4 DEF y, a, b, d, e, f, g, h, i, j

\* The request that is being answered.
LEMMA SetReply ==
  ASSUME NEW x \in ConRec, NEW v \in Nat
  PROVE  /\ [x EXCEPT !.reply = v] \in ConRec /\ [x EXCEPT !.reply = v].reply = v
         /\ [x EXCEPT !.reply = v].open = x.open
         /\ [x EXCEPT !.reply = v].client = x.client
         /\ [x EXCEPT !.reply = v].keepalive = x.keepalive
         /\ [x EXCEPT !.reply = v].request = x.request
         /\ [x EXCEPT !.reply = v].len = x.len
         /\ [x EXCEPT !.reply = v].sent = x.sent
         /\ [x EXCEPT !.reply = v].out = x.out /\ [x EXCEPT !.reply = v].wakeups = x.wakeups
<1> DEFINE a == x.open  b == x.client  d == x.keepalive  e == x.request  f == x.reply
           g == x.len  h == x.sent  i == x.out  j == x.wakeups
           y == [x EXCEPT !.reply = v]
<1>1. /\ x = [open |-> a, client |-> b, keepalive |-> d, request |-> e, reply |-> f,
             len |-> g, sent |-> h, out |-> i, wakeups |-> j]
      /\ a \in BOOLEAN /\ b \in Clients \union {NoClient} /\ d \in BOOLEAN /\ e \in Nat /\ f \in Nat
      /\ g \in Nat /\ h \in Nat /\ i \in BOOLEAN /\ j \in Nat
  BY ConTypes
<1> HIDE DEF a, b, d, e, f, g, h, i, j
<1>2. y = [open |-> a, client |-> b, keepalive |-> d, request |-> e, reply |-> v,
             len |-> g, sent |-> h, out |-> i, wakeups |-> j]
  BY <1>1
<1> HIDE DEF y
<1>3. y \in ConRec
  BY <1>1, <1>2 DEF ConRec
<1>4. y.open = a /\ y.client = b /\ y.keepalive = d /\ y.request = e
      /\ y.reply = v /\ y.len = g /\ y.sent = h /\ y.out = i /\ y.wakeups = j
  BY <1>2
<1>5. QED
  BY <1>3, <1>4 DEF y, a, b, d, e, f, g, h, i, j

\* The length of the reply.
LEMMA SetLen ==
  ASSUME NEW x \in ConRec, NEW v \in Nat
  PROVE  /\ [x EXCEPT !.len = v] \in ConRec /\ [x EXCEPT !.len = v].len = v
         /\ [x EXCEPT !.len = v].open = x.open
         /\ [x EXCEPT !.len = v].client = x.client
         /\ [x EXCEPT !.len = v].keepalive = x.keepalive
         /\ [x EXCEPT !.len = v].request = x.request
         /\ [x EXCEPT !.len = v].reply = x.reply
         /\ [x EXCEPT !.len = v].sent = x.sent
         /\ [x EXCEPT !.len = v].out = x.out /\ [x EXCEPT !.len = v].wakeups = x.wakeups
<1> DEFINE a == x.open  b == x.client  d == x.keepalive  e == x.request  f == x.reply
           g == x.len  h == x.sent  i == x.out  j == x.wakeups
           y == [x EXCEPT !.len = v]
<1>1. /\ x = [open |-> a, client |-> b, keepalive |-> d, request |-> e, reply |-> f,
             len |-> g, sent |-> h, out |-> i, wakeups |-> j]
      /\ a \in BOOLEAN /\ b \in Clients \union {NoClient} /\ d \in BOOLEAN /\ e \in Nat /\ f \in Nat
      /\ g \in Nat /\ h \in Nat /\ i \in BOOLEAN /\ j \in Nat
  BY ConTypes
<1> HIDE DEF a, b, d, e, f, g, h, i, j
<1>2. y = [open |-> a, client |-> b, keepalive |-> d, request |-> e, reply |-> f,
             len |-> v, sent |-> h, out |-> i, wakeups |-> j]
  BY <1>1
<1> HIDE DEF y
<1>3. y \in ConRec
  BY <1>1, <1>2 DEF ConRec
<1>4. y.open = a /\ y.client = b /\ y.keepalive = d /\ y.request = e
      /\ y.reply = f /\ y.len = v /\ y.sent = h /\ y.out = i /\ y.wakeups = j
  BY <1>2
<1>5. QED
  BY <1>3, <1>4 DEF y, a, b, d, e, f, g, h, i, j

\* A change of a connection that its client does not notice.
LEMMA ConSound ==
  ASSUME NEW w, NEW c, OpenAt(w, c), NEW x \in ConRec, x.open <=> w.cons[c].open, x.client = w.cons[c].client,
         x.sent = w.cons[c].sent, x.len = w.cons[c].len, x.reply = w.cons[c].reply,
         x.request = w.cons[c].request \/ x.len = 0
  PROVE  LET v == [w EXCEPT !.cons[c] = x] IN
         /\ Sound(v, config) /\ OpenAt(v, c) /\ v.cons[c] = x /\ v.net = w.net
         /\ v.buffered = w.buffered /\ v.exit = w.exit
<1> DEFINE k == w.cons[c].client   s == config.script[k]   v == [w EXCEPT !.cons[c] = x]
<1>1. /\ config.structs \in Nat /\ w \in Worlds(config.structs) /\ c \in 1..config.structs
      /\ k \in Clients /\ w.net[k] \in ClientRec /\ ClientInv(s, w.net[k])
      /\ w.net[k].status = "open" /\ w.cons[c] \in ConRec /\ w.cons[c].open
      /\ Tie(s, w.net[k], w.cons[c])
      /\ Sound(w, config) /\ config \in Configs
  BY OpenFacts
<1>2. Tie(s, w.net[k], x)
  <2> DEFINE y == w.cons[c]   m == w.net[k]
  <2>1. Tie(s, m, y) /\ x.sent = y.sent /\ x.len = y.len /\ x.reply = y.reply
        /\ (x.request = y.request \/ x.len = 0) /\ x.len \in Nat
    BY <1>1, ConTypes
  <2> HIDE DEF y, m, s
  <2>2. Tie(s, m, x)
    BY <2>1 DEF Tie
  <2>3. QED
    BY <2>2 DEF m
<1>3. w.buffered = w.buffered - w.cons[c].len + x.len /\ w.buffered <= w.buffered
  <2>1. w.buffered \in Int /\ w.cons[c].len \in Nat
    BY <1>1, WorldTypes, ConTypes
  <2>2. QED
    BY <2>1
<1>4. CanPut(w, config, c, w.net[k], x, w.buffered)
  BY <1>1, <1>2, <1>3 DEF CanPut
<1>5. v = Put(w, c, w.net[k], x, w.buffered)
  BY PutCon
<1>6. Sound(v, config)
  <2>1. Sound(Put(w, c, w.net[k], x, w.buffered), config)
    BY <1>1, <1>4, PutSound
  <2> HIDE DEF v
  <2>2. QED
    BY <1>5, <2>1
<1>7. v.cons = [w.cons EXCEPT ![c] = x] /\ v.net = [w.net EXCEPT ![k] = w.net[k]]
      /\ v.buffered = w.buffered /\ v.exit = w.exit
  BY <1>5 DEF Put
<1>8. v.cons[c] = x /\ v.net = w.net
  BY <1>1, <1>7, WorldTypes
<1> HIDE DEF v
<1>9. OpenAt(v, c)
  BY <1>1, <1>6, <1>8 DEF OpenAt, At
<1>10. QED
  BY <1>6, <1>7, <1>8, <1>9 DEF v

\* On a connection that was closed there is nothing to change.
LEMMA SameOut ==
  ASSUME NEW w, NEW c, At(w, c)
  PROVE  Sound([w EXCEPT !.cons[c].out = FALSE], config)
<1>1. [w EXCEPT !.cons[c].out = FALSE] = [w EXCEPT !.cons[c] = [w.cons[c] EXCEPT !.out = FALSE]]
  OBVIOUS
<1> DEFINE x == [w.cons[c] EXCEPT !.out = FALSE]
<1>2. CASE w.cons[c].open
  <2>1. OpenAt(w, c) /\ w.cons[c] \in ConRec
    BY <1>2, OpenFacts DEF OpenAt
  <2>2. /\ x \in ConRec /\ (x.open <=> w.cons[c].open) /\ x.client = w.cons[c].client
        /\ x.sent = w.cons[c].sent /\ x.len = w.cons[c].len /\ x.reply = w.cons[c].reply
        /\ x.request = w.cons[c].request
    BY <2>1, SetOut
  <2> HIDE DEF x
  <2>3. Sound([w EXCEPT !.cons[c] = x], config)
    BY <2>1, <2>2, ConSound
  <2>4. QED
    BY <1>1, <2>3 DEF x
<1>3. CASE ~w.cons[c].open
  <2>1. w.cons[c] = FreshCon
    BY <1>3, ClosedIsFresh
  <2>2. x = FreshCon
    <3> DEFINE y == w.cons[c]   z == [y EXCEPT !.out = FALSE]
    <3>1. y \in ConRec /\ y.out = FALSE
      BY <2>1 DEF FreshCon, ConRec
    <3> HIDE DEF y
    <3>2. /\ z \in ConRec /\ z.out = y.out /\ z.open = y.open /\ z.client = y.client
          /\ z.keepalive = y.keepalive /\ z.request = y.request /\ z.reply = y.reply
          /\ z.len = y.len /\ z.sent = y.sent /\ z.wakeups = y.wakeups
      BY <3>1, SetOut
    <3> HIDE DEF z
    <3>3. z = y
      <4>1. /\ y = [open |-> y.open, client |-> y.client, keepalive |-> y.keepalive, request |-> y.request,
                    reply |-> y.reply, len |-> y.len, sent |-> y.sent, out |-> y.out, wakeups |-> y.wakeups]
            /\ z = [open |-> z.open, client |-> z.client, keepalive |-> z.keepalive, request |-> z.request,
                    reply |-> z.reply, len |-> z.len, sent |-> z.sent, out |-> z.out, wakeups |-> z.wakeups]
        BY <3>1, <3>2, ConTypes
      <4>2. QED
        BY <3>2, <4>1, Zenon
    <3>4. QED
      BY <2>1, <3>3 DEF y, z
  <2>3. /\ w.cons \in [1..config.structs -> ConRec] /\ c \in 1..config.structs
        /\ w = [net |-> w.net, backlog |-> w.backlog, cons |-> w.cons, stack |-> w.stack,
                buffered |-> w.buffered, exit |-> w.exit]
    BY WorldTypes, ConfigTypes DEF At, Sound
  <2>4. [w.cons EXCEPT ![c] = x] = w.cons
    BY <2>1, <2>2, <2>3
  <2>5. [w EXCEPT !.cons[c] = x] = w
    <3> DEFINE o == w.net  p == w.backlog  q == w.cons  s == w.stack  u == w.buffered  e == w.exit
               qx == [q EXCEPT ![c] = x]
    <3>1. w = [net |-> o, backlog |-> p, cons |-> q, stack |-> s, buffered |-> u, exit |-> e] /\ qx = q
      BY <2>3, <2>4
    <3> HIDE DEF o, p, q, s, u, e, x
    <3>2. [w EXCEPT !.cons[c] = x] = [net |-> o, backlog |-> p, cons |-> qx, stack |-> s, buffered |-> u, exit |-> e]
      BY <3>1
    <3> HIDE DEF qx
    <3>3. QED
      BY <3>1, <3>2
  <2>6. QED
    BY <1>1, <2>5 DEF At
<1>4. QED
  BY <1>2, <1>3

-----------------------------------------------------------------------------
(* Sending the reply.                                                      *)

\* What the client has after n units more.
GotUnits(k, x, n) == [[k EXCEPT !.got = k.got \o UnitsOf(x, n)] EXCEPT !.room = (n = x.len - x.sent)]

\* They are in order.
LEMMA GotUnitsInv ==
  ASSUME NEW s \in Script, NEW k \in ClientRec, NEW x \in ConRec, ClientInv(s, k), Tie(s, k, x),
         k.status = "open", x.len > 0, NEW n \in 0..(x.len - x.sent)
  PROVE  /\ GotUnits(k, x, n) \in ClientRec /\ ClientInv(s, GotUnits(k, x, n))
         /\ GotUnits(k, x, n).status = k.status /\ GotUnits(k, x, n).sent = k.sent
         /\ GotUnits(k, x, n).inbox = k.inbox
         /\ GotUnits(k, x, n).got = k.got \o UnitsOf(x, n)
<1> DEFINE h == k.got \o UnitsOf(x, n)   r == (n = x.len - x.sent)
           a == k.status  b == k.sent  d == k.inbox  e == k.gone  f == k.room  g == k.got
           z == [k EXCEPT !.got = h]   y == [z EXCEPT !.room = r]
<1>1. k = [status |-> a, sent |-> b, inbox |-> d, gone |-> e, room |-> f, got |-> g]
  BY ClientTypes
<1>2. /\ h \in Seq(Nat \X Nat) /\ InOrder(s, k.sent, h)
      /\ \A j \in 1..Len(k.inbox), m \in 1..Len(h) : h[m][1] < k.inbox[j]
  BY UnitsInOrder
<1>3. r \in BOOLEAN
  OBVIOUS
<1> HIDE DEF h, r, a, b, d, e, f, g
<1>4. z = [status |-> a, sent |-> b, inbox |-> d, gone |-> e, room |-> f, got |-> h]
  BY <1>1
<1> HIDE DEF z
<1>5. y = [status |-> a, sent |-> b, inbox |-> d, gone |-> e, room |-> r, got |-> h]
  BY <1>4
<1> HIDE DEF y
<1>6. GotUnits(k, x, n) = y
  BY DEF GotUnits, y, z, h, r
<1>7. y \in ClientRec /\ ClientInv(s, y)
  <2>1. y = [status |-> k.status, sent |-> k.sent, inbox |-> k.inbox, gone |-> k.gone, room |-> r,
             got |-> h]
    BY <1>5 DEF a, b, d, e
  <2>2. QED
    BY <1>2, <1>3, <2>1, NewGot
<1>8. y.status = a /\ y.sent = b /\ y.inbox = d /\ y.got = h
  BY <1>5
<1>9. QED
  BY <1>6, <1>7, <1>8 DEF a, b, d, h

\* The reply that is being sent is what the client got, n units later.
LEMMA TieUnits ==
  ASSUME NEW s \in Script, NEW k \in ClientRec, NEW x \in ConRec, ClientInv(s, k), Tie(s, k, x),
         k.status = "open", x.len > 0, NEW n \in 0..(x.len - x.sent)
  PROVE  Tie(s, GotUnits(k, x, n), [x EXCEPT !.sent = x.sent + n])
<1> DEFINE y == GotUnits(k, x, n)   z == [x EXCEPT !.sent = x.sent + n]   h == k.got \o UnitsOf(x, n)
<1>1. x.sent \in Nat /\ x.len \in Nat /\ n \in Nat /\ x.sent + n \in Nat /\ x.sent + n <= x.len
  BY ConTypes
<1>2. z.sent = x.sent + n /\ z.len = x.len /\ z.reply = x.reply /\ z.request = x.request
  BY <1>1, SetSent
<1>3. y.sent = k.sent /\ y.inbox = k.inbox /\ y.got = h
  BY GotUnitsInv
<1>4. /\ Unbroken(s, h) /\ \A m \in 1..Len(h) : h[m][1] <= x.reply
      /\ x.sent + n > 0 => h # <<>> /\ h[Len(h)] = <<x.reply, x.sent + n>>
      /\ x.sent + n = 0 => Settled(s, h)
  BY UnitsInOrder
<1>5. /\ x.reply \in 1..k.sent /\ s[x.reply].kind = "fetch" /\ x.len = s[x.reply].size
      /\ x.request <= RequestMax /\ \A j \in 1..Len(k.inbox) : x.reply < k.inbox[j]
  BY DEF Tie
<1> HIDE DEF y, z, h
<1>6. Tie(s, y, z)
  BY <1>1, <1>2, <1>3, <1>4, <1>5 DEF Tie
<1>7. QED
  BY <1>6 DEF y, z

\* send() takes n units
LEMMA SentSound ==
  ASSUME NEW w, NEW c, OpenAt(w, c), w.cons[c].len > 0, NEW n \in 0..(w.cons[c].len - w.cons[c].sent)
  PROVE  /\ OpenAt(Sent(w, c, n), c)
         /\ Sent(w, c, n).cons[c].len = w.cons[c].len
         /\ Sent(w, c, n).cons[c].sent = w.cons[c].sent + n
<1> DEFINE k == w.cons[c].client   s == config.script[k]   a == w.cons[c]
           y == GotUnits(w.net[k], a, n)   x == [a EXCEPT !.sent = a.sent + n]
<1>1. /\ config.structs \in Nat /\ w \in Worlds(config.structs) /\ c \in 1..config.structs
      /\ k \in Clients /\ w.net[k] \in ClientRec /\ ClientInv(s, w.net[k]) /\ s \in Script
      /\ w.net[k].status = "open" /\ a \in ConRec /\ a.open
      /\ Tie(s, w.net[k], a)
      /\ Sound(w, config) /\ config \in Configs
  BY OpenFacts
<1>2. Sent(w, c, n) = BothPut(w, c, x, y)
  <2> DEFINE u == [i \in 1..n |-> <<a.reply, a.sent + i>>]   r == (n = a.len - a.sent)
  <2>1. Sent(w, c, n) = [w EXCEPT !.net[k].got = @ \o u, !.net[k].room = r, !.cons[c].sent = @ + n]
    BY DEF Sent
  <2>2. y = [[w.net[k] EXCEPT !.got = w.net[k].got \o u] EXCEPT !.room = r]
    BY DEF GotUnits, UnitsOf
  <2> HIDE DEF u, r, y
  <2>3. [w EXCEPT !.net[k].got = @ \o u, !.net[k].room = r, !.cons[c].sent = @ + n]
          = [[w EXCEPT !.net[k] = [[w.net[k] EXCEPT !.got = w.net[k].got \o u] EXCEPT !.room = r]]
                EXCEPT !.cons[c] = [w.cons[c] EXCEPT !.sent = w.cons[c].sent + n]]
    <3> HIDE DEF k
    <3> DEFINE m == w.net[k]
    <3>1. w = [net |-> w.net, backlog |-> w.backlog, cons |-> w.cons, stack |-> w.stack,
               buffered |-> w.buffered, exit |-> w.exit] /\ w.net \in [Clients -> ClientRec] /\ k \in Clients
      BY <1>1, WorldTypes
    <3>2. QED
      BY <3>1
  <2>4. QED
    BY <2>1, <2>2, <2>3 DEF BothPut
<1>3. a.sent \in Nat /\ n \in Nat /\ a.sent + n \in Nat /\ a.len \in Nat
  BY <1>1, ConTypes
<1>4. x \in ConRec /\ (x.open <=> a.open) /\ x.client = k /\ x.len = a.len /\ x.sent = a.sent + n
  BY <1>1, <1>3, SetSent
<1>5. y \in ClientRec /\ ClientInv(s, y) /\ y.status = "open"
  BY <1>1, GotUnitsInv
<1>6. Tie(s, y, x)
  BY <1>1, TieUnits
<1> HIDE DEF x, y, k, s
<1>7. w.buffered = w.buffered - a.len + x.len /\ w.buffered <= w.buffered
  <2>1. w.buffered \in Int
    BY <1>1, WorldTypes
  <2>2. QED
    BY <1>3, <1>4, <2>1
<1>8. CanPut(w, config, c, y, x, w.buffered)
  BY <1>1, <1>4, <1>5, <1>6, <1>7 DEF CanPut, k, s
<1> DEFINE v == Put(w, c, y, x, w.buffered)
<1>9. Sound(v, config)
  BY <1>1, <1>8, PutSound
<1>10. v.cons = [w.cons EXCEPT ![c] = x]
  BY DEF Put
<1>11. v.cons[c] = x
  BY <1>1, <1>10, WorldTypes
<1> HIDE DEF v
<1>12. Sent(w, c, n) = v
  BY <1>2, PutBoth DEF v
<1>13. OpenAt(v, c)
  BY <1>1, <1>4, <1>9, <1>11 DEF OpenAt, At
<1>14. QED
  BY <1>4, <1>11, <1>12, <1>13

\* apiSendData
LEMMA SendDataSound ==
  ASSUME NEW w, NEW c, At(w, c), NEW v \in SendData(w, c)
  PROVE  Sound(v, config)
<1> DEFINE a == w.cons[c]   toSend == a.len - a.sent
<1>1. CASE toSend <= 0
  <2>1. v = [w EXCEPT !.cons[c].out = FALSE]
    BY <1>1 DEF SendData
  <2>2. QED
    BY <2>1, SameOut
<1>2. CASE ~(toSend <= 0)
  <2>1. OpenAt(w, c)
    <3>1. ASSUME ~w.cons[c].open
          PROVE  FALSE
      <4>1. w.cons[c] = FreshCon
        BY <3>1, ClosedIsFresh
      <4>2. a.len = 0 /\ a.sent = 0
        BY <4>1 DEF FreshCon
      <4>3. QED
        BY <1>2, <4>2
    <3>2. QED
      BY <3>1 DEF OpenAt
  <2>2. a \in ConRec /\ a.len \in Nat /\ a.sent \in Nat
    BY <2>1, OpenFacts, ConTypes
  <2>3. PICK n \in SendResults(w, c) :
           v = CASE n = -1     -> CloseCon(w, c)
                 [] n = toSend -> ResetCon(Sent(w, c, n), c)
                 [] OTHER      -> [Sent(w, c, n) EXCEPT !.cons[c].out = TRUE]
    BY <1>2 DEF SendData
  <2> HIDE DEF a
  <2>4. n = -1 \/ n \in 0..toSend
    <3>1. SendResults(w, c) \subseteq {-1} \union 0..toSend \union {0}
      BY DEF SendResults, a
    <3>2. 0 \in 0..toSend
      BY <1>2, <2>2
    <3>3. QED
      BY <3>1, <3>2
  <2>5. CASE n = -1
    <3>1. n # toSend
      BY <1>2, <2>2, <2>5
    <3>2. v = CloseCon(w, c)
      BY <2>3, <2>5, <3>1
    <3>3. QED
      BY <3>2, CloseSound
  <2>6. CASE n # -1
    <3> DEFINE u == Sent(w, c, n)
    <3>1. a.len > 0 /\ n \in 0..(a.len - a.sent)
      BY <1>2, <2>2, <2>4, <2>6
    <3>2. OpenAt(u, c) /\ u.cons[c].len = a.len /\ u.cons[c].sent = a.sent + n
      BY <2>1, <3>1, SentSound DEF a
    <3> HIDE DEF u
    <3>3. CASE n = toSend
      <4>1. v = ResetCon(u, c)
        BY <2>3, <2>6, <3>3 DEF u
      <4>2. u.cons[c].sent = u.cons[c].len
        BY <2>2, <3>2, <3>3
      <4>3. At(u, c)
        BY <3>2 DEF OpenAt
      <4>4. QED
        BY <4>1, <4>2, <4>3, ResetSound
    <3>4. CASE n # toSend
      <4>1. v = [u EXCEPT !.cons[c].out = TRUE]
        BY <2>3, <2>6, <3>4 DEF u
      <4> DEFINE x == [u.cons[c] EXCEPT !.out = TRUE]
      <4>2. v = [u EXCEPT !.cons[c] = x]
        BY <4>1
      <4>3. u.cons[c] \in ConRec
        BY <3>2, OpenFacts
      <4>4. /\ x \in ConRec /\ (x.open <=> u.cons[c].open) /\ x.client = u.cons[c].client
            /\ x.sent = u.cons[c].sent /\ x.len = u.cons[c].len /\ x.reply = u.cons[c].reply
            /\ x.request = u.cons[c].request
        BY <4>3, SetOut
      <4> HIDE DEF x
      <4>5. QED
        BY <3>2, <4>2, <4>4, ConSound
    <3>5. QED
      BY <3>3, <3>4
  <2>7. QED
    BY <2>5, <2>6
<1>3. QED
  BY <1>1, <1>2

-----------------------------------------------------------------------------
(* Reading a request.                                                      *)

\* A place in a beginning of a sequence is a place in it.
LEMMA InRange ==
  ASSUME NEW e \in Nat, NEW l \in Nat, e <= l, NEW i \in 1..e
  PROVE  i \in Nat /\ i \in 1..l
OBVIOUS

\* A number more.
LEMMA More ==
  ASSUME NEW b \in Int, NEW z \in Nat, NEW l \in Nat, b <= l
  PROVE  b + z \in Int /\ b + z = b - 0 + z /\ b + z <= l + z
OBVIOUS

\* What was received is pairs of numbers.
LEMMA GotTypes ==
  ASSUME NEW g \in Seq(Nat \X Nat), NEW n \in 1..Len(g)
  PROVE  g[n][1] \in Nat /\ g[n][2] \in Nat
<1>1. g[n] \in Nat \X Nat
  BY ElementOfSeq
<1>2. QED
  BY <1>1

\* A connection without a reply has nothing to send.
LEMMA NothingToSend ==
  ASSUME NEW s, NEW k, NEW x \in ConRec, Tie(s, k, x)
  PROVE  /\ x.len = 0 => x.sent = x.len
         /\ ~(x.len > 0) => x.len = 0
         /\ x.request > RequestMax => x.len = 0
<1>1. x.len \in Nat /\ x.sent \in Nat /\ x.request \in Nat /\ RequestMax \in Nat
  BY ConTypes, ApiConnectionsAssumption
<1> DEFINE l == x.len   t == x.sent   q == x.request
<1>2. t <= l /\ (l > 0 => q <= RequestMax) /\ l \in Nat /\ t \in Nat /\ q \in Nat
  BY <1>1 DEF Tie
<1> HIDE DEF l, t, q
<1>3. (l = 0 => t = l) /\ (~(l > 0) => l = 0) /\ (q > RequestMax => l = 0)
  BY <1>1, <1>2
<1>4. QED
  BY <1>3 DEF l, t, q

\* Nothing that c's client received is of a request after i, and it has nothing more to be read.
MayAnswer(w, c, i) ==
    LET k == w.net[w.cons[c].client]
        s == config.script[w.cons[c].client]
    IN  /\ w.cons[c].len = 0 /\ w.cons[c].request <= RequestMax /\ w.buffered <= config.limit
        /\ i \in 1..k.sent /\ s[i].kind # "part"
        /\ k.inbox = <<>> /\ \A n \in 1..Len(k.got) : k.got[n][1] <= i

\* The reply is kept, and its bytes are counted.
LEMMA StartSound ==
  ASSUME NEW w, NEW c, OpenAt(w, c), NEW i, MayAnswer(w, c, i),
         config.script[w.cons[c].client][i].kind = "fetch",
         NEW v \in StartReply(w, c, i, config.script[w.cons[c].client][i].size)
  PROVE  Sound(v, config)
<1> DEFINE k == w.cons[c].client   s == config.script[k]   a == w.cons[c]   m == w.net[k]
           size == s[i].size   b == w.buffered + size
           x1 == [a EXCEPT !.reply = i]   x2 == [x1 EXCEPT !.len = size]   x == [x2 EXCEPT !.sent = 0]
           u == BytesPut(w, c, x, b)
<1>1. /\ config.structs \in Nat /\ w \in Worlds(config.structs) /\ c \in 1..config.structs
      /\ k \in Clients /\ m \in ClientRec /\ ClientInv(s, m) /\ s \in Script
      /\ m.status = "open" /\ a \in ConRec /\ a.open
      /\ Tie(s, m, a)
      /\ Sound(w, config) /\ config \in Configs
  BY OpenFacts
<1>2. /\ a.len = 0 /\ a.request <= RequestMax /\ w.buffered <= config.limit
      /\ i \in 1..m.sent /\ s[i].kind = "fetch"
      /\ m.inbox = <<>> /\ \A n \in 1..Len(m.got) : m.got[n][1] <= i
  BY DEF MayAnswer
<1>3. i \in Nat /\ i \in 1..Len(s)
  <2>1. m.sent \in Nat /\ m.sent <= Len(s) /\ Len(s) \in Nat
    BY <1>1, ClientTypes, LenProperties DEF ClientInv, Script
  <2> DEFINE e == m.sent   l == Len(s)
  <2>2. e \in Nat /\ l \in Nat /\ e <= l /\ i \in 1..e
    BY <1>2, <2>1
  <2> HIDE DEF e, l
  <2>3. i \in Nat /\ i \in 1..l
    BY <2>2, InRange
  <2>4. QED
    BY <2>3 DEF l
<1>4. size \in Nat /\ size > 0
  <2>1. size \in Nat \ {0}
    BY <1>1, <1>3, ChunkTypes
  <2> HIDE DEF size
  <2>2. QED
    BY <2>1
<1>5. u = [w EXCEPT !.buffered = @ + size,
                    !.cons[c] = [@ EXCEPT !.reply = i, !.len = size, !.sent = 0]]
  BY DEF BytesPut
<1>6. v \in SendData(u, c)
  BY <1>5 DEF StartReply
<1>7. x1 \in ConRec /\ x1.reply = i /\ (x1.open <=> a.open) /\ x1.client = k /\ x1.request = a.request
  BY <1>1, <1>3, SetReply
<1> HIDE DEF x1
<1>8. x2 \in ConRec /\ x2.reply = i /\ (x2.open <=> a.open) /\ x2.client = k /\ x2.request = a.request
      /\ x2.len = size
  BY <1>4, <1>7, SetLen
<1> HIDE DEF x2
<1>9. x \in ConRec /\ x.reply = i /\ (x.open <=> a.open) /\ x.client = k /\ x.request = a.request
      /\ x.len = size /\ x.sent = 0
  BY <1>8, SetSent
<1> HIDE DEF x, u
<1>10. Tie(s, m, x)
  <2>1. Settled(s, m.got) /\ Unbroken(s, m.got)
    <3>1. a.sent = a.len
      BY <1>1, <1>2, NothingToSend
    <3>2. QED
      BY <1>1, <3>1, SentAll DEF Tie
  <2>2. Len(m.inbox) = 0
    BY <1>2
  <2> HIDE DEF m, s, a, size
  <2>3. size = s[i].size
    BY DEF size
  <2>4. QED
    BY <1>2, <1>4, <1>9, <2>1, <2>2, <2>3 DEF Tie
<1>11. b = w.buffered - a.len + x.len /\ Bounded(config, b)
  <2>1. w.buffered \in Int /\ config.limit \in Nat
    BY <1>1, WorldTypes, ConfigTypes
  <2> DEFINE l == config.limit   f == w.buffered
  <2>2. f + size = f - 0 + size /\ f + size <= l + size
    <3> HIDE DEF f, l, size
    <3>1. f \in Int /\ l \in Nat /\ f <= l
      BY <1>2, <2>1 DEF f, l
    <3>2. QED
      BY <1>4, <3>1, More
  <2>3. b = w.buffered - a.len + x.len
    BY <1>2, <1>9, <2>2
  <2>4. b <= config.limit + s[i].size
    BY <2>2
  <2>5. QED
    BY <1>1, <1>3, <2>3, <2>4 DEF Bounded
<1> HIDE DEF k, s, a, m, size, b
<1>12. CanPut(w, config, c, m, x, b)
  BY <1>1, <1>9, <1>10, <1>11 DEF CanPut, k, s, a, m
<1>13. u = Put(w, c, m, x, b)
  BY PutBytes DEF u, m, k
<1>14. Sound(u, config)
  BY <1>1, <1>12, <1>13, PutSound
<1>15. At(u, c)
  BY <1>1, <1>14 DEF At
<1>16. QED
  BY <1>6, <1>15, SendDataSound

\* The reply, or the status, to the request i.
LEMMA AnswerSound ==
  ASSUME NEW w, NEW c, OpenAt(w, c), NEW i, MayAnswer(w, c, i), NEW v \in Answer(w, c, i)
  PROVE  Sound(v, config)
<1> DEFINE k == w.cons[c].client   s == config.script[k]   a == w.cons[c]   m == w.net[k]   r == s[i]
           x == [a EXCEPT !.keepalive = r.keepalive]   u == [w EXCEPT !.cons[c] = x]
<1>1. /\ k \in Clients /\ m \in ClientRec /\ ClientInv(s, m) /\ s \in Script
      /\ a \in ConRec /\ a.open
  BY OpenFacts
<1>2. a.len = 0 /\ i \in 1..m.sent /\ r.kind # "part"
  BY DEF MayAnswer
<1>3. i \in 1..Len(s)
  <2>1. m.sent \in Nat /\ m.sent <= Len(s) /\ Len(s) \in Nat
    BY <1>1, ClientTypes, LenProperties DEF ClientInv, Script
  <2> DEFINE e == m.sent   l == Len(s)
  <2>2. e \in Nat /\ l \in Nat /\ e <= l /\ i \in 1..e
    BY <1>2, <2>1
  <2> HIDE DEF e, l
  <2>3. i \in Nat /\ i \in 1..l
    BY <2>2, InRange
  <2>4. QED
    BY <2>3 DEF l
<1>4. r.kind \in {"fetch", "status", "bad400", "bad405", "bad505"} /\ r.keepalive \in BOOLEAN
  BY <1>1, <1>2, <1>3, ChunkTypes DEF Kinds
<1>5. u = [w EXCEPT !.cons[c].keepalive = r.keepalive]
  OBVIOUS
<1>6. /\ x \in ConRec /\ (x.open <=> a.open) /\ x.client = k /\ x.sent = a.sent /\ x.len = a.len
      /\ x.reply = a.reply /\ x.request = a.request
  BY <1>1, <1>4, SetKeepalive
<1>7. \/ v = Refuse(w, c, 505)
      \/ \E code \in {405, 503, 200, 400} : v = Refuse(u, c, code)
      \/ r.kind = "fetch" /\ v \in StartReply(u, c, i, r.size)
  <2> DEFINE u2 == [w EXCEPT !.cons[c].keepalive = r.keepalive]
  <2>1. Answer(w, c, i) = CASE r.kind = "bad505" -> {Refuse(w, c, 505)}
          [] r.kind = "bad405" -> {Refuse(u2, c, 405)}
          [] r.kind = "status" -> {Refuse(u2, c, IF w.exit THEN 503 ELSE 200)}
          [] r.kind = "bad400" -> {Refuse(u2, c, 400)}
          [] r.kind = "fetch"  -> StartReply(u2, c, i, r.size)
    BY DEF Answer
  <2>2. u2 = u
    BY <1>5
  <2> HIDE DEF u, u2, r
  <2>3. CASE r.kind = "bad505"
    BY <2>1, <2>2, <2>3
  <2>4. CASE r.kind = "bad405"
    BY <2>1, <2>2, <2>4
  <2>5. CASE r.kind = "status"
    <3>1. (IF w.exit THEN 503 ELSE 200) \in {405, 503, 200, 400}
      OBVIOUS
    <3>2. v = Refuse(u, c, IF w.exit THEN 503 ELSE 200)
      BY <2>1, <2>2, <2>5
    <3>3. QED
      BY <3>1, <3>2
  <2>6. CASE r.kind = "bad400"
    BY <2>1, <2>2, <2>6
  <2>7. CASE r.kind = "fetch"
    BY <2>1, <2>2, <2>7
  <2>8. QED
    BY <1>4, <2>3, <2>4, <2>5, <2>6, <2>7
<1> HIDE DEF x
<1>8. OpenAt(u, c) /\ u.cons[c] = x /\ u.net = w.net /\ u.buffered = w.buffered
  BY <1>6, ConSound
<1> HIDE DEF u
<1>9. CASE v = Refuse(w, c, 505)
  BY <1>2, <1>9, RefuseSound
<1>10. ASSUME NEW code \in {405, 503, 200, 400}, v = Refuse(u, c, code)
       PROVE  Sound(v, config)
  <2>1. code \in Nat /\ u.cons[c].len = 0
    BY <1>2, <1>6, <1>8
  <2>2. QED
    BY <1>8, <1>10, <2>1, RefuseSound
<1>11. CASE r.kind = "fetch" /\ v \in StartReply(u, c, i, r.size)
  <2>1. u.cons[c].client = k
    BY <1>6, <1>8
  <2>2. MayAnswer(u, c, i)
    <3>1. /\ a.len = 0 /\ a.request <= RequestMax /\ w.buffered <= config.limit
          /\ i \in 1..m.sent /\ s[i].kind # "part"
          /\ m.inbox = <<>> /\ \A n \in 1..Len(m.got) : m.got[n][1] <= i
      BY DEF MayAnswer
    <3>2. /\ u.cons[c].len = 0 /\ u.cons[c].request <= RequestMax /\ u.buffered <= config.limit
          /\ u.net[u.cons[c].client] = m /\ config.script[u.cons[c].client] = s
      BY <1>6, <1>8, <2>1, <3>1
    <3> HIDE DEF m, s
    <3>3. QED
      BY <3>1, <3>2 DEF MayAnswer
  <2>3. QED
    BY <1>8, <1>11, <2>1, <2>2, StartSound
<1>12. QED
  BY <1>7, <1>9, <1>10, <1>11

\* The first of the chunks that ends a request.
LEMMA FirstEnd ==
  ASSUME NEW inbox \in Seq(Nat), NEW s,
         NEW first, first = SelectInSeq(inbox, LAMBDA i : s[i].kind # "part")
  PROVE  first = 0 \/ (first \in 1..Len(inbox) /\ s[inbox[first]].kind # "part")
<1> DEFINE I == {j \in 1..Len(inbox) : s[inbox[j]].kind # "part"}
<1>1. first = IF I # {} THEN Min(I) ELSE 0
  BY DEF SelectInSeq
<1>2. ASSUME I # {}
      PROVE  Min(I) \in I
  <2>1. I \subseteq Nat
    OBVIOUS
  <2> HIDE DEF I
  <2>2. \E x \in I : \A y \in I : x <= y
    BY <1>2, <2>1, NatMin
  <2>3. QED
    BY <2>2 DEF Min
<1>3. QED
  BY <1>1, <1>2

\* recv
LEMMA ReadDataSound ==
  ASSUME NEW w, NEW c, OpenAt(w, c), w.buffered <= config.limit, w.cons[c].request <= RequestMax,
         NEW v \in ReadData(w, c)
  PROVE  Sound(v, config)
<1> DEFINE k == w.cons[c].client   s == config.script[k]   a == w.cons[c]   m == w.net[k]
           inbox == m.inbox   y == [m EXCEPT !.inbox = <<>>]   u == [w EXCEPT !.net[k] = y]
           first == SelectInSeq(inbox, LAMBDA i : config.script[k][i].kind # "part")
<1>1. /\ config.structs \in Nat /\ w \in Worlds(config.structs) /\ c \in 1..config.structs
      /\ k \in Clients /\ m \in ClientRec /\ ClientInv(s, m) /\ s \in Script
      /\ m.status = "open" /\ a \in ConRec /\ a.open
      /\ Tie(s, m, a)
      /\ Sound(w, config) /\ config \in Configs
  BY OpenFacts
<1>2. u = [w EXCEPT !.net[k].inbox = <<>>]
  OBVIOUS
<1>3. y = [status |-> m.status, sent |-> m.sent, inbox |-> <<>>, gone |-> m.gone, room |-> m.room,
           got |-> m.got]
  <2> DEFINE d == m.status  e == m.sent  f == m.inbox  g == m.gone  h == m.room  j == m.got
  <2>1. m = [status |-> d, sent |-> e, inbox |-> f, gone |-> g, room |-> h, got |-> j]
    BY <1>1, ClientTypes
  <2> HIDE DEF d, e, f, g, h, j, m
  <2>2. y = [status |-> d, sent |-> e, inbox |-> <<>>, gone |-> g, room |-> h, got |-> j]
    BY <2>1
  <2>3. QED
    BY <2>2 DEF d, e, g, h, j
<1> HIDE DEF y
<1>4. y \in ClientRec /\ ClientInv(s, y) /\ y.status = "open" /\ y.inbox = <<>> /\ y.sent = m.sent
      /\ y.got = m.got
  BY <1>1, <1>3, NoInbox
<1>5. Tie(s, y, a)
  <2>1. Len(y.inbox) = 0
    BY <1>4
  <2> HIDE DEF m, s, a
  <2>2. QED
    BY <1>1, <1>4, <2>1 DEF Tie
<1>6. u = Put(w, c, y, a, w.buffered)
  BY PutNet
<1>7. CanPut(w, config, c, y, a, w.buffered)
  <2>1. w.buffered \in Int /\ a.len \in Nat
    BY <1>1, WorldTypes, ConTypes
  <2>2. w.buffered = w.buffered - a.len + a.len /\ w.buffered <= w.buffered
    BY <2>1
  <2>3. QED
    BY <1>1, <1>4, <1>5, <2>2 DEF CanPut
<1>8. Sound(Put(w, c, y, a, w.buffered), config)
  BY <1>1, <1>7, PutSound
<1> HIDE DEF u
<1>9. Sound(u, config)
  BY <1>6, <1>8
<1>10. u.cons[c] = a /\ u.net[k] = y /\ u.buffered = w.buffered
  <2>1. /\ u.cons = [w.cons EXCEPT ![c] = a] /\ u.net = [w.net EXCEPT ![k] = y] /\ u.buffered = w.buffered
    BY <1>6 DEF Put
  <2>2. w.cons \in [1..config.structs -> ConRec] /\ w.net \in [Clients -> ClientRec]
    BY <1>1, WorldTypes
  <2>3. QED
    BY <1>1, <2>1, <2>2
<1>11. OpenAt(u, c)
  BY <1>1, <1>9, <1>10 DEF OpenAt, At
<1>12. v \in IF a.len > 0 THEN {CloseCon(u, c)}
             ELSE IF first = 0 THEN {[u EXCEPT !.cons[c].request = @ + Len(inbox)]}
             ELSE Answer(u, c, inbox[first])
  <2>1. ReadData(w, c) = IF a.len > 0 THEN {CloseCon([w EXCEPT !.net[k].inbox = <<>>], c)}
             ELSE IF first = 0 THEN {[[w EXCEPT !.net[k].inbox = <<>>] EXCEPT !.cons[c].request = @ + Len(inbox)]}
             ELSE Answer([w EXCEPT !.net[k].inbox = <<>>], c, inbox[first])
    BY DEF ReadData
  <2> HIDE DEF first, inbox, a
  <2>2. QED
    BY <1>2, <2>1
<1>13. inbox \in Seq(Nat) /\ Len(inbox) \in Nat
  BY <1>1, ClientTypes
<1>14. CASE a.len > 0
  <2>1. v = CloseCon(u, c)
    BY <1>12, <1>14
  <2>2. QED
    BY <1>11, <2>1, CloseSound DEF OpenAt
<1>15. CASE ~(a.len > 0) /\ first = 0
  <2> DEFINE l == Len(inbox)   b == u.cons[c]   x == [b EXCEPT !.request = b.request + l]
  <2>1. v = [u EXCEPT !.cons[c].request = @ + l]
    BY <1>12, <1>15
  <2>2. v = [u EXCEPT !.cons[c] = x]
    BY <2>1
  <2>3. b \in ConRec /\ b.request \in Nat /\ b.len = 0
    <3>1. b \in ConRec
      BY <1>11, OpenFacts
    <3>2. b.request \in Nat /\ b.len \in Nat
      BY <3>1, ConTypes
    <3>3. QED
      BY <1>10, <1>15, <3>1, <3>2
  <2>4. b.request + l \in Nat
    <3> DEFINE q == b.request
    <3>1. q \in Nat /\ l \in Nat
      BY <1>13, <2>3
    <3> HIDE DEF q, l
    <3>2. q + l \in Nat
      BY <3>1
    <3>3. QED
      BY <3>2 DEF q, l
  <2>5. /\ x \in ConRec /\ (x.open <=> b.open) /\ x.client = b.client
        /\ x.sent = b.sent /\ x.len = b.len /\ x.reply = b.reply
    BY <2>3, <2>4, SetRequest
  <2> HIDE DEF x, l
  <2>6. QED
    BY <1>11, <2>2, <2>3, <2>5, ConSound
<1>16. CASE ~(a.len > 0) /\ first # 0
  <2> DEFINE i == inbox[first]
  <2>1. first \in 1..Len(inbox) /\ s[i].kind # "part"
    BY <1>13, <1>16, FirstEnd
  <2>2. v \in Answer(u, c, i)
    BY <1>12, <1>16
  <2>3. MayAnswer(u, c, i)
    <3>1. a.len = 0
      BY <1>1, <1>16, NothingToSend
    <3>2. Inbox(s, m)
      BY <1>1 DEF ClientInv
    <3>3. i \in 1..m.sent /\ \A n \in 1..Len(m.got) : m.got[n][1] < i
      BY <2>1, <3>2 DEF Inbox
    <3>4. \A n \in 1..Len(y.got) : y.got[n][1] <= i
      <4>1. m.got \in Seq(Nat \X Nat) /\ m.sent \in Nat
        BY <1>1, ClientTypes
      <4>2. i \in Nat
        <5> DEFINE e == m.sent
        <5>1. e \in Nat /\ i \in 1..e
          BY <3>3, <4>1
        <5> HIDE DEF e, i
        <5>2. QED
          BY <5>1
      <4> HIDE DEF i
      <4>3. ASSUME NEW n \in 1..Len(m.got)
            PROVE  m.got[n][1] <= i
        <5> DEFINE p == m.got[n][1]
        <5>1. p \in Nat /\ p < i
          BY <3>3, <4>1, GotTypes
        <5> HIDE DEF p
        <5>2. p <= i
          BY <4>2, <5>1
        <5>3. QED
          BY <5>2 DEF p
      <4>4. QED
        BY <1>4, <4>3
    <3>5. u.cons[c].client = k
      BY <1>10
    <3> HIDE DEF i, s, a, m, k
    <3>6. /\ u.cons[c].len = 0 /\ u.cons[c].request <= RequestMax /\ u.buffered <= config.limit
          /\ u.net[u.cons[c].client] = y /\ config.script[u.cons[c].client] = s
      BY <1>10, <3>1, <3>5 DEF a, s
    <3>7. QED
      BY <1>4, <2>1, <3>3, <3>4, <3>6 DEF MayAnswer
  <2>4. QED
    BY <1>11, <2>2, <2>3, AnswerSound
<1>17. QED
  BY <1>14, <1>15, <1>16

\* apiReadRequest
LEMMA ReadRequestSound ==
  ASSUME NEW w, NEW c, OpenAt(w, c), NEW v \in ReadRequest(w, c)
  PROVE  Sound(v, config)
<1>1. Sound(w, config) /\ config \in Configs /\ At(w, c)
  BY DEF OpenAt, At
<1>2. w.buffered \in Int /\ config.limit \in Nat /\ RequestMax \in Nat /\ w.cons[c].request \in Nat
      /\ w.cons[c] \in ConRec
      /\ Tie(config.script[w.cons[c].client], w.net[w.cons[c].client], w.cons[c])
  BY OpenFacts, WorldTypes, ConfigTypes, ConTypes
<1>3. \/ v = w
      \/ w.cons[c].request > RequestMax /\ v = Refuse(w, c, 400)
      \/ ~(w.buffered > config.limit) /\ ~(w.cons[c].request > RequestMax) /\ v \in ReadData(w, c)
      \/ v = CloseCon(w, c)
  BY DEF ReadRequest, Shutdown
<1>4. CASE w.cons[c].request > RequestMax /\ v = Refuse(w, c, 400)
  <2>1. w.cons[c].len = 0
    BY <1>2, <1>4, NothingToSend
  <2>2. QED
    BY <1>4, <2>1, RefuseSound
<1>5. CASE ~(w.buffered > config.limit) /\ ~(w.cons[c].request > RequestMax) /\ v \in ReadData(w, c)
  <2>1. w.buffered <= config.limit /\ w.cons[c].request <= RequestMax
    BY <1>2, <1>5
  <2>2. QED
    BY <1>5, <2>1, ReadDataSound
<1>6. CASE v = CloseCon(w, c)
  BY <1>1, <1>6, CloseSound
<1>7. QED
  BY <1>1, <1>3, <1>4, <1>5, <1>6

-----------------------------------------------------------------------------
(* Waking up.                                                              *)

\* A connection that is told 500 and closed; its reply may be given up in the middle.
LEMMA ToldAndClosed ==
  ASSUME NEW w, NEW c, OpenAt(w, c)
  PROVE  Sound(CloseCon(SendStatus(w, c, 500), c), config)
<1> DEFINE k == w.cons[c].client   s == config.script[k]   m == w.net[k]
           y == Told(m, 500)   z == Gone(y)   u == [w EXCEPT !.net[k] = y]
<1>1. /\ config.structs \in Nat /\ w \in Worlds(config.structs) /\ c \in 1..config.structs
      /\ k \in Clients /\ m \in ClientRec /\ ClientInv(s, m)
      /\ m.status = "open" /\ w.cons[c] \in ConRec /\ w.cons[c].open
      /\ Tie(s, m, w.cons[c])
      /\ Sound(w, config) /\ config \in Configs
  BY OpenFacts
<1>2. SendStatus(w, c, 500) = u \/ SendStatus(w, c, 500) = w
  BY DEF SendStatus, Told
<1>3. Sound(CloseCon(w, c), config)
  BY CloseSound DEF OpenAt
<1>4. y \in ClientRec /\ ClientInv(s, y)
  <2>1. Unbroken(s, m.got)
    BY <1>1 DEF Tie
  <2>2. QED
    BY <1>1, <2>1, ToldInv
<1>5. z \in ClientRec /\ z.status = "closed" /\ ClientInv(s, z)
  BY <1>4, GoneInv
<1>6. u = Put(w, c, y, w.cons[c], w.buffered)
  BY PutNet
<1> HIDE DEF y, u
<1>7. /\ w.net \in [Clients -> ClientRec] /\ w.cons \in [1..config.structs -> ConRec]
      /\ w.backlog \in Seq(Clients) /\ w.stack \in Seq(1..config.structs)
      /\ w.buffered \in Int /\ w.exit \in BOOLEAN
  BY <1>1, WorldTypes
<1>8. /\ u.net = [w.net EXCEPT ![k] = y] /\ u.cons = w.cons /\ u.backlog = w.backlog
      /\ u.stack = w.stack /\ u.buffered = w.buffered /\ u.exit = w.exit
  <2>1. [w.cons EXCEPT ![c] = w.cons[c]] = w.cons
    BY <1>7
  <2>2. QED
    BY <1>6, <2>1 DEF Put
<1>9. u \in Worlds(config.structs)
  <2>1. [w.net EXCEPT ![k] = y] \in [Clients -> ClientRec] /\ [w.cons EXCEPT ![c] = w.cons[c]] = w.cons
    BY <1>1, <1>4, <1>7
  <2>2. QED
    BY <1>6, <1>7, <2>1 DEF Put, Worlds
<1>10. CloseCon(u, c) = End(u, c, z)
  <2>1. u.net[k] = y
    BY <1>1, <1>7, <1>8
  <2>2. u.cons[c].open /\ u.cons[c].client = k
    BY <1>1, <1>8
  <2>3. CloseCon(u, c) = End(u, c, Gone(u.net[u.cons[c].client]))
    BY <1>1, <1>9, <2>2, CloseForm
  <2>4. QED
    BY <2>1, <2>2, <2>3
<1> HIDE DEF z
<1>11. End(u, c, z) = End(w, c, z)
  <2>1. [u.net EXCEPT ![k] = z] = [w.net EXCEPT ![k] = z]
    BY <1>7, <1>8
  <2>2. QED
    BY <1>8, <2>1, Zenon DEF End
<1>12. CanEnd(w, config, c, z)
  BY <1>1, <1>5 DEF CanEnd
<1>13. Sound(End(w, c, z), config)
  BY <1>1, <1>12, EndSound
<1>14. QED
  BY <1>2, <1>3, <1>10, <1>11, <1>13

\* One event more was handled.
LEMMA WokenSound ==
  ASSUME NEW w, NEW c, At(w, c), NEW v \in Woken(w, c)
  PROVE  Sound(v, config)
<1>1. CASE ~w.cons[c].open
  BY <1>1 DEF Woken, At
<1>2. CASE w.cons[c].open
  <2> DEFINE a == w.cons[c]   x == [a EXCEPT !.wakeups = a.wakeups + 1]   u == [w EXCEPT !.cons[c] = x]
  <2>1. OpenAt(w, c)
    BY <1>2 DEF OpenAt
  <2>2. v = u \/ v = CloseCon(SendStatus(u, c, 500), c)
    <3>1. [w EXCEPT !.cons[c].wakeups = @ + 1] = u
      OBVIOUS
    <3> HIDE DEF u
    <3>2. QED
      BY <1>2, <3>1 DEF Woken
  <2>3. a \in ConRec /\ a.wakeups \in Nat
    BY <2>1, OpenFacts, ConTypes
  <2>4. /\ x \in ConRec /\ (x.open <=> a.open) /\ x.client = a.client /\ x.sent = a.sent /\ x.len = a.len
        /\ x.reply = a.reply /\ x.request = a.request
    <3> DEFINE q == a.wakeups + 1
    <3>1. q \in Nat
      BY <2>3
    <3> HIDE DEF q
    <3>2. QED
      BY <2>3, <3>1, SetWakeups DEF q
  <2> HIDE DEF x
  <2>5. Sound(u, config) /\ OpenAt(u, c)
    BY <2>1, <2>4, ConSound
  <2> HIDE DEF u
  <2>6. QED
    BY <2>2, <2>5, ToldAndClosed
<1>3. QED
  BY <1>1, <1>2

-----------------------------------------------------------------------------
(* Closing several connections.                                            *)

\* The connections in S are closed one by one.
LEMMA CloseAllSound ==
  ASSUME NEW w, config \in Configs, Sound(w, config), NEW S \in SUBSET (1..config.structs)
  PROVE  Sound(CloseAll(w, S), config) /\ CloseAll(w, S).backlog = w.backlog
<1>1. IsFiniteSet(S)
  <2>1. config.structs \in Nat
    BY ConfigTypes
  <2>2. IsFiniteSet(1..config.structs)
    BY <2>1, FS_Interval
  <2>3. QED
    BY <2>2, FS_Subset
<1>2. PICK g : IsFold("close", 0, w, S, g) /\ CloseAll(w, S) = g[S]
  BY <1>1, CloseFold
<1> DEFINE T == {s \in SUBSET S : Sound(g[s], config) /\ g[s].backlog = w.backlog}
<1>3. ASSUME NEW s \in SUBSET S, \A t \in SUBSET S : t \subseteq s /\ t # s => t \in T
      PROVE  s \in T
  <2>1. CASE s = {}
    <3>1. g[s] = w
      BY <1>2, <2>1 DEF IsFold
    <3>2. QED
      BY <3>1
  <2>2. CASE s # {}
    <3> DEFINE c == Item(s)   r == s \ {c}
    <3>1. c \in s /\ r \in SUBSET S /\ r \subseteq s /\ r # s
      BY <2>2 DEF Item
    <3>2. Sound(g[r], config) /\ g[r].backlog = w.backlog
      BY <1>3, <3>1
    <3>3. g[s] = CloseCon(g[r], c)
      BY <1>2, <2>2 DEF IsFold, Folded, Chosen
    <3> HIDE DEF r, c
    <3>4. At(g[r], c)
      BY <3>1, <3>2 DEF At
    <3>5. QED
      BY <3>2, <3>3, <3>4, CloseSound
  <2>3. QED
    BY <2>1, <2>2
<1>4. SUBSET S \subseteq T
  <2> HIDE DEF T
  <2>1. QED
    BY <1>1, <1>3, SubsetInduction
<1>5. QED
  BY <1>2, <1>4

-----------------------------------------------------------------------------
(* Accepting.                                                              *)

\* The first of those that wait has nothing yet; the others wait on.
LEMMA BacklogHead ==
  ASSUME NEW w, config \in Configs, Sound(w, config), w.backlog # <<>>
  PROVE  /\ Head(w.backlog) \in Clients /\ w.net[Head(w.backlog)] \in ClientRec
         /\ Head(w.backlog) = w.backlog[1]
         /\ w.net[Head(w.backlog)].status = "queued" /\ w.net[Head(w.backlog)].got = <<>>
         /\ ClientInv(config.script[Head(w.backlog)], w.net[Head(w.backlog)])
         /\ Tail(w.backlog) \in Seq(Clients) /\ Len(Tail(w.backlog)) = Len(w.backlog) - 1
         /\ Len(w.backlog) \in Nat /\ Len(w.backlog) > 0
         /\ \A i \in 1..Len(Tail(w.backlog)) : Tail(w.backlog)[i] = w.backlog[i + 1]
<1>1. w \in Worlds(config.structs) /\ config.structs \in Nat
  BY ConfigTypes DEF Sound
<1>2. w.backlog \in Seq(Clients) /\ w.net \in [Clients -> ClientRec]
  BY <1>1, WorldTypes
<1> DEFINE B == w.backlog
<1>3. B \in Seq(Clients) /\ B # <<>>
  BY <1>2
<1> HIDE DEF B
<1>4. /\ Head(B) \in Clients /\ Tail(B) \in Seq(Clients) /\ Len(Tail(B)) = Len(B) - 1
      /\ \A i \in 1..Len(Tail(B)) : Tail(B)[i] = B[i + 1]
  BY <1>3, HeadTailProperties
<1>5. Len(B) \in Nat /\ Len(B) > 0 /\ Head(B) = B[1]
  BY <1>3, EmptySeq
<1>6. 1 \in 1..Len(B)
  BY <1>5
<1>7. w.net[Head(B)].status = "queued"
  BY <1>5, <1>6 DEF Sound, Waiting, B
<1>8. ClientInv(config.script[Head(B)], w.net[Head(B)])
  BY <1>4 DEF Sound, ClientsInv
<1>9. w.net[Head(B)].got = <<>>
  BY <1>7, <1>8 DEF ClientInv
<1>10. QED
  BY <1>2, <1>4, <1>5, <1>7, <1>8, <1>9 DEF B

\* When the first one is served the others still wait.
LEMMA StillWaiting ==
  ASSUME NEW w, NEW v, config \in Configs, Sound(w, config), w.backlog # <<>>,
         v.backlog = Tail(w.backlog), \A m \in Clients \ {Head(w.backlog)} : v.net[m] = w.net[m]
  PROVE  Waiting(v)
<1>1. /\ Head(w.backlog) = w.backlog[1]
      /\ Tail(w.backlog) \in Seq(Clients) /\ Len(Tail(w.backlog)) = Len(w.backlog) - 1
      /\ Len(w.backlog) \in Nat /\ Len(w.backlog) > 0
      /\ \A i \in 1..Len(Tail(w.backlog)) : Tail(w.backlog)[i] = w.backlog[i + 1]
  BY BacklogHead
<1> DEFINE B == w.backlog   T == v.backlog
<1>2. /\ \A i \in 1..Len(B) : w.net[B[i]].status = "queued"
      /\ \A i, j \in 1..Len(B) : B[i] = B[j] => i = j
  BY DEF Sound, Waiting
<1>3. T \in Seq(Clients) /\ Len(T) = Len(B) - 1 /\ Len(B) \in Nat /\ Len(B) > 0
      /\ \A i \in 1..Len(T) : T[i] = B[i + 1]
  BY <1>1
<1>4. \A m \in Clients : m # B[1] => v.net[m] = w.net[m]
  BY <1>1
<1> HIDE DEF B, T
<1>5. \A i \in 1..Len(T) : i + 1 \in 1..Len(B) /\ i + 1 # 1 /\ T[i] \in Clients
  <2>1. Len(T) \in Nat
    BY <1>3
  <2>2. \A i \in 1..Len(T) : T[i] \in Clients
    BY <1>3, ElementOfSeq
  <2>3. QED
    BY <1>3, <2>1, <2>2
<1>6. \A i \in 1..Len(T) : T[i] # B[1]
  <2>1. 1 \in 1..Len(B)
    BY <1>3
  <2>2. QED
    BY <1>2, <1>3, <1>5, <2>1
<1>7. \A i \in 1..Len(T) : v.net[T[i]].status = "queued"
  BY <1>2, <1>3, <1>4, <1>5, <1>6
<1>8. \A i, j \in 1..Len(T) : T[i] = T[j] => i = j
  <2> SUFFICES ASSUME NEW i \in 1..Len(T), NEW j \in 1..Len(T), T[i] = T[j]
               PROVE  i = j
    OBVIOUS
  <2>1. B[i + 1] = B[j + 1]
    BY <1>3
  <2>2. i + 1 = j + 1
    BY <1>2, <1>5, <2>1
  <2>3. QED
    BY <2>2
<1>9. QED
  BY <1>7, <1>8 DEF Waiting, T

\* A client that is turned away.
Turned(k) == Told(Gone(k), 503)

\* It has received that, and nothing before it.
LEMMA TurnedInv ==
  ASSUME NEW s, NEW k \in ClientRec, ClientInv(s, k), k.got = <<>>
  PROVE  Turned(k) \in ClientRec /\ Turned(k).status = "closed" /\ ClientInv(s, Turned(k))
<1> DEFINE a == k.status  b == k.sent  d == k.inbox  e == k.gone  f == k.room  g == k.got
           h == Append(k.got, Status(503))
           z == [k EXCEPT !.status = "closed"]   y == [z EXCEPT !.inbox = <<>>]
           x == [y EXCEPT !.got = h]
<1>1. k = [status |-> a, sent |-> b, inbox |-> d, gone |-> e, room |-> f, got |-> g]
      /\ b \in Nat /\ e \in {"no", "half", "reset"} /\ f \in BOOLEAN
  BY ClientTypes
<1>2. h \in Seq(Nat \X Nat) /\ Len(h) = 1 /\ h[1][1] = 0
  <2>1. h = <<Status(503)>>
    OBVIOUS
  <2>2. Status(503) \in Nat \X Nat /\ Status(503)[1] = 0
    BY DEF Status
  <2>3. QED
    BY <2>1, <2>2
<1>3. b <= Len(s)
  BY DEF ClientInv
<1> HIDE DEF a, b, d, e, f, g, h
<1>4. z = [status |-> "closed", sent |-> b, inbox |-> d, gone |-> e, room |-> f, got |-> g]
  BY <1>1
<1> HIDE DEF z
<1>5. y = [status |-> "closed", sent |-> b, inbox |-> <<>>, gone |-> e, room |-> f, got |-> g]
  BY <1>4
<1> HIDE DEF y
<1>6. x = [status |-> "closed", sent |-> b, inbox |-> <<>>, gone |-> e, room |-> f, got |-> h]
      /\ y.got = g
  BY <1>5
<1>7. Turned(k) = x
  <2>1. Append(y.got, Status(503)) = h
    BY <1>6 DEF h, g
  <2>2. QED
    BY <2>1 DEF Turned, Told, Gone, y, z
<1> HIDE DEF x
<1>8. x \in ClientRec
  BY <1>1, <1>2, <1>6 DEF ClientRec
<1>9. x.got = h /\ x.inbox = <<>> /\ x.sent = b /\ x.status = "closed" /\ Len(x.inbox) = 0
  BY <1>6
<1>10. InOrder(s, b, h)
  BY <1>2 DEF InOrder, UnitInOrder
<1>11. Inbox(s, x)
  BY <1>9 DEF Inbox
<1>12. ClientInv(s, x)
  BY <1>3, <1>9, <1>10, <1>11 DEF ClientInv
<1>13. QED
  BY <1>7, <1>8, <1>9, <1>12

\* the world in which the first of those that wait was served, and became y
Served(w, y, cs, st) ==
    [net |-> [w.net EXCEPT ![Head(w.backlog)] = y], backlog |-> Tail(w.backlog), cons |-> cs,
     stack |-> st, buffered |-> w.buffered, exit |-> w.exit]

\* It is a world,
LEMMA ServedWorld ==
  ASSUME NEW w, config \in Configs, Sound(w, config), w.backlog # <<>>, NEW y \in ClientRec,
         NEW cs \in [1..config.structs -> ConRec], NEW st \in Seq(1..config.structs)
  PROVE  Served(w, y, cs, st) \in Worlds(config.structs)
<1>1. w \in Worlds(config.structs) /\ config.structs \in Nat
  BY ConfigTypes DEF Sound
<1>2. w.net \in [Clients -> ClientRec] /\ w.buffered \in Int /\ w.exit \in BOOLEAN
  BY <1>1, WorldTypes
<1>3. Tail(w.backlog) \in Seq(Clients)
  BY BacklogHead
<1>4. [w.net EXCEPT ![Head(w.backlog)] = y] \in [Clients -> ClientRec]
  BY <1>2
<1>5. QED
  BY <1>2, <1>3, <1>4 DEF Served, Worlds

\* ... whose clients are as they were, but for the first.
LEMMA ServedClients ==
  ASSUME NEW w, config \in Configs, Sound(w, config), w.backlog # <<>>, NEW y \in ClientRec,
         ClientInv(config.script[Head(w.backlog)], y), NEW cs, NEW st
  PROVE  LET v == Served(w, y, cs, st) IN
         /\ ClientsInv(v, config.script) /\ Waiting(v)
         /\ v.net[Head(w.backlog)] = y
         /\ \A m \in Clients \ {Head(w.backlog)} : v.net[m] = w.net[m]
         /\ v.cons = cs /\ v.stack = st /\ v.buffered = w.buffered /\ v.backlog = Tail(w.backlog)
<1> DEFINE v == Served(w, y, cs, st)   k == Head(w.backlog)
<1>1. w \in Worlds(config.structs) /\ config.structs \in Nat
  BY ConfigTypes DEF Sound
<1>2. w.net \in [Clients -> ClientRec] /\ k \in Clients
  BY <1>1, WorldTypes, BacklogHead
<1>3. /\ v.net = [w.net EXCEPT ![k] = y] /\ v.backlog = Tail(w.backlog)
      /\ v.cons = cs /\ v.stack = st /\ v.buffered = w.buffered
  BY DEF Served
<1>4. v.net[k] = y /\ \A m \in Clients \ {k} : v.net[m] = w.net[m]
  BY <1>2, <1>3
<1> HIDE DEF v
<1>5. Waiting(v)
  BY <1>3, <1>4, StillWaiting
<1>6. ClientsInv(v, config.script)
  <2>1. ClientsInv(w, config.script)
    BY DEF Sound
  <2>2. QED
    BY <1>2, <1>4, <2>1 DEF ClientsInv
<1>7. QED
  BY <1>3, <1>4, <1>5, <1>6 DEF v

\* How a client is turned away.
LEMMA RejectForm ==
  ASSUME NEW w, config \in Configs, Sound(w, config), w.backlog # <<>>
  PROVE  Reject(w, Head(w.backlog)) = Served(w, Turned(w.net[Head(w.backlog)]), w.cons, w.stack)
<1> DEFINE k == Head(w.backlog)   y == Turned(w.net[k])
           o == w.net  p == w.backlog  q == w.cons  s == w.stack  u == w.buffered  e == w.exit
           tp == Tail(p)   oy == [o EXCEPT ![k] = y]
           z == [w EXCEPT !.backlog = tp]   v == [z EXCEPT !.net[k] = y]
<1>1. w = [net |-> o, backlog |-> p, cons |-> q, stack |-> s, buffered |-> u, exit |-> e]
  <2>1. w \in Worlds(config.structs) /\ config.structs \in Nat
    BY ConfigTypes DEF Sound
  <2>2. QED
    BY <2>1, WorldTypes
<1>2. y = [w.net[k] EXCEPT !.status = "closed", !.inbox = <<>>,
                           !.got = Append(w.net[k].got, Status(503))]
  <2>1. Gone(w.net[k]).got = w.net[k].got
    BY BacklogHead DEF Gone, ClientRec
  <2>2. QED
    BY <2>1 DEF Turned, Told, Gone
<1>3. Reject(w, k) = v
  <2>1. Reject(w, k) = [w EXCEPT !.backlog = tp,
            !.net[k] = [w.net[k] EXCEPT !.status = "closed", !.inbox = <<>>,
                                        !.got = Append(w.net[k].got, Status(503))]]
    BY DEF Reject
  <2> HIDE DEF y, z
  <2>2. Reject(w, k) = [w EXCEPT !.backlog = tp, !.net[k] = y]
    BY <1>2, <2>1
  <2>3. QED
    BY <2>2 DEF z
<1> HIDE DEF o, p, q, s, u, e, k, y, tp
<1>4. z = [net |-> o, backlog |-> tp, cons |-> q, stack |-> s, buffered |-> u, exit |-> e]
  BY <1>1
<1> HIDE DEF z
<1>5. v = [net |-> oy, backlog |-> tp, cons |-> q, stack |-> s, buffered |-> u, exit |-> e]
  BY <1>4
<1> HIDE DEF v
<1>6. v = Served(w, y, w.cons, w.stack)
  BY <1>5, Zenon DEF Served, oy, tp, o, p, q, s, u, e, k
<1>7. QED
  BY <1>3, <1>6 DEF k, y

\* No struct is free: the client is told 503.
LEMMA RejectSound ==
  ASSUME NEW w, config \in Configs, Sound(w, config), w.backlog # <<>>
  PROVE  Sound(Reject(w, Head(w.backlog)), config) /\ Reject(w, Head(w.backlog)).backlog = Tail(w.backlog)
<1> DEFINE k == Head(w.backlog)   y == Turned(w.net[k])   v == Served(w, y, w.cons, w.stack)
           n == config.structs
<1>1. /\ k \in Clients /\ w.net[k] \in ClientRec /\ w.net[k].status = "queued"
      /\ w.net[k].got = <<>> /\ ClientInv(config.script[k], w.net[k])
  BY BacklogHead
<1>2. y \in ClientRec /\ y.status = "closed" /\ ClientInv(config.script[k], y)
  <2> DEFINE m == w.net[k]   s == config.script[k]
  <2>1. m \in ClientRec /\ ClientInv(s, m) /\ m.got = <<>>
    BY <1>1
  <2> HIDE DEF m, s
  <2>2. Turned(m) \in ClientRec /\ Turned(m).status = "closed" /\ ClientInv(s, Turned(m))
    BY <2>1, TurnedInv
  <2>3. QED
    BY <2>2 DEF m, s
<1>3. n \in Nat /\ w.cons \in [1..n -> ConRec] /\ w.stack \in Seq(1..n)
  BY ConfigTypes, WorldTypes DEF Sound
<1> HIDE DEF y
<1>4. v \in Worlds(n)
  BY <1>2, <1>3, ServedWorld
<1>5. /\ ClientsInv(v, config.script) /\ Waiting(v)
      /\ v.net[k] = y /\ \A m \in Clients \ {k} : v.net[m] = w.net[m]
      /\ v.cons = w.cons /\ v.stack = w.stack /\ v.buffered = w.buffered
      /\ v.backlog = Tail(w.backlog)
  BY <1>2, ServedClients
<1> HIDE DEF v, k, n
<1>6. \A m \in Clients : v.net[m] = w.net[m] \/ (v.net[m].status # "open" /\ w.net[m].status # "open")
  <2>1. v.net[k].status # "open" /\ w.net[k].status # "open"
    BY <1>1, <1>2, <1>5
  <2>2. ASSUME NEW m \in Clients, m # k
        PROVE  v.net[m] = w.net[m]
    BY <1>5, <2>2
  <2>3. ASSUME NEW m \in Clients
        PROVE  v.net[m] = w.net[m] \/ (v.net[m].status # "open" /\ w.net[m].status # "open")
    <3>1. CASE m = k
      BY <2>1, <3>1
    <3>2. CASE m # k
      BY <2>2, <3>2
    <3>3. QED
      BY <3>1, <3>2
  <2>4. QED
    BY <2>3
<1>7. Structs(v)
  <2>1. Structs(w)
    BY DEF Sound
  <2>2. \A m \in Clients : v.net[m].status = "open" <=> w.net[m].status = "open"
    BY <1>6
  <2>3. QED
    BY <1>5, <2>1, <2>2 DEF Structs
<1>8. Ties(v, config.script)
  <2>1. Ties(w, config.script) /\ Structs(w)
    BY DEF Sound
  <2>2. \A c \in OpenIn(w.cons) : v.net[w.cons[c].client] = w.net[w.cons[c].client]
    BY <1>6, <2>1 DEF Structs
  <2>3. QED
    BY <1>5, <2>1, <2>2 DEF Ties
<1>9. Bytes(v, config)
  BY <1>5 DEF Sound, Bytes
<1>10. Sound(v, config)
  BY <1>4, <1>5, <1>7, <1>8, <1>9 DEF Sound, n
<1>11. QED
  BY <1>5, <1>10, RejectForm DEF v, k, y

\* The stack without its last element.
LEMMA FrontFacts ==
  ASSUME NEW S, NEW s \in Seq(S), s # <<>>
  PROVE  /\ Front(s) \in Seq(S) /\ Len(Front(s)) = Len(s) - 1 /\ Len(s) \in Nat /\ Len(s) > 0
         /\ \A i \in 1..Len(Front(s)) : Front(s)[i] = s[i]
         /\ Last(s) = s[Len(s)] /\ Last(s) \in S
<1>1. Len(s) \in Nat /\ Len(s) > 0
  BY EmptySeq
<1> DEFINE n == Len(s) - 1   f == SubSeq(s, 1, n)
<1>2. n \in Nat /\ \A i \in 1..n : s[i] \in S
  BY <1>1, ElementOfSeq
<1> HIDE DEF n
<1>3. f \in Seq(S) /\ Len(f) = n /\ \A i \in 1..n : f[i] = s[i]
  <2>1. /\ f \in Seq(S) /\ Len(f) = (IF 1 <= n THEN n - 1 + 1 ELSE 0)
        /\ \A i \in 1..(n - 1 + 1) : f[i] = s[1 + i - 1]
    BY <1>2, SubSeqProperties
  <2> HIDE DEF f
  <2>2. Len(f) = n
    BY <1>2, <2>1
  <2>3. \A i \in 1..n : i \in 1..(n - 1 + 1) /\ 1 + i - 1 = i
    BY <1>2
  <2>4. QED
    BY <2>1, <2>2, <2>3
<1>4. Last(s) = s[Len(s)] /\ Last(s) \in S
  BY <1>1 DEF Last
<1>5. QED
  BY <1>1, <1>3, <1>4 DEF Front, n

\* Of n structs the one on top of the stack is given to client k between the worlds w and v.
Gives(n, w, v, c, k) ==
    /\ n \in Nat /\ c \in 1..n /\ k \in Clients /\ Structs(w)
    /\ w.stack \in Seq(1..n) /\ w.stack # <<>> /\ v.stack = Front(w.stack) /\ c = Last(w.stack)
    /\ DOMAIN v.cons = 1..n /\ DOMAIN w.cons = 1..n
    /\ OpenIn(w.cons) \subseteq 1..n /\ OpenIn(v.cons) = OpenIn(w.cons) \union {c}
    /\ \A d \in (1..n) \ {c} : v.cons[d].client = w.cons[d].client
    /\ v.cons[c].client = k /\ w.net[k].status # "open" /\ v.net[k].status = "open"
    /\ \A m \in Clients \ {k} : v.net[m].status = w.net[m].status

\* A struct that is taken from the stack is not on it any more, and is open.
LEMMA StructsTake ==
  ASSUME NEW n, NEW w, NEW v, NEW c, NEW k, Gives(n, w, v, c, k)
  PROVE  Structs(v) /\ c \notin OpenIn(w.cons)
<1> USE DEF Gives
<1> DEFINE s == w.stack   t == v.stack
<1>1. /\ \A i, j \in 1..Len(s) : s[i] = s[j] => i = j
      /\ \A d \in 1..n : d \in OpenIn(w.cons) <=> \A i \in 1..Len(s) : s[i] # d
      /\ \A d \in OpenIn(w.cons) : w.cons[d].client \in Clients /\ w.net[w.cons[d].client].status = "open"
      /\ \A d, e \in OpenIn(w.cons) : w.cons[d].client = w.cons[e].client => d = e
      /\ \A m \in Clients : w.net[m].status = "open" => \E d \in OpenIn(w.cons) : w.cons[d].client = m
  BY DEF Structs
<1>2. /\ Len(t) = Len(s) - 1 /\ Len(s) \in Nat /\ Len(s) > 0
      /\ \A i \in 1..Len(t) : t[i] = s[i]
      /\ s[Len(s)] = c
  <2>1. s \in Seq(1..n) /\ s # <<>> /\ t = Front(s) /\ c = Last(s)
    OBVIOUS
  <2> HIDE DEF s, t
  <2>2. QED
    BY <2>1, FrontFacts
<1>13. /\ n \in Nat /\ c \in 1..n /\ k \in Clients /\ DOMAIN v.cons = 1..n /\ DOMAIN w.cons = 1..n
       /\ OpenIn(w.cons) \subseteq 1..n /\ OpenIn(v.cons) = OpenIn(w.cons) \union {c}
  OBVIOUS
<1>14. /\ \A d \in (1..n) \ {c} : v.cons[d].client = w.cons[d].client
       /\ v.cons[c].client = k /\ w.net[k].status # "open" /\ v.net[k].status = "open"
       /\ \A m \in Clients \ {k} : v.net[m].status = w.net[m].status
  OBVIOUS
<1> HIDE DEF Gives
<1> USE <1>13, <1>14
<1> HIDE DEF s, t
<1>3. \A i \in 1..Len(t) : i \in 1..Len(s) /\ i # Len(s)
  BY <1>2
<1>4. Len(s) \in 1..Len(s) /\ \A i \in 1..Len(s) : i \in 1..Len(t) \/ i = Len(s)
  BY <1>2
<1>5. c \notin OpenIn(w.cons)
  BY <1>1, <1>2, <1>4
<1>6. \A i, j \in 1..Len(t) : t[i] = t[j] => i = j
  BY <1>1, <1>2, <1>3
<1>7. \A d \in 1..n : d \in OpenIn(v.cons) <=> \A i \in 1..Len(t) : t[i] # d
  <2>1. ASSUME NEW d \in 1..n, d # c
        PROVE  d \in OpenIn(v.cons) <=> \A i \in 1..Len(t) : t[i] # d
    <3>1. (\A i \in 1..Len(t) : t[i] # d) <=> (\A i \in 1..Len(s) : s[i] # d)
      <4>1. ASSUME \A i \in 1..Len(t) : t[i] # d, NEW i \in 1..Len(s)
            PROVE  s[i] # d
        BY <1>2, <1>4, <2>1, <4>1
      <4>2. ASSUME \A i \in 1..Len(s) : s[i] # d, NEW i \in 1..Len(t)
            PROVE  t[i] # d
        BY <1>2, <1>3, <4>2
      <4>3. QED
        BY <4>1, <4>2
    <3>2. QED
      BY <1>1, <2>1, <3>1
  <2>2. c \in OpenIn(v.cons) /\ \A i \in 1..Len(t) : t[i] # c
    BY <1>1, <1>2, <1>3, <1>4
  <2>3. QED
    BY <2>1, <2>2
<1>8. ASSUME NEW d \in OpenIn(w.cons)
      PROVE  d # c /\ v.cons[d].client = w.cons[d].client /\ w.cons[d].client \in Clients \ {k}
             /\ v.net[w.cons[d].client].status = w.net[w.cons[d].client].status
  <2>1. d \in 1..n /\ d # c /\ w.cons[d].client \in Clients /\ w.net[w.cons[d].client].status = "open"
    BY <1>1, <1>5
  <2>2. w.cons[d].client # k
    BY <2>1
  <2>3. QED
    BY <2>1, <2>2
<1>9. \A d \in OpenIn(v.cons) : v.cons[d].client \in Clients /\ v.net[v.cons[d].client].status = "open"
  <2> SUFFICES ASSUME NEW d \in OpenIn(v.cons)
               PROVE  v.cons[d].client \in Clients /\ v.net[v.cons[d].client].status = "open"
    OBVIOUS
  <2>1. CASE d = c
    BY <2>1
  <2>2. CASE d \in OpenIn(w.cons)
    <3>1. w.cons[d].client \in Clients /\ w.net[w.cons[d].client].status = "open"
      BY <1>1, <2>2
    <3>2. /\ v.cons[d].client = w.cons[d].client
          /\ v.net[w.cons[d].client].status = w.net[w.cons[d].client].status
      BY <1>8, <2>2
    <3>3. QED
      BY <3>1, <3>2
  <2>3. QED
    BY <2>1, <2>2
<1>10. \A d, e \in OpenIn(v.cons) : v.cons[d].client = v.cons[e].client => d = e
  <2> SUFFICES ASSUME NEW d \in OpenIn(v.cons), NEW e \in OpenIn(v.cons),
                      v.cons[d].client = v.cons[e].client
               PROVE  d = e
    OBVIOUS
  <2>1. \A f \in OpenIn(v.cons) : f = c \/ f \in OpenIn(w.cons)
    OBVIOUS
  <2>2. \A f \in OpenIn(w.cons) : v.cons[f].client = w.cons[f].client /\ v.cons[f].client # k
    BY <1>8
  <2>3. CASE d \in OpenIn(w.cons) /\ e \in OpenIn(w.cons)
    BY <1>1, <2>2, <2>3
  <2>4. CASE d = c /\ e \in OpenIn(w.cons)
    BY <2>2, <2>4
  <2>5. CASE e = c /\ d \in OpenIn(w.cons)
    BY <2>2, <2>5
  <2>6. QED
    BY <2>1, <2>3, <2>4, <2>5
<1>11. \A m \in Clients : v.net[m].status = "open" => \E d \in OpenIn(v.cons) : v.cons[d].client = m
  <2> SUFFICES ASSUME NEW m \in Clients, v.net[m].status = "open"
               PROVE  \E d \in OpenIn(v.cons) : v.cons[d].client = m
    OBVIOUS
  <2>1. CASE m = k
    BY <2>1
  <2>2. CASE m # k
    <3>1. PICK d \in OpenIn(w.cons) : w.cons[d].client = m
      BY <1>1, <2>2
    <3>2. d \in OpenIn(v.cons) /\ v.cons[d].client = m
      BY <1>8, <3>1
    <3>3. QED
      BY <3>2
  <2>3. QED
    BY <2>1, <2>2
<1>12. QED
  BY <1>5, <1>6, <1>7, <1>9, <1>10, <1>11 DEF Structs, t

\* A client that is accepted.
Opened(k) == [k EXCEPT !.status = "open"]

\* It is as it was.
LEMMA OpenedInv ==
  ASSUME NEW s, NEW k \in ClientRec, ClientInv(s, k)
  PROVE  /\ Opened(k) \in ClientRec /\ Opened(k).status = "open" /\ ClientInv(s, Opened(k))
         /\ Opened(k).got = k.got
<1> DEFINE a == k.status  b == k.sent  d == k.inbox  e == k.gone  f == k.room  g == k.got
           y == [k EXCEPT !.status = "open"]
<1>1. k = [status |-> a, sent |-> b, inbox |-> d, gone |-> e, room |-> f, got |-> g]
  BY ClientTypes
<1>0. /\ b \in Nat /\ e \in {"no", "half", "reset"} /\ f \in BOOLEAN
      /\ d \in Seq(Nat) /\ g \in Seq(Nat \X Nat)
  BY ClientTypes
<1> HIDE DEF a, b, d, e, f, g
<1>2. y = [status |-> "open", sent |-> b, inbox |-> d, gone |-> e, room |-> f, got |-> g]
  BY <1>1
<1> HIDE DEF y
<1>3. y \in ClientRec
  BY <1>0, <1>2 DEF ClientRec
<1>4. y.status = "open" /\ y.sent = k.sent /\ y.inbox = k.inbox /\ y.got = k.got
  BY <1>2 DEF b, d, g
<1>5. ClientInv(s, y)
  BY <1>4 DEF ClientInv, Inbox
<1>6. QED
  BY <1>3, <1>4, <1>5 DEF Opened, y

\* The connection of client k.
NewCon(k) == [FreshCon EXCEPT !.open = TRUE, !.client = k]

\* It has no request yet.
LEMMA NewConFacts ==
  ASSUME NEW k \in Clients
  PROVE  /\ NewCon(k) \in ConRec /\ NewCon(k).open /\ NewCon(k).client = k
         /\ NewCon(k).len = 0 /\ NewCon(k).sent = 0
<1>1. NewCon(k) = [open |-> TRUE, client |-> k, keepalive |-> FALSE, request |-> 0,
                   reply |-> 0, len |-> 0, sent |-> 0, out |-> FALSE, wakeups |-> 0]
  <2> DEFINE no == FALSE   yes == TRUE   z == 0   r == NoClient
             f == [open |-> no, client |-> r, keepalive |-> no, request |-> z,
                   reply |-> z, len |-> z, sent |-> z, out |-> no, wakeups |-> z]
             g == [f EXCEPT !.open = yes]   h == [g EXCEPT !.client = k]
  <2>1. FreshCon = f
    BY DEF FreshCon
  <2>2. NewCon(k) = [[FreshCon EXCEPT !.open = TRUE] EXCEPT !.client = k]
    BY DEF NewCon
  <2>3. NewCon(k) = h
    BY <2>1, <2>2, Zenon
  <2> HIDE DEF no, yes, z, r
  <2>4. g = [open |-> yes, client |-> r, keepalive |-> no, request |-> z,
             reply |-> z, len |-> z, sent |-> z, out |-> no, wakeups |-> z]
    OBVIOUS
  <2> HIDE DEF g
  <2>5. h = [open |-> yes, client |-> k, keepalive |-> no, request |-> z,
             reply |-> z, len |-> z, sent |-> z, out |-> no, wakeups |-> z]
    BY <2>4
  <2> HIDE DEF h
  <2>6. QED
    BY <2>3, <2>5, Zenon DEF no, yes, z
<1>2. QED
  BY <1>1 DEF ConRec

\* the world in which client k, the first of those that wait, has a connection
Taken(w, k) == Served(w, Opened(w.net[k]), [w.cons EXCEPT ![Last(w.stack)] = NewCon(k)], Front(w.stack))

\* How a client is accepted.
LEMMA TakeForm ==
  ASSUME NEW w, config \in Configs, Sound(w, config), w.backlog # <<>>
  PROVE  TakeCon(w, Head(w.backlog)) = Taken(w, Head(w.backlog))
<1> DEFINE k == Head(w.backlog)   y == Opened(w.net[k])   x == NewCon(k)   c == Last(w.stack)
           o == w.net  p == w.backlog  q == w.cons  s == w.stack  u == w.buffered  e == w.exit
           tp == Tail(p)   oy == [o EXCEPT ![k] = y]   fs == Front(s)   qx == [q EXCEPT ![c] = x]
           v1 == [w EXCEPT !.backlog = tp]   v2 == [v1 EXCEPT !.net[k] = y]
           v3 == [v2 EXCEPT !.stack = fs]    v4 == [v3 EXCEPT !.cons[c] = x]
<1>1. w = [net |-> o, backlog |-> p, cons |-> q, stack |-> s, buffered |-> u, exit |-> e]
  <2>1. w \in Worlds(config.structs) /\ config.structs \in Nat
    BY ConfigTypes DEF Sound
  <2>2. QED
    BY <2>1, WorldTypes
<1>2. TakeCon(w, k) = v4
  <2>1. TakeCon(w, k) = [w EXCEPT !.backlog = Tail(w.backlog), !.net[k].status = "open",
                                  !.stack = Front(w.stack),
                                  !.cons[Last(w.stack)] = [FreshCon EXCEPT !.open = TRUE, !.client = k]]
    BY DEF TakeCon
  <2>2. [FreshCon EXCEPT !.open = TRUE, !.client = k] = x
    BY DEF NewCon
  <2>3. [w EXCEPT !.backlog = Tail(w.backlog), !.net[k].status = "open", !.stack = Front(w.stack),
                  !.cons[Last(w.stack)] = [FreshCon EXCEPT !.open = TRUE, !.client = k]]
        = [[[[w EXCEPT !.backlog = tp] EXCEPT !.net[k] = [w.net[k] EXCEPT !.status = "open"]]
              EXCEPT !.stack = fs] EXCEPT !.cons[c] = [FreshCon EXCEPT !.open = TRUE, !.client = k]]
    OBVIOUS
  <2>4. [w.net[k] EXCEPT !.status = "open"] = y
    BY DEF Opened
  <2> HIDE DEF x, y
  <2>5. QED
    BY <2>1, <2>2, <2>3, <2>4, Zenon
<1> HIDE DEF o, p, q, s, u, e, k, y, x, c, tp, fs
<1>3. v1 = [net |-> o, backlog |-> tp, cons |-> q, stack |-> s, buffered |-> u, exit |-> e]
  BY <1>1
<1> HIDE DEF v1
<1>4. v2 = [net |-> oy, backlog |-> tp, cons |-> q, stack |-> s, buffered |-> u, exit |-> e]
  BY <1>3
<1> HIDE DEF v2, oy
<1>5. v3 = [net |-> oy, backlog |-> tp, cons |-> q, stack |-> fs, buffered |-> u, exit |-> e]
  BY <1>4
<1> HIDE DEF v3
<1>6. v4 = [net |-> oy, backlog |-> tp, cons |-> qx, stack |-> fs, buffered |-> u, exit |-> e]
  BY <1>5
<1> HIDE DEF v4
<1>7. v4 = Taken(w, k)
  BY <1>6, Zenon DEF Taken, Served, oy, tp, fs, qx, o, p, q, s, u, e, k, y, x, c
<1>8. QED
  BY <1>2, <1>7 DEF k

\* A struct is free: the client has a connection.
LEMMA TakeSound ==
  ASSUME NEW w, config \in Configs, Sound(w, config), w.backlog # <<>>, w.stack # <<>>
  PROVE  /\ Sound(TakeCon(w, Head(w.backlog)), config)
         /\ TakeCon(w, Head(w.backlog)).backlog = Tail(w.backlog)
<1> DEFINE k == Head(w.backlog)   y == Opened(w.net[k])   x == NewCon(k)   c == Last(w.stack)
           qx == [w.cons EXCEPT ![c] = x]   fs == Front(w.stack)
           v == Served(w, y, qx, fs)   n == config.structs
<1>1. /\ k \in Clients /\ w.net[k] \in ClientRec /\ w.net[k].status = "queued"
      /\ w.net[k].got = <<>> /\ ClientInv(config.script[k], w.net[k])
  BY BacklogHead
<1>2. y \in ClientRec /\ y.status = "open" /\ ClientInv(config.script[k], y) /\ y.got = <<>>
  <2> DEFINE m == w.net[k]   s == config.script[k]
  <2>1. m \in ClientRec /\ ClientInv(s, m) /\ m.got = <<>>
    BY <1>1
  <2> HIDE DEF m, s
  <2>2. Opened(m) \in ClientRec /\ Opened(m).status = "open" /\ ClientInv(s, Opened(m)) /\ Opened(m).got = m.got
    BY <2>1, OpenedInv
  <2>3. QED
    BY <2>1, <2>2 DEF m, s
<1>3. n \in Nat /\ w.cons \in [1..n -> ConRec] /\ w.stack \in Seq(1..n) /\ w.buffered \in Int
  BY ConfigTypes, WorldTypes DEF Sound
<1>4. x \in ConRec /\ x.open /\ x.client = k /\ x.len = 0 /\ x.sent = 0
  BY <1>1, NewConFacts
<1> HIDE DEF y, x
<1>5. fs \in Seq(1..n) /\ c \in 1..n
  BY <1>3, FrontFacts
<1> HIDE DEF fs, c
<1>6. qx \in [1..n -> ConRec]
  BY <1>3, <1>4, <1>5
<1>7. qx[c] = x /\ (\A d \in (1..n) \ {c} : qx[d] = w.cons[d])
  BY <1>3, <1>5
<1> HIDE DEF qx
<1>8. v \in Worlds(n)
  BY <1>2, <1>5, <1>6, ServedWorld
<1>9. /\ ClientsInv(v, config.script) /\ Waiting(v)
      /\ v.net[k] = y /\ \A m \in Clients \ {k} : v.net[m] = w.net[m]
      /\ v.cons = qx /\ v.stack = fs /\ v.buffered = w.buffered
      /\ v.backlog = Tail(w.backlog)
  BY <1>2, ServedClients
<1> HIDE DEF v, k
<1>10. OpenIn(w.cons) \subseteq 1..n /\ OpenIn(qx) = OpenIn(w.cons) \union {c}
  <2>1. DOMAIN qx = 1..n /\ DOMAIN w.cons = 1..n
    BY <1>3, <1>6
  <2>2. \A d \in 1..n : qx[d].open <=> w.cons[d].open \/ d = c
    BY <1>4, <1>7
  <2>3. QED
    BY <1>5, <2>1, <2>2 DEF OpenIn
<1>11. Structs(w) /\ Ties(w, config.script) /\ Bytes(w, config)
  BY DEF Sound
<1>12. Structs(v) /\ c \notin OpenIn(w.cons)
  <2>1. DOMAIN v.cons = 1..n /\ DOMAIN w.cons = 1..n
    BY <1>3, <1>6, <1>9
  <2>2. /\ \A d \in (1..n) \ {c} : v.cons[d].client = w.cons[d].client
        /\ v.cons[c].client = k /\ w.net[k].status # "open" /\ v.net[k].status = "open"
        /\ \A m \in Clients \ {k} : v.net[m].status = w.net[m].status
    BY <1>1, <1>2, <1>4, <1>7, <1>9
  <2>3. /\ v.stack = Front(w.stack) /\ c = Last(w.stack) /\ OpenIn(v.cons) = OpenIn(w.cons) \union {c}
    BY <1>9, <1>10 DEF fs, c
  <2>4. /\ n \in Nat /\ c \in 1..n /\ k \in Clients /\ Structs(w)
        /\ w.stack \in Seq(1..n) /\ w.stack # <<>> /\ OpenIn(w.cons) \subseteq 1..n
    BY <1>1, <1>3, <1>5, <1>10, <1>11
  <2> HIDE DEF n
  <2>5. QED
    <3>1. Gives(n, w, v, c, k)
      BY <2>1, <2>2, <2>3, <2>4, Zenon DEF Gives
    <3>2. QED
      BY <3>1, StructsTake, Zenon
<1>13. Ties(v, config.script)
  <2>1. ASSUME NEW d \in OpenIn(w.cons)
        PROVE  /\ qx[d] = w.cons[d] /\ w.cons[d].client \in Clients
               /\ v.net[w.cons[d].client] = w.net[w.cons[d].client]
    <3>1. d \in (1..n) \ {c}
      BY <1>10, <1>12
    <3>2. w.cons[d].client \in Clients /\ w.net[w.cons[d].client].status = "open"
      BY <1>11 DEF Structs
    <3>3. w.cons[d].client # k
      BY <1>1, <3>2
    <3>4. QED
      BY <1>7, <1>9, <3>1, <3>2, <3>3
  <2>2. Tie(config.script[k], y, x)
    <3>1. Len(y.got) = 0 /\ y.got = <<>>
      BY <1>2
    <3>2. Unbroken(config.script[k], y.got) /\ Settled(config.script[k], y.got)
      BY <3>1 DEF Unbroken, Settled
    <3>3. QED
      BY <1>4, <3>2, TieIdle
  <2>3. ASSUME NEW d \in OpenIn(v.cons)
        PROVE  /\ v.cons[d].client \in Clients
               /\ Tie(config.script[v.cons[d].client], v.net[v.cons[d].client], v.cons[d])
    <3>1. CASE d = c
      BY <1>1, <1>4, <1>7, <1>9, <2>2, <3>1
    <3>2. CASE d \in OpenIn(w.cons)
      BY <1>9, <1>11, <2>1, <3>2 DEF Ties
    <3>3. QED
      BY <1>9, <1>10, <3>1, <3>2
  <2>4. QED
    BY <2>3 DEF Ties
<1>14. Bytes(v, config)
  <2> DEFINE S == OpenIn(w.cons)   T == OpenIn(qx)   cs == w.cons
  <2>1. /\ \A d \in DOMAIN cs \ S : cs[d] = FreshCon
        /\ w.buffered = Sum(cs, S)
        /\ w.buffered > 0 =>
             \E m \in Clients : \E i \in 1..Len(config.script[m]) : w.buffered <= config.limit + config.script[m][i].size
    BY <1>11 DEF Bytes
  <2>2. cs \in [1..n -> ConRec] /\ S \subseteq 1..n /\ T = S \union {c} /\ c \notin S
        /\ \A d \in (1..n) \ {c} : qx[d] = cs[d]
    BY <1>3, <1>7, <1>10, <1>12
  <2> HIDE DEF S, T, cs
  <2>3. Sum(qx, T) = Sum(cs, S)
    <3>1. T \in SUBSET (1..n) /\ S \in SUBSET (1..n) /\ c \in T /\ T \ {c} = S
      BY <1>5, <2>2
    <3>2. Sum(qx, T) = qx[c].len + Sum(qx, T \ {c})
      BY <1>3, <1>6, <3>1, Sums
    <3>3. SameLens(cs, qx, S)
      BY <2>2, <3>1 DEF SameLens
    <3>4. Sum(cs, S) = Sum(qx, S) /\ Sum(qx, S) \in Nat
      <4>1. Sum(qx, S) \in Nat
        BY <1>3, <1>6, <3>1, Sums
      <4>2. n \in Nat /\ cs \in [1..n -> ConRec] /\ qx \in [1..n -> ConRec] /\ S \in SUBSET (1..n)
        BY <1>3, <1>6, <2>2, <3>1
      <4> HIDE DEF n
      <4>3. Sum(cs, S) = Sum(qx, S)
        BY <3>3, <4>2, Sums
      <4>4. QED
        BY <4>1, <4>3
    <3>5. qx[c].len = 0
      BY <1>4, <1>7
    <3> DEFINE a == Sum(qx, T)   b == Sum(qx, S)
    <3>6. a = 0 + b /\ b \in Nat
      BY <3>1, <3>2, <3>4, <3>5
    <3> HIDE DEF a, b
    <3>7. a = b
      BY <3>6
    <3>8. QED
      BY <3>4, <3>7 DEF a, b
  <2>4. \A d \in DOMAIN qx \ T : qx[d] = FreshCon
    BY <1>6, <2>1, <2>2
  <2>5. QED
    BY <1>9, <2>1, <2>3, <2>4 DEF Bytes, T
<1>15. Sound(v, config)
  BY <1>8, <1>9, <1>12, <1>13, <1>14 DEF Sound, n
<1>16. TakeCon(w, k) = v
  BY TakeForm DEF Taken, v, k, y, qx, x, c, fs
<1>17. QED
  BY <1>9, <1>15, <1>16 DEF k

\* One turn of the loop of acceptCon: the client that is first in the backlog is served.
LEMMA AcceptOneSound ==
  ASSUME NEW s, NEW k, config \in Configs, Sound(s.w, config), s.old \subseteq 1..config.structs,
         ~s.stop => s.w.backlog # <<>> /\ k = Head(s.w.backlog)
  PROVE  /\ Sound(AcceptOne(s, k).w, config) /\ AcceptOne(s, k).old \subseteq 1..config.structs
         /\ ~AcceptOne(s, k).stop => ~s.stop /\ AcceptOne(s, k).w.backlog = Tail(s.w.backlog)
<1> DEFINE starved == s.w.stack = <<>>
           u == IF starved THEN CloseAll(s.w, s.old) ELSE s.w
           r == AcceptOne(s, k)
<1>1. r = IF s.stop THEN s
          ELSE IF u.stack = <<>> THEN [w |-> Reject(u, k), old |-> {}, stop |-> TRUE]
          ELSE [w |-> TakeCon(u, k), old |-> IF starved THEN {} ELSE s.old, stop |-> FALSE]
  BY DEF AcceptOne
<1>2. Sound(u, config) /\ u.backlog = s.w.backlog
  BY CloseAllSound
<1> HIDE DEF u, r, starved
<1>3. CASE s.stop
  <2>1. r = s
    BY <1>1, <1>3
  <2>2. QED
    BY <1>3, <2>1 DEF r
<1>4. CASE ~s.stop
  <2>1. u.backlog # <<>> /\ k = Head(u.backlog)
    BY <1>2, <1>4
  <2>2. CASE u.stack = <<>>
    <3>1. r = [w |-> Reject(u, k), old |-> {}, stop |-> TRUE]
      BY <1>1, <1>4, <2>2
    <3>2. Sound(Reject(u, k), config)
      BY <1>2, <2>1, RejectSound
    <3>3. r.w = Reject(u, k) /\ r.old = {} /\ r.stop
      BY <3>1
    <3>4. QED
      BY <3>2, <3>3 DEF r
  <2>3. CASE u.stack # <<>>
    <3> DEFINE kept == IF starved THEN {} ELSE s.old
    <3>1. r = [w |-> TakeCon(u, k), old |-> kept, stop |-> FALSE]
      BY <1>1, <1>4, <2>3
    <3>2. Sound(TakeCon(u, k), config) /\ TakeCon(u, k).backlog = Tail(u.backlog)
      BY <1>2, <2>1, <2>3, TakeSound
    <3>3. kept \subseteq 1..config.structs
      OBVIOUS
    <3> HIDE DEF kept
    <3>4. r.w = TakeCon(u, k) /\ r.old = kept
      BY <3>1
    <3>5. QED
      BY <1>2, <1>4, <3>2, <3>3, <3>4 DEF r
  <2>4. QED
    BY <2>2, <2>3
<1>5. QED
  BY <1>3, <1>4

\* After i turns from the backlog B the rest of it waits, unless the loop has ended.
Accepted(B, i, s) ==
    /\ Sound(s.w, config) /\ s.old \subseteq 1..config.structs
    /\ ~s.stop => /\ Len(s.w.backlog) = Len(B) - i
                  /\ \A j \in 1..(Len(B) - i) : s.w.backlog[j] = B[i + j]

\* One turn more.
LEMMA AcceptedMore ==
  ASSUME config \in Configs, NEW B \in Seq(Clients), NEW i \in Nat, i < Len(B), NEW s,
         Accepted(B, i, s)
  PROVE  Accepted(B, i + 1, AcceptOne(s, B[i + 1]))
<1> DEFINE r == AcceptOne(s, B[i + 1])
<1>1. Sound(s.w, config) /\ s.old \subseteq 1..config.structs /\ Len(B) \in Nat
  BY DEF Accepted
<1>2. ASSUME ~s.stop
      PROVE  s.w.backlog # <<>> /\ B[i + 1] = Head(s.w.backlog)
  <2>1. Len(s.w.backlog) = Len(B) - i /\ \A j \in 1..(Len(B) - i) : s.w.backlog[j] = B[i + j]
    BY <1>2 DEF Accepted
  <2>2. 1 \in 1..(Len(B) - i) /\ Len(B) - i > 0
    BY <1>1
  <2>3. s.w.backlog[1] = B[i + 1] /\ s.w.backlog # <<>>
    BY <2>1, <2>2, EmptySeq
  <2>4. Head(s.w.backlog) = s.w.backlog[1]
    BY <1>1, <2>3, BacklogHead
  <2>5. QED
    BY <2>3, <2>4
<1>3. /\ Sound(r.w, config) /\ r.old \subseteq 1..config.structs
      /\ ~r.stop => ~s.stop /\ r.w.backlog = Tail(s.w.backlog)
  BY <1>1, <1>2, AcceptOneSound
<1> HIDE DEF r
<1>4. ASSUME ~r.stop
      PROVE  /\ Len(r.w.backlog) = Len(B) - (i + 1)
             /\ \A j \in 1..(Len(B) - (i + 1)) : r.w.backlog[j] = B[(i + 1) + j]
  <2> DEFINE C == s.w.backlog   D == r.w.backlog   L == Len(B)
  <2>1. ~s.stop /\ D = Tail(C) /\ C # <<>>
    BY <1>2, <1>3, <1>4
  <2>2. Len(C) = L - i /\ \A j \in 1..(L - i) : C[j] = B[i + j]
    BY <2>1 DEF Accepted
  <2>3. Len(D) = Len(C) - 1 /\ \A j \in 1..Len(D) : D[j] = C[j + 1]
    BY <1>1, <2>1, BacklogHead
  <2>4. L \in Nat
    BY <1>1
  <2> HIDE DEF C, D, L
  <2>5. Len(D) = L - (i + 1)
    BY <2>2, <2>3, <2>4
  <2>6. ASSUME NEW j \in 1..(L - (i + 1))
        PROVE  D[j] = B[(i + 1) + j]
    <3>1. j \in 1..Len(D) /\ j + 1 \in 1..(L - i) /\ i + (j + 1) = (i + 1) + j
      BY <2>4, <2>5
    <3>2. D[j] = C[j + 1] /\ C[j + 1] = B[i + (j + 1)]
      BY <2>2, <2>3, <3>1
    <3>3. QED
      BY <3>1, <3>2
  <2>7. QED
    BY <2>5, <2>6 DEF D, L
<1>5. QED
  BY <1>3, <1>4 DEF Accepted, r

\* The numbers up to the last.
LEMMA UpTo ==
  ASSUME NEW i \in Nat
  PROVE  /\ Max(1..(i + 1)) = i + 1 /\ (1..(i + 1)) \ {i + 1} = 1..i /\ 1..(i + 1) # {}
         /\ 1..0 = {}
<1> DEFINE m == Max(1..(i + 1))
<1>1. i + 1 \in 1..(i + 1) /\ 1..(i + 1) \subseteq Nat /\ IsFiniteSet(1..(i + 1))
  BY FS_Interval
<1>2. m \in 1..(i + 1) /\ \A x \in 1..(i + 1) : x <= m
  BY <1>1, NatMax
<1> HIDE DEF m
<1>3. m = i + 1
  BY <1>1, <1>2
<1>4. (1..(i + 1)) \ {i + 1} = 1..i /\ 1..0 = {}
  OBVIOUS
<1>5. QED
  BY <1>1, <1>3, <1>4 DEF m

\* acceptCon
LEMMA AcceptSound ==
  ASSUME config \in Configs, NEW w, Sound(w, config), NEW v \in AcceptCon(w)
  PROVE  Sound(v, config)
<1> DEFINE B == w.backlog   n == Min({AcceptMax, Len(B)})
<1>1. w \in Worlds(config.structs) /\ config.structs \in Nat /\ AcceptMax \in Nat
  BY ConfigTypes DEF Sound
<1>2. B \in Seq(Clients) /\ w.cons \in [1..config.structs -> ConRec]
  BY <1>1, WorldTypes
<1>3. Len(B) \in Nat
  BY <1>2
<1>4. n \in Nat /\ n <= Len(B)
  <2> DEFINE L == Len(B)
  <2>1. \E x \in {AcceptMax, L} : \A y \in {AcceptMax, L} : x <= y
    <3> HIDE DEF L
    <3>1. L \in Nat
      BY <1>3 DEF L
    <3>2. CASE AcceptMax <= L
      BY <1>1, <3>1, <3>2
    <3>3. CASE L <= AcceptMax
      BY <1>1, <3>1, <3>3
    <3>4. QED
      BY <1>1, <3>1, <3>2, <3>3
  <2>2. n \in {AcceptMax, L} /\ \A y \in {AcceptMax, L} : n <= y
    BY <2>1 DEF Min
  <2> HIDE DEF n
  <2>3. QED
    BY <1>1, <1>3, <2>2
<1>5. CASE v = [w EXCEPT !.exit = TRUE]
  <2> DEFINE o == w.net  p == w.backlog  q == w.cons  s == w.stack  u == w.buffered  e == w.exit
  <2>1. w = [net |-> o, backlog |-> p, cons |-> q, stack |-> s, buffered |-> u, exit |-> e]
        /\ w.net \in [Clients -> ClientRec] /\ w.stack \in Seq(1..config.structs) /\ w.buffered \in Int
    BY <1>1, WorldTypes
  <2> HIDE DEF o, p, q, s, u, e
  <2>2. v = [net |-> o, backlog |-> p, cons |-> q, stack |-> s, buffered |-> u, exit |-> TRUE]
    BY <1>5, <2>1
  <2>3. /\ v.net = w.net /\ v.backlog = w.backlog /\ v.cons = w.cons /\ v.stack = w.stack
        /\ v.buffered = w.buffered
    BY <2>2 DEF o, p, q, s, u
  <2>4. v \in Worlds(config.structs)
    BY <1>2, <2>1, <2>2 DEF Worlds, o, p, q, s, u
  <2>5. ClientsInv(v, config.script) /\ Ties(v, config.script)
    BY <2>3 DEF Sound, ClientsInv, Ties
  <2>6. Structs(v) /\ Waiting(v) /\ Bytes(v, config)
    BY <2>3 DEF Sound, Structs, Waiting, Bytes
  <2>7. QED
    BY <2>4, <2>5, <2>6 DEF Sound
<1>6. ASSUME NEW old \in SUBSET Open(w),
             v = FoldLeft(AcceptOne, [w |-> w, old |-> old, stop |-> FALSE], SubSeq(B, 1, n)).w
      PROVE  Sound(v, config)
  <2> DEFINE base == [w |-> w, old |-> old, stop |-> FALSE]   seq == SubSeq(B, 1, n)
  <2>1. seq \in Seq(Clients) /\ Len(seq) = n /\ \A i \in 1..n : seq[i] = B[i]
    <3> HIDE DEF n
    <3>1. \A i \in 1..n : B[i] \in Clients
      BY <1>2, <1>3, <1>4, ElementOfSeq
    <3>2. /\ seq \in Seq(Clients) /\ Len(seq) = (IF 1 <= n THEN n - 1 + 1 ELSE 0)
          /\ \A i \in 1..(n - 1 + 1) : seq[i] = B[1 + i - 1]
      BY <1>4, <3>1, SubSeqProperties
    <3> HIDE DEF seq
    <3>3. Len(seq) = n
      BY <1>4, <3>2
    <3>4. \A i \in 1..n : i \in 1..(n - 1 + 1) /\ 1 + i - 1 = i
      BY <1>4
    <3>5. QED
      BY <3>2, <3>3, <3>4
  <2>2. DOMAIN seq = 1..n
    BY <2>1
  <2>3. Accepted(B, 0, base)
    <3>1. base.w = w /\ base.old = old
      OBVIOUS
    <3>2. old \subseteq 1..config.structs
      BY <1>2 DEF Open
    <3>3. Len(B) - 0 = Len(B) /\ \A j \in 1..Len(B) : 0 + j = j
      BY <1>3
    <3>4. QED
      BY <3>1, <3>2, <3>3 DEF Accepted
  <2> HIDE DEF base, seq, n
  <2>4. PICK g : /\ IsFold("accept", seq, base, 1..n, g)
                 /\ FoldLeft(AcceptOne, base, seq) = g[1..n]
    BY <1>4, <2>2, AcceptFold
  <2> DEFINE T == {i \in Nat : i <= n => Accepted(B, i, g[1..i])}
  <2>5. 0 \in T
    <3>1. g[{}] = base
      BY <2>4 DEF IsFold
    <3>2. 1..0 = {}
      OBVIOUS
    <3>3. Accepted(B, 0, g[1..0])
      BY <2>3, <3>1, <3>2
    <3> HIDE DEF B
    <3>4. QED
      BY <3>3
  <2>6. ASSUME NEW i \in Nat, i \in T
        PROVE  i + 1 \in T
    <3> SUFFICES ASSUME i + 1 <= n
                 PROVE  Accepted(B, i + 1, g[1..(i + 1)])
      OBVIOUS
    <3>1. Accepted(B, i, g[1..i]) /\ i < Len(B)
      BY <1>3, <1>4, <2>6
    <3>2. 1..(i + 1) \in SUBSET (1..n) /\ i + 1 \in 1..n
      BY <1>4
    <3>3. g[1..(i + 1)] = AcceptOne(g[1..i], seq[i + 1])
      <4> DEFINE s == 1..(i + 1)
      <4>1. s # {} /\ Max(s) = i + 1 /\ s \ {i + 1} = 1..i /\ s \in SUBSET (1..n)
        BY <3>2, UpTo
      <4> HIDE DEF s
      <4>2. g[s] = Folded("accept", seq, Chosen("accept", s), g[s \ {Chosen("accept", s)}])
        BY <2>4, <4>1 DEF IsFold
      <4>3. Chosen("accept", s) = i + 1
        BY <4>1 DEF Chosen
      <4>4. QED
        BY <4>1, <4>2, <4>3 DEF Folded, s
    <3>4. seq[i + 1] = B[i + 1]
      BY <2>1, <3>2
    <3> HIDE DEF B
    <3>5. Accepted(B, i + 1, AcceptOne(g[1..i], B[i + 1]))
      BY <1>2, <3>1, AcceptedMore
    <3>6. QED
      BY <3>3, <3>4, <3>5
  <2>7. Nat \subseteq T
    <3> HIDE DEF T
    <3>1. QED
      BY <2>5, <2>6, NatSetInduction
  <2>8. Accepted(B, n, g[1..n])
    BY <1>4, <2>7
  <2>9. v = g[1..n].w
    BY <1>6, <2>4 DEF base, seq
  <2>10. QED
    BY <2>8, <2>9 DEF Accepted
<1>7. QED
  BY <1>5, <1>6 DEF AcceptCon

-----------------------------------------------------------------------------
(* The steps.                                                              *)

\* One event is handled.
LEMMA OnEventSound ==
  ASSUME config \in Configs, NEW w, Sound(w, config), NEW e, e.con \in 0..config.structs,
         NEW v \in OnEvent(w, e)
  PROVE  Sound(v, config)
<1> DEFINE c == e.con
           read == IF e.in THEN ReadRequest(w, c) ELSE {w}
           sent == UNION {IF e.out THEN SendData(u, c) ELSE {u} : u \in read}
<1>1. config.structs \in Nat
  BY ConfigTypes
<1>2. CASE c = Listen
  <2>1. v \in AcceptCon(w)
    BY <1>2 DEF OnEvent
  <2>2. QED
    BY <2>1, AcceptSound
<1>3. CASE c # Listen
  <2>1. At(w, c)
    BY <1>1, <1>3 DEF At, Listen
  <2>2. CASE e.hup
    <3>1. v \in IF w.cons[c].open THEN ReadRequest(w, c) ELSE {Shutdown(w, c)}
      BY <1>3, <2>2 DEF OnEvent
    <3>2. CASE w.cons[c].open
      BY <2>1, <3>1, <3>2, ReadRequestSound DEF OpenAt
    <3>3. CASE ~w.cons[c].open
      BY <2>1, <3>1, <3>3, CloseSound DEF Shutdown
    <3>4. QED
      BY <3>2, <3>3
  <2>3. CASE ~e.hup /\ w.cons[c].open
    <3>1. PICK t \in sent : v \in Woken(t, c)
      BY <1>3, <2>3 DEF OnEvent
    <3>2. PICK u \in read : t \in IF e.out THEN SendData(u, c) ELSE {u}
      BY <3>1
    <3>3. At(u, c)
      BY <2>1, <2>3, <3>2, ReadRequestSound DEF At, OpenAt
    <3>4. At(t, c)
      BY <3>2, <3>3, SendDataSound DEF At
    <3>5. QED
      BY <3>1, <3>4, WokenSound
  <2>4. CASE ~e.hup /\ ~w.cons[c].open
    <3>1. v \in Woken(w, c)
      BY <1>3, <2>4 DEF OnEvent
    <3>2. QED
      BY <2>1, <3>1, WokenSound
  <2>5. QED
    BY <2>2, <2>3, <2>4
<1>4. QED
  BY <1>2, <1>3

\* The clients and the kernel change, the connections do not.
LEMMA NetSound ==
  ASSUME config \in Configs, NEW w, Sound(w, config),
         NEW o \in [Clients -> ClientRec], NEW b \in Seq(Clients), NEW e \in BOOLEAN,
         \A m \in Clients : ClientInv(config.script[m], o[m]),
         \A m \in Clients : o[m].status = "open" <=> w.net[m].status = "open",
         \A c \in OpenIn(w.cons) :
            Tie(config.script[w.cons[c].client], o[w.cons[c].client], w.cons[c]),
         \A i \in 1..Len(b) : o[b[i]].status = "queued",
         \A i, j \in 1..Len(b) : b[i] = b[j] => i = j,
         NEW v, v = [net |-> o, backlog |-> b, cons |-> w.cons, stack |-> w.stack,
                     buffered |-> w.buffered, exit |-> e]
  PROVE  Sound(v, config)
<1>1. w \in Worlds(config.structs) /\ config.structs \in Nat
  BY ConfigTypes DEF Sound
<1>2. w.cons \in [1..config.structs -> ConRec] /\ w.stack \in Seq(1..config.structs) /\ w.buffered \in Int
  BY <1>1, WorldTypes
<1>3. v \in Worlds(config.structs)
  BY <1>2 DEF Worlds
<1>4. v.net = o /\ v.backlog = b /\ v.cons = w.cons /\ v.stack = w.stack /\ v.buffered = w.buffered
  OBVIOUS
<1>5. ClientsInv(v, config.script) /\ Waiting(v)
  BY <1>4 DEF ClientsInv, Waiting
<1>6. Structs(w) /\ Ties(w, config.script) /\ Bytes(w, config)
  BY DEF Sound
<1>7. Structs(v)
  <2>1. \A m \in Clients : v.net[m].status = "open" <=> w.net[m].status = "open"
    BY <1>4
  <2>2. /\ \A d \in OpenIn(w.cons) : v.net[w.cons[d].client].status = "open"
        /\ \A m \in Clients : v.net[m].status = "open" => \E d \in OpenIn(w.cons) : w.cons[d].client = m
    BY <1>6, <2>1 DEF Structs
  <2>3. /\ \A i, j \in 1..Len(v.stack) : v.stack[i] = v.stack[j] => i = j
        /\ \A d \in DOMAIN v.cons : d \in OpenIn(v.cons) <=> \A i \in 1..Len(v.stack) : v.stack[i] # d
    BY <1>4, <1>6 DEF Structs
  <2>4. /\ \A d \in OpenIn(v.cons) : v.cons[d].client \in Clients /\ v.net[v.cons[d].client].status = "open"
        /\ \A d, f \in OpenIn(v.cons) : v.cons[d].client = v.cons[f].client => d = f
    BY <1>4, <1>6, <2>2 DEF Structs
  <2>5. \A m \in Clients : v.net[m].status = "open" => \E d \in OpenIn(v.cons) : v.cons[d].client = m
    BY <1>4, <2>2
  <2>6. QED
    BY <2>3, <2>4, <2>5 DEF Structs
<1>8. Ties(v, config.script)
  BY <1>4, <1>6 DEF Ties
<1>9. Bytes(v, config)
  BY <1>4, <1>6 DEF Bytes
<1>10. QED
  BY <1>3, <1>5, <1>7, <1>8, <1>9 DEF Sound

\* What one client does, w being the world before.
LEMMA ClientSound ==
  ASSUME config \in Configs, NEW w, Sound(w, config), NEW k \in Clients,
         NEW y \in ClientRec, ClientInv(config.script[k], y), y.status = w.net[k].status,
         \A x \in ConRec : Tie(config.script[k], w.net[k], x) => Tie(config.script[k], y, x),
         NEW v, v = [net |-> [w.net EXCEPT ![k] = y], backlog |-> w.backlog, cons |-> w.cons,
                     stack |-> w.stack, buffered |-> w.buffered, exit |-> w.exit]
  PROVE  Sound(v, config)
<1> DEFINE o == [w.net EXCEPT ![k] = y]
<1>1. w \in Worlds(config.structs) /\ config.structs \in Nat
  BY ConfigTypes DEF Sound
<1>2. /\ w.net \in [Clients -> ClientRec] /\ w.backlog \in Seq(Clients) /\ w.exit \in BOOLEAN
      /\ w.cons \in [1..config.structs -> ConRec]
  BY <1>1, WorldTypes
<1>3. o \in [Clients -> ClientRec] /\ \A m \in Clients : o[m] = IF m = k THEN y ELSE w.net[m]
  BY <1>2
<1> HIDE DEF o
<1>4. \A m \in Clients : o[m].status = w.net[m].status
  BY <1>3
<1>5. \A m \in Clients : ClientInv(config.script[m], o[m])
  BY <1>3 DEF Sound, ClientsInv
<1>6. \A c \in OpenIn(w.cons) : Tie(config.script[w.cons[c].client], o[w.cons[c].client], w.cons[c])
  <2> SUFFICES ASSUME NEW c \in OpenIn(w.cons)
               PROVE  Tie(config.script[w.cons[c].client], o[w.cons[c].client], w.cons[c])
    OBVIOUS
  <2>1. /\ w.cons[c].client \in Clients /\ w.cons[c] \in ConRec
        /\ Tie(config.script[w.cons[c].client], w.net[w.cons[c].client], w.cons[c])
    BY <1>2 DEF Sound, Ties, OpenIn
  <2>2. QED
    BY <1>3, <2>1
<1>7. Waiting(w) /\ \A i \in 1..Len(w.backlog) : w.backlog[i] \in Clients
  BY <1>2 DEF Sound
<1>8. /\ \A i \in 1..Len(w.backlog) : o[w.backlog[i]].status = "queued"
      /\ \A i, j \in 1..Len(w.backlog) : w.backlog[i] = w.backlog[j] => i = j
  BY <1>4, <1>7 DEF Waiting
<1>9. v = [net |-> o, backlog |-> w.backlog, cons |-> w.cons, stack |-> w.stack,
           buffered |-> w.buffered, exit |-> w.exit]
  BY DEF o
<1>10. QED
  BY <1>2, <1>3, <1>4, <1>5, <1>6, <1>8, <1>9, NetSound

\* A client about which nothing changes but what the kernel knows of the connection.
LEMMA SameClient ==
  ASSUME NEW s, NEW k, NEW y, ClientInv(s, k),
         y.sent = k.sent, y.inbox = k.inbox, y.got = k.got, y.status = k.status
  PROVE  ClientInv(s, y) /\ \A x \in ConRec : Tie(s, k, x) => Tie(s, y, x)
<1>1. ClientInv(s, y)
  BY DEF ClientInv, Inbox
<1>2. QED
  BY <1>1 DEF Tie

\* A client that connects.
LEMMA QueuedInv ==
  ASSUME NEW s, NEW k \in ClientRec, ClientInv(s, k), k.status = "new"
  PROVE  LET y == [k EXCEPT !.status = "queued"] IN
         y \in ClientRec /\ ClientInv(s, y) /\ y.status = "queued"
<1> DEFINE a == k.status  b == k.sent  d == k.inbox  e == k.gone  f == k.room  g == k.got
           y == [k EXCEPT !.status = "queued"]
<1>1. k = [status |-> a, sent |-> b, inbox |-> d, gone |-> e, room |-> f, got |-> g]
  BY ClientTypes
<1>2. /\ b \in Nat /\ e \in {"no", "half", "reset"} /\ f \in BOOLEAN
      /\ d \in Seq(Nat) /\ g \in Seq(Nat \X Nat)
  BY ClientTypes
<1> HIDE DEF a, b, d, e, f, g
<1>3. y = [status |-> "queued", sent |-> b, inbox |-> d, gone |-> e, room |-> f, got |-> g]
  BY <1>1
<1> HIDE DEF y
<1>4. y \in ClientRec
  BY <1>2, <1>3 DEF ClientRec
<1>5. y.status = "queued" /\ y.sent = k.sent /\ y.inbox = k.inbox /\ y.got = k.got
  BY <1>3 DEF b, d, g
<1>6. ClientInv(s, y)
  BY <1>5 DEF ClientInv, Inbox
<1>7. QED
  BY <1>4, <1>5, <1>6 DEF y

\* What a client that sends a chunk looks like.
WithChunk(k) == [[k EXCEPT !.sent = k.sent + 1] EXCEPT !.inbox = Append(k.inbox, k.sent + 1)]

\* It is the next chunk.
LEMMA SentInv ==
  ASSUME NEW s \in Script, NEW k \in ClientRec, ClientInv(s, k), k.sent < Len(s)
  PROVE  /\ WithChunk(k) \in ClientRec /\ ClientInv(s, WithChunk(k)) /\ WithChunk(k).status = k.status
         /\ \A x \in ConRec : Tie(s, k, x) => Tie(s, WithChunk(k), x)
<1> DEFINE a == k.status  b == k.sent  d == k.inbox  e == k.gone  f == k.room  g == k.got
           nb == k.sent + 1   nd == Append(k.inbox, k.sent + 1)
           z == [k EXCEPT !.sent = nb]   y == [z EXCEPT !.inbox = nd]
<1>1. k = [status |-> a, sent |-> b, inbox |-> d, gone |-> e, room |-> f, got |-> g]
  BY ClientTypes
<1>2. /\ a \in {"new", "queued", "open", "closed"} /\ b \in Nat /\ e \in {"no", "half", "reset"}
      /\ f \in BOOLEAN /\ d \in Seq(Nat) /\ g \in Seq(Nat \X Nat)
  BY ClientTypes
<1>3. nb = b + 1 /\ nb \in Nat /\ nb <= Len(s)
  BY <1>2 DEF Script
<1>4. /\ nd \in Seq(Nat) /\ Len(nd) = Len(d) + 1 /\ Len(d) \in Nat /\ nd[Len(d) + 1] = nb
      /\ \A i \in 1..Len(d) : nd[i] = d[i]
  BY <1>2, <1>3, AppendProperties, LenProperties
<1>5. /\ InOrder(s, b, g) /\ (a \in {"new", "queued"} => g = <<>>)
      /\ \A j \in 1..Len(d) : d[j] \in 1..b
      /\ \A i, j \in 1..Len(d) : i < j => d[i] < d[j]
      /\ \A n \in 1..Len(g), j \in 1..Len(d) : g[n][1] < d[j]
  BY DEF ClientInv, Inbox
<1> HIDE DEF a, b, d, e, f, g, nb, nd
<1>6. z = [status |-> a, sent |-> nb, inbox |-> d, gone |-> e, room |-> f, got |-> g]
  BY <1>1
<1> HIDE DEF z
<1>7. y = [status |-> a, sent |-> nb, inbox |-> nd, gone |-> e, room |-> f, got |-> g]
  BY <1>6
<1> HIDE DEF y
<1>8. y \in ClientRec
  BY <1>2, <1>3, <1>4, <1>7 DEF ClientRec
<1>9. y.status = a /\ y.sent = nb /\ y.inbox = nd /\ y.got = g
  BY <1>7
<1>10. \A n \in 1..Len(g) : g[n][1] # 0 => g[n][1] \in 1..b
  BY <1>5 DEF InOrder, UnitInOrder
<1>11. \A n \in 1..Len(g) : g[n][1] \in 0..b
  <2>1. \A n \in 1..Len(g) : g[n] \in Nat \X Nat
    BY <1>2, ElementOfSeq
  <2>2. QED
    BY <1>2, <1>10, <2>1
<1>12. InOrder(s, nb, g)
  <2>1. \A i : i \in 1..b => i \in 1..nb
    BY <1>2, <1>3
  <2>2. QED
    BY <1>5, <2>1 DEF InOrder, UnitInOrder
<1>30. \A q : q \in 1..b => q \in 1..nb /\ q < nb
  <2>1. b \in Nat /\ nb = b + 1
    BY <1>2, <1>3
  <2>2. QED
    BY <2>1
<1>13. \A j \in 1..Len(nd) : j \in 1..Len(d) \/ (j = Len(d) + 1 /\ j \notin 1..Len(d))
  BY <1>4
<1>14. \A j \in 1..Len(nd) : nd[j] \in 1..nb
  <2> SUFFICES ASSUME NEW j \in 1..Len(nd) PROVE nd[j] \in 1..nb
    OBVIOUS
  <2>1. CASE j \in 1..Len(d)
    BY <1>4, <1>5, <1>30, <2>1
  <2>2. CASE j = Len(d) + 1
    BY <1>2, <1>3, <1>4, <2>2
  <2>3. QED
    BY <1>13, <2>1, <2>2
<1>15. \A i, j \in 1..Len(nd) : i < j => nd[i] < nd[j]
  <2> SUFFICES ASSUME NEW i \in 1..Len(nd), NEW j \in 1..Len(nd), i < j
               PROVE  nd[i] < nd[j]
    OBVIOUS
  <2>1. i \in 1..Len(d)
    BY <1>4
  <2>2. CASE j \in 1..Len(d)
    BY <1>4, <1>5, <2>1, <2>2
  <2>3. CASE j = Len(d) + 1
    <3>1. nd[i] = d[i] /\ d[i] \in 1..b /\ nd[j] = nb
      BY <1>4, <1>5, <2>1, <2>3
    <3>2. QED
      BY <1>2, <1>3, <3>1
  <2>4. QED
    BY <1>13, <2>2, <2>3
<1>16. \A n \in 1..Len(g), j \in 1..Len(nd) : g[n][1] < nd[j]
  <2> SUFFICES ASSUME NEW n \in 1..Len(g), NEW j \in 1..Len(nd)
               PROVE  g[n][1] < nd[j]
    OBVIOUS
  <2>1. CASE j \in 1..Len(d)
    BY <1>4, <1>5, <2>1
  <2>2. CASE j = Len(d) + 1
    <3>1. g[n][1] \in 0..b /\ nd[j] = nb
      BY <1>4, <1>11, <2>2
    <3>2. QED
      BY <1>2, <1>3, <3>1
  <2>3. QED
    BY <1>13, <2>1, <2>2
<1>17. Inbox(s, y)
  BY <1>9, <1>14, <1>15, <1>16 DEF Inbox
<1>18. ClientInv(s, y)
  BY <1>3, <1>5, <1>9, <1>12, <1>17 DEF ClientInv
<1>19. ASSUME NEW x \in ConRec, Tie(s, k, x)
       PROVE  Tie(s, y, x)
  <2>1. k.got = g /\ k.inbox = d /\ k.sent = b
    BY DEF g, d, b
  <2>2. Unbroken(s, y.got) /\ x.sent <= x.len /\ (x.sent = 0 => Settled(s, y.got))
    BY <1>9, <1>19, <2>1 DEF Tie
  <2>3. ASSUME x.len > 0
        PROVE  /\ x.reply \in 1..nb /\ s[x.reply].kind = "fetch" /\ x.len = s[x.reply].size
               /\ x.request <= RequestMax
               /\ \A n \in 1..Len(g) : g[n][1] <= x.reply
               /\ x.sent > 0 => g # <<>> /\ g[Len(g)] = <<x.reply, x.sent>>
               /\ \A j \in 1..Len(nd) : x.reply < nd[j]
    <3>1. /\ x.reply \in 1..b /\ s[x.reply].kind = "fetch" /\ x.len = s[x.reply].size
          /\ x.request <= RequestMax
          /\ \A n \in 1..Len(g) : g[n][1] <= x.reply
          /\ x.sent > 0 => g # <<>> /\ g[Len(g)] = <<x.reply, x.sent>>
          /\ \A j \in 1..Len(d) : x.reply < d[j]
      BY <1>19, <2>1, <2>3 DEF Tie
    <3>2. x.reply \in 1..nb /\ x.reply < nb
      BY <1>30, <3>1
    <3>3. ASSUME NEW j \in 1..Len(nd)
          PROVE  x.reply < nd[j]
      BY <1>4, <1>13, <3>1, <3>2
    <3>4. QED
      BY <3>1, <3>2, <3>3
  <2>4. QED
    BY <1>9, <2>2, <2>3 DEF Tie
<1>20. y = WithChunk(k)
  BY DEF WithChunk, y, z, nb, nd
<1>21. QED
  BY <1>8, <1>9, <1>18, <1>19, <1>20 DEF a

\* What is known of the variables.
LEMMA StateTypes ==
  ASSUME IInv
  PROVE  /\ config \in Configs /\ config.structs \in Nat /\ Sound(World, config)
         /\ net \in [Clients -> ClientRec] /\ backlog \in Seq(Clients)
         /\ cons \in [1..config.structs -> ConRec] /\ stack \in Seq(1..config.structs)
         /\ responseBytesBuffered \in Int /\ exit \in BOOLEAN
         /\ World.net = net /\ World.backlog = backlog /\ World.cons = cons /\ World.stack = stack
         /\ World.buffered = responseBytesBuffered /\ World.exit = exit
<1>1. config \in Configs /\ Sound(World, config) /\ config.structs \in Nat
  BY ConfigTypes DEF IInv
<1>2. World \in Worlds(config.structs)
  BY <1>1 DEF Sound
<1>3. /\ World.net = net /\ World.backlog = backlog /\ World.cons = cons /\ World.stack = stack
      /\ World.buffered = responseBytesBuffered /\ World.exit = exit
  BY DEF World
<1>4. QED
  BY <1>1, <1>2, <1>3, WorldTypes

\* The new world is sound.
LEMMA StepSound ==
  ASSUME IInv, NEW w, Sound(w, config), Becomes(w), config' = config, running' \in BOOLEAN,
         \A e \in events' : e.con \in 0..config.structs
  PROVE  IInv'
<1>1. config \in Configs /\ config.structs \in Nat
  BY StateTypes
<1>2. w \in Worlds(config.structs)
  BY DEF Sound
<1>3. World' = w
  <2>1. w = [net |-> w.net, backlog |-> w.backlog, cons |-> w.cons, stack |-> w.stack,
             buffered |-> w.buffered, exit |-> w.exit]
    BY <1>1, <1>2, WorldTypes
  <2>2. QED
    BY <2>1 DEF Becomes, World
<1>4. Sound(World', config')
  BY <1>3
<1>5. QED
  BY <1>1, <1>4 DEF IInv

\* One client changes.
LEMMA ClientStep ==
  ASSUME IInv, NEW k \in Clients, NEW y \in ClientRec, ClientInv(config.script[k], y),
         y.status = net[k].status,
         \A x \in ConRec : Tie(config.script[k], net[k], x) => Tie(config.script[k], y, x),
         net' = [net EXCEPT ![k] = y], UNCHANGED <<backlog, thread, events, exit, running, config>>
  PROVE  IInv'
<1> DEFINE v == [net |-> [net EXCEPT ![k] = y], backlog |-> backlog, cons |-> cons,
                 stack |-> stack, buffered |-> responseBytesBuffered, exit |-> exit]
<1>1. /\ config \in Configs /\ Sound(World, config)
      /\ World.net = net /\ World.backlog = backlog /\ World.cons = cons /\ World.stack = stack
      /\ World.buffered = responseBytesBuffered /\ World.exit = exit
  BY StateTypes
<1>2. v = [net |-> [World.net EXCEPT ![k] = y], backlog |-> World.backlog, cons |-> World.cons,
           stack |-> World.stack, buffered |-> World.buffered, exit |-> World.exit]
  BY <1>1
<1> HIDE DEF v
<1>3. Sound(v, config)
  BY <1>1, <1>2, ClientSound
<1>4. Becomes(v)
  BY DEF Becomes, v, thread
<1>5. QED
  BY <1>3, <1>4, StepSound DEF IInv

\* A client connects.
LEMMA ConnectKeeps ==
  ASSUME IInv, NEW k \in Clients, Connect(k)
  PROVE  IInv'
<1> DEFINE y == [net[k] EXCEPT !.status = "queued"]   o == [net EXCEPT ![k] = y]
           b == Append(backlog, k)
           v == [net |-> o, backlog |-> b, cons |-> cons,
                 stack |-> stack, buffered |-> responseBytesBuffered, exit |-> exit]
<1>1. /\ config \in Configs /\ Sound(World, config)
      /\ net \in [Clients -> ClientRec] /\ backlog \in Seq(Clients) /\ exit \in BOOLEAN
      /\ World.net = net /\ World.backlog = backlog /\ World.cons = cons /\ World.stack = stack
      /\ World.buffered = responseBytesBuffered /\ World.exit = exit
  BY StateTypes
<1>2. /\ net[k].status = "new" /\ net' = o /\ backlog' = b
      /\ UNCHANGED <<thread, events, exit, running, config>>
  BY DEF Connect
<1>3. y \in ClientRec /\ ClientInv(config.script[k], y) /\ y.status = "queued"
  <2> DEFINE m == net[k]   s == config.script[k]
  <2>1. m \in ClientRec /\ ClientInv(s, m) /\ m.status = "new"
    BY <1>1, <1>2 DEF Sound, ClientsInv
  <2> HIDE DEF m, s
  <2>2. LET z == [m EXCEPT !.status = "queued"] IN z \in ClientRec /\ ClientInv(s, z) /\ z.status = "queued"
    BY <2>1, QueuedInv
  <2>3. QED
    BY <2>2 DEF m, s
<1> HIDE DEF y
<1>4. o \in [Clients -> ClientRec] /\ o[k] = y /\ \A m \in Clients \ {k} : o[m] = net[m]
  BY <1>1, <1>3
<1> HIDE DEF o
<1>5. /\ b \in Seq(Clients) /\ Len(b) = Len(backlog) + 1 /\ Len(backlog) \in Nat
      /\ b[Len(backlog) + 1] = k /\ \A i \in 1..Len(backlog) : b[i] = backlog[i]
  BY <1>1, AppendProperties, LenProperties
<1> HIDE DEF b
<1>6. /\ \A i \in 1..Len(backlog) : net[backlog[i]].status = "queued" /\ backlog[i] \in Clients
      /\ \A i, j \in 1..Len(backlog) : backlog[i] = backlog[j] => i = j
  BY <1>1, ElementOfSeq DEF Sound, Waiting
<1>7. \A i \in 1..Len(backlog) : backlog[i] # k
  BY <1>2, <1>6
<1>8. \A i \in 1..Len(b) : i \in 1..Len(backlog) \/ i = Len(backlog) + 1
  BY <1>5
<1>9. \A i \in 1..Len(b) : o[b[i]].status = "queued"
  <2> SUFFICES ASSUME NEW i \in 1..Len(b) PROVE o[b[i]].status = "queued"
    OBVIOUS
  <2>1. CASE i \in 1..Len(backlog)
    BY <1>4, <1>5, <1>6, <1>7, <2>1
  <2>2. CASE i = Len(backlog) + 1
    BY <1>3, <1>4, <1>5, <2>2
  <2>3. QED
    BY <1>8, <2>1, <2>2
<1>10. \A i, j \in 1..Len(b) : b[i] = b[j] => i = j
  BY <1>5, <1>6, <1>7, <1>8
<1>11. \A m \in Clients : ClientInv(config.script[m], o[m])
  <2>1. \A m \in Clients : ClientInv(config.script[m], net[m])
    BY <1>1 DEF Sound, ClientsInv
  <2>2. QED
    BY <1>3, <1>4, <2>1
<1>12. \A m \in Clients : o[m].status = "open" <=> World.net[m].status = "open"
  <2> SUFFICES ASSUME NEW m \in Clients PROVE o[m].status = "open" <=> net[m].status = "open"
    BY <1>1
  <2>1. CASE m = k
    BY <1>2, <1>3, <1>4, <2>1
  <2>2. CASE m # k
    BY <1>4, <2>2
  <2>3. QED
    BY <2>1, <2>2
<1>13. \A c \in OpenIn(World.cons) :
          Tie(config.script[World.cons[c].client], o[World.cons[c].client], World.cons[c])
  <2> SUFFICES ASSUME NEW c \in OpenIn(World.cons)
               PROVE  Tie(config.script[World.cons[c].client], o[World.cons[c].client], World.cons[c])
    OBVIOUS
  <2> DEFINE m == World.cons[c].client
  <2>1. /\ m \in Clients /\ World.net[m].status = "open"
        /\ Tie(config.script[m], World.net[m], World.cons[c])
    BY <1>1 DEF Sound, Structs, Ties
  <2>2. m # k
    BY <1>1, <1>2, <2>1
  <2>3. o[m] = World.net[m]
    BY <1>1, <1>4, <2>1, <2>2
  <2>4. QED
    BY <2>1, <2>3
<1>14. v = [net |-> o, backlog |-> b, cons |-> World.cons, stack |-> World.stack,
            buffered |-> World.buffered, exit |-> exit]
  BY <1>1
<1> HIDE DEF v
<1>15. Sound(v, config)
  BY <1>1, <1>4, <1>5, <1>9, <1>10, <1>11, <1>12, <1>13, <1>14, NetSound
<1>16. Becomes(v)
  BY <1>2 DEF Becomes, v, thread
<1>17. QED
  BY <1>2, <1>15, <1>16, StepSound DEF IInv

\* A client sends a chunk.
LEMMA SendChunkKeeps ==
  ASSUME IInv, NEW k \in Clients, SendChunk(k)
  PROVE  IInv'
<1> DEFINE m == net[k]   s == config.script[k]   y == WithChunk(m)
<1>1. config \in Configs /\ net \in [Clients -> ClientRec] /\ m \in ClientRec /\ ClientInv(s, m) /\ s \in Script
  BY StateTypes, ConfigTypes DEF Sound, ClientsInv
<1>2. m.sent < Len(s)
  BY DEF SendChunk
<1>3. /\ y \in ClientRec /\ ClientInv(s, y) /\ y.status = m.status
      /\ \A x \in ConRec : Tie(s, m, x) => Tie(s, y, x)
  <2> HIDE DEF m, s
  <2>1. QED
    BY <1>1, <1>2, SentInv
<1>4. net' = [net EXCEPT ![k] = y]
  <2> DEFINE n1 == [net EXCEPT ![k] = [m EXCEPT !.sent = m.sent + 1]]
             z == [m EXCEPT !.sent = m.sent + 1]
  <2>1. net' = [n1 EXCEPT ![k] = [n1[k] EXCEPT !.inbox = Append(n1[k].inbox, m.sent + 1)]]
    BY DEF SendChunk
  <2>2. n1[k] = z /\ z.inbox = m.inbox
    BY <1>1
  <2>3. [n1 EXCEPT ![k] = [z EXCEPT !.inbox = Append(m.inbox, m.sent + 1)]]
        = [net EXCEPT ![k] = [z EXCEPT !.inbox = Append(m.inbox, m.sent + 1)]]
    BY <1>1
  <2>4. y = [z EXCEPT !.inbox = Append(m.inbox, m.sent + 1)]
    BY DEF WithChunk
  <2> HIDE DEF n1, z, y
  <2>5. QED
    BY <2>1, <2>2, <2>3, <2>4
<1>5. UNCHANGED <<backlog, thread, events, exit, running, config>>
  BY DEF SendChunk
<1> HIDE DEF y
<1>6. QED
  BY <1>3, <1>4, <1>5, ClientStep

\* A client hangs up.
LEMMA HangupKeeps ==
  ASSUME IInv, NEW k \in Clients, NEW how \in {"half", "reset"}, Hangup(k, how)
  PROVE  IInv'
<1> DEFINE m == net[k]   s == config.script[k]   y == [m EXCEPT !.gone = how]
<1>1. config \in Configs /\ net \in [Clients -> ClientRec] /\ m \in ClientRec /\ ClientInv(s, m)
  BY StateTypes DEF Sound, ClientsInv
<1>2. y \in ClientRec /\ y.sent = m.sent /\ y.inbox = m.inbox /\ y.got = m.got /\ y.status = m.status
  <2> HIDE DEF m
  <2>1. QED
    BY <1>1 DEF ClientRec
<1>3. net' = [net EXCEPT ![k] = y] /\ UNCHANGED <<backlog, thread, events, exit, running, config>>
  BY DEF Hangup
<1> HIDE DEF y
<1>4. ClientInv(s, y) /\ \A x \in ConRec : Tie(s, m, x) => Tie(s, y, x)
  BY <1>1, <1>2, SameClient
<1>5. QED
  BY <1>2, <1>3, <1>4, ClientStep

\* A client reads.
LEMMA DrainKeeps ==
  ASSUME IInv, NEW k \in Clients, Drain(k)
  PROVE  IInv'
<1> DEFINE m == net[k]   s == config.script[k]   y == [m EXCEPT !.room = TRUE]
<1>1. config \in Configs /\ net \in [Clients -> ClientRec] /\ m \in ClientRec /\ ClientInv(s, m)
  BY StateTypes DEF Sound, ClientsInv
<1>2. y \in ClientRec /\ y.sent = m.sent /\ y.inbox = m.inbox /\ y.got = m.got /\ y.status = m.status
  <2> HIDE DEF m
  <2>1. QED
    BY <1>1 DEF ClientRec
<1>3. net' = [net EXCEPT ![k] = y] /\ UNCHANGED <<backlog, thread, events, exit, running, config>>
  BY DEF Drain
<1> HIDE DEF y
<1>4. ClientInv(s, y) /\ \A x \in ConRec : Tie(s, m, x) => Tie(s, y, x)
  BY <1>1, <1>2, SameClient
<1>5. QED
  BY <1>2, <1>3, <1>4, ClientStep

\* The program is told to exit.
LEMMA SetExitKeeps ==
  ASSUME IInv, SetExit
  PROVE  IInv'
<1> DEFINE v == [net |-> net, backlog |-> backlog, cons |-> cons, stack |-> stack,
                 buffered |-> responseBytesBuffered, exit |-> TRUE]
<1>1. /\ config \in Configs /\ Sound(World, config)
      /\ net \in [Clients -> ClientRec] /\ backlog \in Seq(Clients)
      /\ World.net = net /\ World.backlog = backlog /\ World.cons = cons /\ World.stack = stack
      /\ World.buffered = responseBytesBuffered
  BY StateTypes
<1>2. /\ \A m \in Clients : ClientInv(config.script[m], net[m])
      /\ \A c \in OpenIn(World.cons) :
           Tie(config.script[World.cons[c].client], net[World.cons[c].client], World.cons[c])
      /\ \A i \in 1..Len(backlog) : net[backlog[i]].status = "queued"
      /\ \A i, j \in 1..Len(backlog) : backlog[i] = backlog[j] => i = j
  BY <1>1 DEF Sound, ClientsInv, Ties, Waiting
<1>3. v = [net |-> net, backlog |-> backlog, cons |-> World.cons, stack |-> World.stack,
           buffered |-> World.buffered, exit |-> TRUE]
  BY <1>1
<1>4. \A m \in Clients : net[m].status = "open" <=> World.net[m].status = "open"
  BY <1>1
<1> HIDE DEF v
<1>5. Sound(v, config)
  BY <1>1, <1>2, <1>3, <1>4, NetSound
<1>6. exit' = TRUE /\ UNCHANGED <<kernel, thread, events, running, config>>
  BY DEF SetExit
<1>7. Becomes(v)
  BY <1>6 DEF Becomes, v, thread, kernel
<1>8. QED
  BY <1>5, <1>6, <1>7, StepSound DEF IInv

\* The thread does something.
LEMMA ThreadKeeps ==
  ASSUME IInv, Thread
  PROVE  IInv'
<1>1. /\ config \in Configs /\ config.structs \in Nat /\ Sound(World, config)
      /\ cons \in [1..config.structs -> ConRec]
      /\ World.net = net /\ World.backlog = backlog /\ World.cons = cons /\ World.stack = stack
      /\ World.buffered = responseBytesBuffered /\ World.exit = exit
  BY StateTypes
<1>2. Open(World) \in SUBSET (1..config.structs)
  BY <1>1 DEF Open
<1>3. CASE Wait
  <2>1. events' = Ready /\ UNCHANGED <<kernel, thread, exit, running, config>>
    BY <1>3 DEF Wait
  <2>2. Becomes(World)
    BY <1>1, <2>1 DEF Becomes, kernel, thread
  <2>3. \A e \in Ready : e.con \in 0..config.structs
    <3> SUFFICES ASSUME NEW e \in Ready PROVE e.con \in 0..config.structs
      OBVIOUS
    <3>1. (\E c \in Open(World) : e = EventOf(c))
          \/ e = [con |-> Listen, in |-> TRUE, out |-> FALSE, hup |-> FALSE]
      BY DEF Ready
    <3>2. CASE \E c \in Open(World) : e = EventOf(c)
      <4>1. PICK c \in Open(World) : e = EventOf(c)
        BY <3>2
      <4>2. e.con = c
        BY <4>1 DEF EventOf
      <4>3. c \in 1..config.structs
        BY <1>2
      <4>4. QED
        BY <1>1, <4>2, <4>3
    <3>3. CASE e = [con |-> Listen, in |-> TRUE, out |-> FALSE, hup |-> FALSE]
      BY <1>1, <3>3 DEF Listen
    <3>4. QED
      BY <3>1, <3>2, <3>3
  <2>4. QED
    BY <1>1, <2>1, <2>2, <2>3, StepSound DEF IInv
<1>4. ASSUME NEW e \in events, HandleEvent(e)
      PROVE  IInv'
  <2>1. PICK w \in OnEvent(World, e) : Becomes(w)
    BY <1>4 DEF HandleEvent
  <2>2. events' = events \ {e} /\ UNCHANGED <<running, config>>
    BY <1>4 DEF HandleEvent
  <2>3. e.con \in 0..config.structs
    BY DEF IInv
  <2>4. Sound(w, config)
    BY <1>1, <2>3, OnEventSound
  <2>5. QED
    BY <2>1, <2>2, <2>4, StepSound DEF IInv
<1>5. CASE Leave
  <2>1. Becomes(CloseAll(World, Open(World))) /\ running' = FALSE /\ UNCHANGED <<events, config>>
    BY <1>5 DEF Leave
  <2>2. Sound(CloseAll(World, Open(World)), config)
    BY <1>1, <1>2, CloseAllSound
  <2>3. QED
    BY <2>1, <2>2, StepSound DEF IInv
<1>6. QED
  BY <1>3, <1>4, <1>5 DEF Thread

\* Every step keeps the invariant.
LEMMA Inductive == IInv /\ [Next]_vars => IInv'
<1> SUFFICES ASSUME IInv, [Next]_vars
             PROVE  IInv'
  OBVIOUS
<1>1. CASE Thread
  BY <1>1, ThreadKeeps
<1>2. ASSUME NEW k \in Clients, Client(k) \/ Drain(k)
      PROVE  IInv'
  BY <1>2, ConnectKeeps, SendChunkKeeps, HangupKeeps, DrainKeeps DEF Client
<1>3. CASE SetExit
  BY <1>3, SetExitKeeps
<1>4. CASE UNCHANGED vars
  <2>1. World' = World /\ config' = config /\ events' = events /\ running' = running
    BY <1>4 DEF vars, kernel, thread, World
  <2>2. QED
    BY <2>1 DEF IInv
<1>5. QED
  BY <1>1, <1>2, <1>3, <1>4 DEF Next, Ended

\* A world in which nothing has happened.
LEMMA InitHolds == Init => IInv
<1> SUFFICES ASSUME Init
             PROVE  IInv
  OBVIOUS
<1> DEFINE n == config.structs   w == World   z == [status |-> "new", sent |-> 0, inbox |-> <<>>,
                                                  gone |-> "no", room |-> TRUE, got |-> <<>>]
<1>1. /\ config \in Configs /\ n \in Nat
      /\ w.net = [k \in Clients |-> z] /\ w.backlog = <<>>
      /\ w.cons = [c \in 1..n |-> FreshCon] /\ w.stack = [c \in 1..n |-> c]
      /\ w.buffered = 0 /\ w.exit = FALSE /\ events = {} /\ running = TRUE
  BY ConfigTypes DEF Init, World
<1>2. FreshCon \in ConRec /\ ~FreshCon.open /\ FreshCon.len = 0
  BY DEF FreshCon, ConRec
<1>3. z \in ClientRec /\ z.status = "new" /\ z.got = <<>> /\ z.inbox = <<>> /\ z.sent = 0
  BY DEF ClientRec
<1>4. w \in Worlds(n)
  <2>1. [k \in Clients |-> z] \in [Clients -> ClientRec] /\ [c \in 1..n |-> FreshCon] \in [1..n -> ConRec]
    BY <1>2, <1>3
  <2>2. [c \in 1..n |-> c] \in Seq(1..n) /\ <<>> \in Seq(Clients)
    BY <1>1
  <2>3. w = [net |-> w.net, backlog |-> w.backlog, cons |-> w.cons, stack |-> w.stack,
             buffered |-> w.buffered, exit |-> w.exit]
    BY DEF World
  <2> HIDE DEF w, z
  <2>4. /\ w.net \in [Clients -> ClientRec] /\ w.backlog \in Seq(Clients)
        /\ w.cons \in [1..n -> ConRec] /\ w.stack \in Seq(1..n)
        /\ w.buffered \in Int /\ w.exit \in BOOLEAN
    <3>1. w.net \in [Clients -> ClientRec] /\ w.cons \in [1..n -> ConRec]
      BY <1>1, <2>1, Zenon
    <3>2. w.stack \in Seq(1..n) /\ w.backlog \in Seq(Clients)
      BY <1>1, <2>2, Zenon
    <3>3. w.buffered \in Int
      <4>1. w.buffered = 0
        BY <1>1
      <4>2. QED
        BY <4>1
    <3>4. w.exit \in BOOLEAN
      BY <1>1, Zenon
    <3>5. QED
      BY <3>1, <3>2, <3>3, <3>4
  <2>5. QED
    BY <2>3, <2>4 DEF Worlds
<1> HIDE DEF w, z
<1>5. OpenIn(w.cons) = {} /\ DOMAIN w.cons = 1..n
  BY <1>1, <1>2 DEF OpenIn
<1>6. ClientsInv(w, config.script)
  <2> SUFFICES ASSUME NEW k \in Clients
               PROVE  ClientInv(config.script[k], z)
    BY <1>1 DEF ClientsInv
  <2>1. Len(z.got) = 0 /\ Len(z.inbox) = 0
    BY <1>3
  <2>2. 0 <= Len(config.script[k])
    <3>1. config.script[k] \in Seq(Chunks)
      BY <1>1, ConfigTypes DEF Script
    <3>2. QED
      BY <3>1
  <2>3. InOrder(config.script[k], z.sent, z.got) /\ Inbox(config.script[k], z)
    BY <2>1 DEF InOrder, Inbox
  <2>4. QED
    BY <1>3, <2>2, <2>3 DEF ClientInv
<1>7. Ties(w, config.script) /\ Waiting(w)
  <2>1. Len(w.backlog) = 0
    BY <1>1
  <2>2. QED
    BY <1>5, <2>1 DEF Ties, Waiting
<1>8. Structs(w)
  <2>1. Len(w.stack) = n /\ \A i \in 1..n : w.stack[i] = i
    BY <1>1
  <2>2. \A m \in Clients : w.net[m].status # "open"
    BY <1>1, <1>3
  <2>3. QED
    BY <1>5, <2>1, <2>2 DEF Structs
<1>9. Bytes(w, config)
  <2>1. Sum(w.cons, {}) = 0
    <3>1. w.cons \in [1..n -> ConRec]
      BY <1>1, <1>2
    <3> HIDE DEF n
    <3>2. QED
      BY <1>1, <3>1, Sums
  <2>2. \A c \in DOMAIN w.cons : w.cons[c] = FreshCon
    BY <1>1
  <2>3. QED
    <3>1. w.buffered = 0 /\ ~(w.buffered > 0)
      BY <1>1
    <3> HIDE DEF n
    <3>2. QED
      BY <1>5, <2>1, <2>2, <3>1 DEF Bytes
<1>10. QED
  BY <1>1, <1>4, <1>6, <1>7, <1>8, <1>9 DEF IInv, Sound, w, n

\* What is known of the clients and connections is of the types the model declares.
LEMMA Typed == IInv => TypeOK
<1> SUFFICES ASSUME IInv
             PROVE  TypeOK
  OBVIOUS
<1>1. /\ net \in [Clients -> ClientRec] /\ cons \in [1..config.structs -> ConRec]
      /\ responseBytesBuffered \in Int /\ exit \in BOOLEAN /\ running \in BOOLEAN
      /\ World.net = net /\ Sound(World, config)
  BY StateTypes DEF IInv
<1>2. ASSUME NEW k \in Clients
      PROVE  /\ net[k].status \in {"new", "queued", "open", "closed"}
             /\ net[k].gone \in {"no", "half", "reset"} /\ net[k].room \in BOOLEAN
             /\ net[k].sent \in 0..Len(config.script[k])
  <2> DEFINE m == net[k]   l == Len(config.script[k])
  <2>1. m \in ClientRec /\ ClientInv(config.script[k], m)
    BY <1>1 DEF Sound, ClientsInv
  <2>2. config.script[k] \in Seq(Chunks)
    BY StateTypes, ConfigTypes DEF Script
  <2>3. m.sent \in Nat /\ m.sent <= l /\ l \in Nat
    BY <2>1, <2>2, ClientTypes DEF ClientInv
  <2> HIDE DEF m, l
  <2>4. m.sent \in 0..l
    BY <2>3
  <2>5. QED
    BY <2>1, <2>4, ClientTypes DEF m, l
<1>3. ASSUME NEW c \in DOMAIN cons
      PROVE  /\ cons[c].client \in Clients \union {NoClient}
             /\ {cons[c].request, cons[c].len, cons[c].sent, cons[c].wakeups} \subseteq Nat
  BY <1>1, ConTypes
<1>4. QED
  BY <1>1, <1>2, <1>3 DEF TypeOK

\* What the clients received is in order.
LEMMA Ordered == IInv => RepliesInOrder
<1> SUFFICES ASSUME IInv, NEW k \in Clients, NEW n \in DOMAIN net[k].got, net[k].got[n][1] # 0
             PROVE  LET got == net[k].got
                        i   == got[n][1]
                        u   == got[n][2]
                    IN  /\ i \in RequestsSent(k) /\ config.script[k][i].kind = "fetch"
                        /\ u <= config.script[k][i].size
                        /\ u > 1 => n > 1 /\ got[n - 1] = <<i, u - 1>>
                        /\ u < config.script[k][i].size /\ n < Len(got) =>
                            \/ got[n + 1] = <<i, u + 1>>
                            \/ got[n + 1] = Status(500) /\ n + 1 = Len(got)
                        /\ \A m \in 1..(n - 1) : got[m][1] <= i
  BY DEF RepliesInOrder
<1> DEFINE g == net[k].got   s == config.script[k]   i == g[n][1]   u == g[n][2]
<1>1. net[k] \in ClientRec /\ ClientInv(s, net[k]) /\ s \in Script
  BY StateTypes, ConfigTypes DEF Sound, ClientsInv
<1>2. g \in Seq(Nat \X Nat)
  BY <1>1, ClientTypes
<1>3. n \in 1..Len(g)
  BY <1>2
<1>4. UnitInOrder(s, net[k].sent, g, n)
  BY <1>1, <1>3 DEF ClientInv, InOrder
<1> HIDE DEF g, s
<1>5. /\ i \in 1..net[k].sent /\ i \in DOMAIN s /\ s[i].kind = "fetch" /\ u \in 1..s[i].size
      /\ u > 1 => n > 1 /\ g[n - 1] = <<i, u - 1>>
      /\ u < s[i].size /\ n < Len(g) => \/ g[n + 1] = <<i, u + 1>>
                                        \/ g[n + 1] = Status(500) /\ n + 1 = Len(g)
      /\ \A m \in 1..(n - 1) : g[m][1] <= i
  BY <1>4 DEF UnitInOrder, g
<1>6. i \in RequestsSent(k)
  BY <1>5 DEF RequestsSent, IsEnd, s
<1>7. u <= s[i].size
  <2>1. s[i].size \in Nat
    BY <1>1, <1>5, ChunkTypes DEF Script
  <2>2. QED
    BY <1>5, <2>1
<1>8. QED
  BY <1>5, <1>6, <1>7 DEF g, s

\* The structs are open or on the stack, once.
LEMMA Conserved == IInv => ConsConserved
<1> SUFFICES ASSUME IInv
             PROVE  ConsConserved
  OBVIOUS
<1> DEFINE n == config.structs   L == Len(stack)   O == OpenIn(cons)
<1>1. /\ n \in Nat /\ net \in [Clients -> ClientRec] /\ cons \in [1..n -> ConRec] /\ stack \in Seq(1..n)
      /\ World.net = net /\ World.cons = cons /\ World.stack = stack
      /\ Sound(World, config)
  BY StateTypes
<1>2. /\ \A i, j \in 1..L : stack[i] = stack[j] => i = j
      /\ \A c \in DOMAIN cons : c \in O <=> \A i \in 1..L : stack[i] # c
      /\ \A c \in O : cons[c].client \in Clients /\ net[cons[c].client].status = "open"
      /\ \A c, d \in O : cons[c].client = cons[d].client => c = d
      /\ \A k \in Clients : net[k].status = "open" => \E c \in O : cons[c].client = k
  <2>1. Structs(World)
    BY <1>1 DEF Sound
  <2>2. QED
    BY <1>1, <2>1 DEF Structs
<1>3. Open(World) = O /\ O \subseteq 1..n /\ DOMAIN cons = 1..n
  BY <1>1 DEF Open, OpenIn
<1>4. DOMAIN stack = 1..L /\ L \in Nat /\ \A i \in 1..L : stack[i] \in 1..n
  BY <1>1, ElementOfSeq
<1>5. ToSet(stack) = {stack[i] : i \in 1..L}
  BY <1>4 DEF ToSet
<1>6. stack \in [1..L -> ToSet(stack)]
  BY <1>1, <1>4, <1>5
<1> HIDE DEF O, L, n
<1>7. ToSet(stack) = (DOMAIN cons) \ Open(World)
  BY <1>2, <1>3, <1>4, <1>5
<1>8. L = Cardinality(ToSet(stack))
  <2>1. stack \in Bijection(1..L, ToSet(stack))
    BY <1>2, <1>4, <1>5, <1>6 DEF Bijection, Injection, IsInjective, Surjection
  <2>2. ExistsBijection(1..L, ToSet(stack))
    BY <2>1 DEF ExistsBijection
  <2>3. IsFiniteSet(1..L) /\ Cardinality(1..L) = L
    <3>1. IsFiniteSet(1..L) /\ Cardinality(1..L) = (IF 1 > L THEN 0 ELSE L - 1 + 1)
      BY <1>4, FS_Interval
    <3>2. QED
      BY <1>4, <3>1
  <2>4. QED
    BY <2>2, <2>3, FS_Bijection
<1>9. ASSUME NEW k \in Clients, net[k].status = "open"
      PROVE  Cardinality({c \in O : cons[c].client = k}) = 1
  <2>1. PICK c \in O : cons[c].client = k
    BY <1>2, <1>9
  <2>2. {d \in O : cons[d].client = k} = {c}
    BY <1>2, <2>1
  <2>3. QED
    BY <2>2, FS_Singleton
<1>10. QED
  BY <1>2, <1>3, <1>7, <1>8, <1>9 DEF ConsConserved, L

\* The bytes are those of the open connections.
LEMMA BytesKept == IInv => RepliesAccounted
<1> SUFFICES ASSUME IInv
             PROVE  RepliesAccounted
  OBVIOUS
<1>1. /\ config \in Configs /\ cons \in [1..config.structs -> ConRec]
      /\ World.cons = cons /\ World.buffered = responseBytesBuffered
      /\ Sound(World, config)
  BY StateTypes
<1>2. Bytes(World, config) /\ Open(World) = OpenIn(cons)
  BY <1>1 DEF Sound, Open, OpenIn
<1>3. responseBytesBuffered = MapThenSumSet(LAMBDA c : cons[c].len, Open(World))
  BY <1>1, <1>2 DEF Bytes, Sum
<1>4. ASSUME responseBytesBuffered > 0
      PROVE  \E k \in Clients : \E r \in ToSet(config.script[k]) : responseBytesBuffered <= config.limit + r.size
  <2>1. PICK k \in Clients : \E i \in 1..Len(config.script[k]) :
            responseBytesBuffered <= config.limit + config.script[k][i].size
    BY <1>1, <1>2, <1>4 DEF Bytes
  <2>2. config.script[k] \in Seq(Chunks)
    BY <1>1, ConfigTypes DEF Script
  <2>3. ToSet(config.script[k]) = {config.script[k][i] : i \in 1..Len(config.script[k])}
    BY <2>2 DEF ToSet
  <2>4. QED
    BY <2>1, <2>3
<1>5. QED
  BY <1>3, <1>4 DEF RepliesAccounted

\* The invariant holds in every state.
THEOREM Invariance == Spec => []IInv
<1> QED
  BY InitHolds, Inductive, PTL DEF Spec

\* Type correctness of the connections and the clients.
THEOREM TypeCorrect == Spec => []TypeOK
BY Invariance, Typed, PTL

\* Whatever is refused, closed, reset or reused, the replies a client receives are those to its
\* own requests, in order and whole (apiSendData, apiResetCon, apiReadRequest).
THEOREM ClientsServed == Spec => []RepliesInOrder
BY Invariance, Ordered, PTL

\* However a connection ends, its struct is on the stack again, once, and the bytes of its reply
\* are given back, once (apiCloseCon, apiResetCon, acceptCon).
THEOREM NoLeak == Spec => []NothingLeaks
<1>1. IInv => NothingLeaks
  BY Conserved, BytesKept DEF NothingLeaks
<1> QED
  BY Invariance, <1>1, PTL
=============================================================================
