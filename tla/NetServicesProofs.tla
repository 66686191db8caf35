------------------------ MODULE NetServicesProofs ------------------------
(***************************************************************************)
(* A network service and its connector, for every number of clients,       *)
(* descriptors and addresses, whatever the peers and the kernel do: what   *)
(* was sent to a client and its queue are exactly what was flushed since   *)
(* it connected, and neither epoll nor a connector refers to memory that   *)
(* was freed.                                                              *)
(*                                                                         *)
(* The invariant says of the World, the record of the variables that the   *)
(* handlers pass on, that it is Linked (events, clients and the connector  *)
(* refer to each other) and that the Streams are complete; of the writer,  *)
(* that it holds the last units output; and of the events of a pass, that  *)
(* none is of memory freed since epoll_wait reported it.  StreamComplete   *)
(* alone is not inductive: flushWrites copies the writer's buffer, and     *)
(* only Buffered says which units are in it.                               *)
(*                                                                         *)
(* That every descriptor has exactly one owner (Whole) is kept only while  *)
(* no more clients are connected than max_fds_net allows.  Above it        *)
(* modesAcceptClients closes the descriptor of a service, and not the one  *)
(* it has just accepted, and epoll still knows the service.                *)
(*                                                                         *)
(* Every lemma about a handler is about a world: what it makes of a linked *)
(* one is linked.  The loops over the clients are folds; that they do to   *)
(* every client what their body does to one is proved by induction over    *)
(* the subsets of a finite set, and what Numbered keeps of a sequence by   *)
(* induction over its length.                                              *)
(***************************************************************************)
EXTENDS NetServices, FiniteSetTheorems, SequenceTheorems, WellFoundedInduction, TLAPS

\* the order of the numbers
Less == {ss \in Nat \X Nat : ss[1] < ss[2]}

\* The order of the numbers is well-founded.
LEMMA LessWF == IsWellFoundedOn(Less, Nat)
BY NatLessThanWellFounded DEF OpToRel, Less

\* A nonempty set of numbers has a least one.
LEMMA NatMin == \A T : T \subseteq Nat /\ T # {} => \E x \in T : \A y \in T : x <= y
<1> SUFFICES ASSUME NEW T, T \subseteq Nat, T # {}
             PROVE  \E x \in T : \A y \in T : x <= y
  OBVIOUS
<1>1. PICK x \in T : \A y \in T : ~ (<<y, x>> \in Less)
  BY LessWF, WFMin
<1>2. ASSUME NEW y \in T, y < x
      PROVE  FALSE
  <2>1. <<y, x>> \in Nat \X Nat
    OBVIOUS
  <2>2. QED
    BY <1>1, <1>2, <2>1 DEF Less
<1>3. QED
  BY <1>2

\* Induction, for sets of numbers.
LEMMA NatSetInduction ==
  ASSUME NEW T, 0 \in T, \A n \in Nat : n \in T => n + 1 \in T
  PROVE  Nat \subseteq T
<1>1. SUFFICES ASSUME Nat \ T # {}
               PROVE  FALSE
  OBVIOUS
<1>2. PICK m \in Nat \ T : \A y \in Nat \ T : m <= y
  BY <1>1, NatMin
<1>3. m # 0 /\ m - 1 \in Nat /\ m - 1 \in T
  BY <1>2
<1>4. QED
  BY <1>2, <1>3

\* Induction over the subsets of a finite set: a set that has every subset all of whose
\* proper subsets it has, has them all.
LEMMA SubsetInduction ==
  ASSUME NEW S, IsFiniteSet(S), NEW T,
         \A s \in SUBSET S : (\A t \in SUBSET S : t \subseteq s /\ t # s => t \in T) => s \in T
  PROVE  SUBSET S \subseteq T
<1> DEFINE R == StrictSubsetOrdering(S)
           U == (SUBSET S) \ T
<1>1. IsWellFoundedOn(R, FiniteSubsetsOf(S))
  BY FS_StrictSubsetOrderingWellFounded
<1>2. FiniteSubsetsOf(S) = SUBSET S
  BY FS_Subset DEF FiniteSubsetsOf
<1>3. SUFFICES ASSUME U # {}
               PROVE  FALSE
  OBVIOUS
<1>4. U \subseteq FiniteSubsetsOf(S)
  BY <1>2
<1>5. PICK x \in U : \A y \in U : ~ (<<y, x>> \in R)
  <2> HIDE DEF U
  <2> QED
    BY <1>1, <1>3, <1>4, WFMin
<1>6. ASSUME NEW t \in SUBSET S, t \subseteq x, t # x
      PROVE  t \in T
  <2>1. x \in SUBSET S
    BY <1>5
  <2>2. <<t, x>> \in R
    BY <1>6, <2>1 DEF StrictSubsetOrdering
  <2>3. QED
    BY <1>5, <2>2
<1>7. QED
  BY <1>5, <1>6

-----------------------------------------------------------------------------
(* The numbered units of a sequence.                                       *)

\* what Numbered computes for the first n units, given the values for fewer
CountStep(units, N, n) ==
    IF n = 0 THEN <<>>
    ELSE IF units[n] = 0 THEN N[n - 1] ELSE Append(N[n - 1], units[n])

\* N is the function that Numbered chooses.
IsCount(units, N) == N = [n \in 0..Len(units) |-> CountStep(units, N, n)]

\* There is one.
LEMMA CountExists ==
  ASSUME NEW units, Len(units) \in Nat
  PROVE  \E N : IsCount(units, N)
<1> DEFINE Have == {k \in Nat : \E N : N = [n \in 0..k |-> CountStep(units, N, n)]}
<1>1. 0 \in Have
  <2>1. [n \in 0..0 |-> <<>>] = [n \in 0..0 |-> CountStep(units, [m \in 0..0 |-> <<>>], n)]
    BY DEF CountStep
  <2>2. QED
    BY <2>1
<1>2. ASSUME NEW k \in Nat, k \in Have
      PROVE  k + 1 \in Have
  <2>1. PICK N : N = [n \in 0..k |-> CountStep(units, N, n)]
    BY <1>2
  <2> DEFINE M == [n \in 0..(k + 1) |-> CountStep(units, N, n)]
  <2>2. \A n \in 0..k : M[n] = N[n]
    BY <2>1
  <2>3. \A n \in 0..(k + 1) : n # 0 => n - 1 \in 0..k
    OBVIOUS
  <2>4. \A n \in 0..(k + 1) : CountStep(units, M, n) = CountStep(units, N, n)
    <3> HIDE DEF M
    <3>1. QED
      BY <2>2, <2>3 DEF CountStep
  <2>5. M = [n \in 0..(k + 1) |-> CountStep(units, M, n)]
    BY <2>4
  <2> HIDE DEF M
  <2>6. QED
    BY <2>5
<1>3. Nat \subseteq Have
  <2> HIDE DEF Have
  <2>1. QED
    BY <1>1, <1>2, NatSetInduction
<1>4. QED
  BY <1>3 DEF IsCount

\* Numbered is the last value of such a function.
LEMMA NumberedCounts ==
  ASSUME NEW units, Len(units) \in Nat
  PROVE  \E N : IsCount(units, N) /\ Numbered(units) = N[Len(units)]
<1>1. \A N : IsCount(units, N) <=>
        N = [n \in 0..Len(units) |-> IF n = 0 THEN <<>>
                ELSE IF units[n] = 0 THEN N[n - 1] ELSE Append(N[n - 1], units[n])]
  BY DEF IsCount, CountStep
<1>2. \E N : IsCount(units, N)
  BY CountExists
<1>3. QED
  BY <1>1, <1>2 DEF Numbered

\* Two sequences that begin alike have the same values there.
LEMMA CountsAgree ==
  ASSUME NEW s \in Seq(Nat), NEW t \in Seq(Nat), NEW m \in Nat, m <= Len(s), m <= Len(t),
         \A i \in 1..m : s[i] = t[i],
         NEW N, IsCount(s, N), NEW M, IsCount(t, M)
  PROVE  \A n \in 0..m : N[n] = M[n]
<1> DEFINE T == {n \in Nat : n <= m => N[n] = M[n]}
<1>1. 0 \in T
  BY DEF IsCount, CountStep
<1>2. ASSUME NEW n \in Nat, n \in T
      PROVE  n + 1 \in T
  <2>1. CASE n + 1 <= m
    <3>1. n + 1 \in 0..Len(s) /\ n + 1 \in 0..Len(t) /\ N[n] = M[n] /\ s[n + 1] = t[n + 1]
      BY <1>2, <2>1
    <3>2. N[n + 1] = CountStep(s, N, n + 1) /\ M[n + 1] = CountStep(t, M, n + 1)
      BY <3>1 DEF IsCount
    <3>3. QED
      BY <3>1, <3>2 DEF CountStep
  <2>2. QED
    BY <2>1
<1>3. Nat \subseteq T
  <2> HIDE DEF T
  <2>1. QED
    BY <1>1, <1>2, NatSetInduction
<1>4. QED
  BY <1>3

\* One unit more.
LEMMA NumberedAppend ==
  ASSUME NEW s \in Seq(Nat), NEW u \in Nat
  PROVE  Numbered(Append(s, u)) = IF u = 0 THEN Numbered(s) ELSE Append(Numbered(s), u)
<1> DEFINE t == Append(s, u)
<1>1. /\ t \in Seq(Nat) /\ Len(t) = Len(s) + 1 /\ t[Len(s) + 1] = u
      /\ \A i \in 1..Len(s) : t[i] = s[i]
      /\ Len(s) \in Nat
  OBVIOUS
<1> HIDE DEF t
<1>2. PICK N : IsCount(s, N) /\ Numbered(s) = N[Len(s)]
  BY NumberedCounts
<1>3. PICK M : IsCount(t, M) /\ Numbered(t) = M[Len(t)]
  BY <1>1, NumberedCounts
<1>4. M[Len(s)] = N[Len(s)]
  <2>1. /\ t \in Seq(Nat) /\ Len(s) \in Nat /\ Len(s) <= Len(s) /\ Len(s) <= Len(t)
        /\ \A i \in 1..Len(s) : s[i] = t[i]
        /\ IsCount(s, N) /\ IsCount(t, M)
    BY <1>1, <1>2, <1>3
  <2> DEFINE m == Len(s)
  <2> HIDE DEF m
  <2>2. \A n \in 0..m : N[n] = M[n]
    BY <2>1, CountsAgree DEF m
  <2>3. QED
    BY <1>1, <2>2 DEF m
<1>5. M[Len(s) + 1] = CountStep(t, M, Len(s) + 1)
  <2>1. Len(s) + 1 \in 0..Len(t)
    BY <1>1
  <2>2. QED
    BY <1>3, <2>1 DEF IsCount
<1>6. M[Len(s) + 1] = IF u = 0 THEN M[Len(s)] ELSE Append(M[Len(s)], u)
  BY <1>1, <1>5 DEF CountStep
<1>7. QED
  BY <1>1, <1>2, <1>3, <1>4, <1>6 DEF t

\* Nothing has no numbered units.
LEMMA NumberedEmpty == Numbered(<<>>) = <<>>
<1>1. Len(<<>>) = 0
  OBVIOUS
<1>2. PICK N : IsCount(<<>>, N) /\ Numbered(<<>>) = N[0]
  BY <1>1, NumberedCounts
<1>3. QED
  BY <1>1, <1>2 DEF IsCount, CountStep

\* The first n + 1 elements are the first n and one more.
LEMMA FirstOfSeq ==
  ASSUME NEW s \in Seq(Nat), NEW n \in Nat, n + 1 <= Len(s)
  PROVE  SubSeq(s, 1, n + 1) = Append(SubSeq(s, 1, n), s[n + 1])
OBVIOUS

\* Induction over the prefixes of a sequence.
LEMMA PrefixInduction ==
  ASSUME NEW T, NEW s \in Seq(Nat), <<>> \in T,
         \A p \in Seq(Nat) : \A u \in Nat : p \in T => Append(p, u) \in T
  PROVE  s \in T
<1> DEFINE U == {n \in Nat : n <= Len(s) => SubSeq(s, 1, n) \in T}
<1>1. 0 \in U
  <2>1. SubSeq(s, 1, 0) = <<>>
    OBVIOUS
  <2>2. QED
    BY <2>1
<1>2. ASSUME NEW n \in Nat, n \in U
      PROVE  n + 1 \in U
  <2>1. CASE n + 1 <= Len(s)
    <3>1. /\ SubSeq(s, 1, n) \in Seq(Nat) /\ s[n + 1] \in Nat /\ SubSeq(s, 1, n) \in T
      BY <1>2, <2>1
    <3>2. SubSeq(s, 1, n + 1) = Append(SubSeq(s, 1, n), s[n + 1])
      BY <2>1, FirstOfSeq
    <3>3. SubSeq(s, 1, n + 1) \in T
      BY <3>1, <3>2
    <3>4. QED
      BY <3>3
  <2>2. QED
    BY <2>1
<1>3. Nat \subseteq U
  <2> HIDE DEF U
  <2>1. QED
    BY <1>1, <1>2, NatSetInduction
<1>4. SubSeq(s, 1, Len(s)) = s /\ Len(s) \in Nat /\ Len(s) <= Len(s)
  OBVIOUS
<1>5. Len(s) \in U
  BY <1>3, <1>4
<1>6. QED
  BY <1>4, <1>5

\* Numbered units are units.
LEMMA NumberedType ==
  ASSUME NEW s \in Seq(Nat)
  PROVE  Numbered(s) \in Seq(Nat)
<1> DEFINE T == {p \in Seq(Nat) : Numbered(p) \in Seq(Nat)}
<1>1. <<>> \in T
  <2>1. <<>> \in Seq(Nat)
    OBVIOUS
  <2>2. QED
    BY <2>1, NumberedEmpty
<1>2. ASSUME NEW p \in Seq(Nat), NEW u \in Nat, p \in T
      PROVE  Append(p, u) \in T
  <2>1. Numbered(Append(p, u)) = IF u = 0 THEN Numbered(p) ELSE Append(Numbered(p), u)
    BY NumberedAppend
  <2>2. Numbered(p) \in Seq(Nat)
    BY <1>2
  <2>3. Append(p, u) \in Seq(Nat) /\ Append(Numbered(p), u) \in Seq(Nat)
    BY <2>2
  <2>4. Numbered(Append(p, u)) \in Seq(Nat)
    BY <2>1, <2>2, <2>3
  <2>5. QED
    BY <2>3, <2>4
<1>3. s \in T
  <2> HIDE DEF T
  <2>1. QED
    BY <1>1, <1>2, PrefixInduction
<1>4. QED
  BY <1>3

\* The numbered units of one sequence after another are those of the one and of the other.
LEMMA NumberedConcat ==
  ASSUME NEW s \in Seq(Nat), NEW t \in Seq(Nat)
  PROVE  Numbered(s \o t) = Numbered(s) \o Numbered(t)
<1> DEFINE T == {p \in Seq(Nat) : Numbered(s \o p) = Numbered(s) \o Numbered(p)}
<1>1. <<>> \in T
  <2>1. s \o <<>> = s /\ Numbered(s) \o <<>> = Numbered(s)
    BY NumberedType
  <2>2. <<>> \in Seq(Nat)
    OBVIOUS
  <2>3. Numbered(s \o <<>>) = Numbered(s) \o Numbered(<<>>)
    BY <2>1, NumberedEmpty, Zenon
  <2>4. QED
    BY <2>2, <2>3
<1>2. ASSUME NEW p \in Seq(Nat), NEW u \in Nat, p \in T
      PROVE  Append(p, u) \in T
  <2>1. s \o Append(p, u) = Append(s \o p, u) /\ s \o p \in Seq(Nat)
    OBVIOUS
  <2>2. Numbered(Append(p, u)) = IF u = 0 THEN Numbered(p) ELSE Append(Numbered(p), u)
    BY NumberedAppend
  <2>3. Numbered(Append(s \o p, u)) = IF u = 0 THEN Numbered(s \o p) ELSE Append(Numbered(s \o p), u)
    BY <2>1, NumberedAppend
  <2>4. Numbered(s) \in Seq(Nat) /\ Numbered(p) \in Seq(Nat)
    BY NumberedType
  <2>5. Numbered(s) \o Append(Numbered(p), u) = Append(Numbered(s) \o Numbered(p), u)
    BY <2>4
  <2>6. Numbered(s \o p) = Numbered(s) \o Numbered(p) /\ Append(p, u) \in Seq(Nat)
    BY <1>2
  <2>7. Numbered(s \o Append(p, u)) = Numbered(s) \o Numbered(Append(p, u))
    BY <2>1, <2>2, <2>3, <2>5, <2>6
  <2>8. QED
    BY <2>6, <2>7
<1>3. t \in T
  <2> HIDE DEF T
  <2>1. QED
    BY <1>1, <1>2, PrefixInduction
<1>4. QED
  BY <1>3

\* Units that are all numbered.
LEMMA NumberedRange ==
  ASSUME NEW k \in Nat, NEW n \in Nat
  PROVE  Numbered([i \in 1..n |-> k + i]) = [i \in 1..n |-> k + i]
<1> DEFINE R(m) == [i \in 1..m |-> k + i]
           T == {m \in Nat : Numbered(R(m)) = R(m)}
<1>1. 0 \in T
  <2>1. R(0) = <<>>
    OBVIOUS
  <2>2. QED
    BY <2>1, NumberedEmpty
<1>2. ASSUME NEW m \in Nat, m \in T
      PROVE  m + 1 \in T
  <2>1. R(m + 1) = Append(R(m), k + m + 1) /\ R(m) \in Seq(Nat) /\ k + m + 1 \in Nat /\ k + m + 1 # 0
    OBVIOUS
  <2> HIDE DEF R
  <2>2. Numbered(R(m)) = R(m)
    BY <1>2
  <2>3. Numbered(Append(R(m), k + m + 1)) = Append(Numbered(R(m)), k + m + 1)
    BY <2>1, NumberedAppend
  <2>4. Numbered(R(m + 1)) = R(m + 1)
    BY <2>1, <2>2, <2>3
  <2>5. QED
    BY <2>4
<1>3. Nat \subseteq T
  <2> HIDE DEF T
  <2>1. QED
    BY <1>1, <1>2, NatSetInduction
<1>4. QED
  BY <1>3

-----------------------------------------------------------------------------
(* The invariant.                                                          *)

\* the types of the parts of a world
ClientRec == [fd : Fds \union {0}, service : BOOLEAN, sendq : Seq(Nat), out : BOOLEAN,
              con : BOOLEAN, young : BOOLEAN, sent : Seq(Nat), from : Nat]
ConRec    == [fd : Fds \union {0}, connecting : BOOLEAN, connected : BOOLEAN,
              c : Slots \union {0}, addr_info : BOOLEAN, try_addr : 0..NumAddr,
              in_progress : BOOLEAN, thread : {"none", "running", "done"}, gai_error : BOOLEAN]
Statuses  == {"idle", "queued", "aborted", "syn", "refused", "open", "gone"}
Pointers  == Slots \union {Null, ListenSocket, DummyClient}

\* the worlds: everything a handler changes but the events and the writer
Worlds == [files : [Fds -> Conns \union {Free, Listen}], interest : [Fds -> Pointers],
           status : [Conns -> Statuses], room : [Conns -> BOOLEAN],
           clients : [Slots -> ClientRec \union {Nil}], connections : Int, con : ConRec]

\* the numbered units a client was given: sent, or in its queue
Stream(cl) == cl.sent \o Numbered(cl.sendq)

\* ... are what was flushed since it connected, the first n units having been flushed
InStream(cl, n) ==
    /\ cl.from \in 0..n
    /\ Stream(cl) = [i \in 1..(n - cl.from) |-> cl.from + i]

\* every client of w was given its stream
Streams(w, n) == \A s \in Open(w) : InStream(w.clients[s], n)

\* the writer holds the last of the units that were output
Buffered(wr) ==
    /\ wr \in [data : Seq(Nat), units : Nat]
    /\ Len(Numbered(wr.data)) <= wr.units
    /\ Numbered(wr.data) = [i \in 1..Len(Numbered(wr.data)) |->
                                wr.units - Len(Numbered(wr.data)) + i]

\* the last unit that flushWrites gave to the clients
FlushedUpto(wr) == wr.units - Len(Numbered(wr.data))

\* whom epoll reports the events of descriptor f to
Reported(w, f) ==
    /\ w.interest[f] \in Slots =>
            w.interest[f] \in Open(w) /\ w.clients[w.interest[f]].fd = f
    /\ w.interest[f] = DummyClient => w.con.connecting /\ w.con.fd = f

\* the connector: what it refers to exists in the states in which it refers to it
Connector(w) ==
    /\ w.con.connecting => ~w.con.connected /\ w.con.fd \in Fds
    /\ w.con.connected => w.con.c \in Open(w)
    /\ w.con.try_addr # 0 => w.con.addr_info /\ ~w.con.in_progress
    /\ w.con.thread # "none" => w.con.in_progress
    /\ w.con.thread = "done" => w.con.addr_info \/ w.con.gai_error

\* Events, clients and the connector refer to each other.
Linked(w) ==
    /\ \A f \in Fds : Reported(w, f)
    /\ \A s \in Slots : w.clients[s] # Nil => w.clients[s].service = (w.clients[s].fd # 0)
    /\ \A s \in Open(w) : w.clients[s].con <=> w.con.connected /\ w.con.c = s
    /\ Connector(w)
    /\ w.connections = Cardinality(Open(w))

\* Whoever has a descriptor has an open one that epoll knows.
Whole(w) ==
    /\ w.files[ListenFd] = Listen /\ w.interest[ListenFd] = ListenSocket
    /\ \A f \in Fds \ {ListenFd} :
        /\ w.files[f] # Listen /\ w.interest[f] # ListenSocket
        /\ w.files[f] = Free <=> w.interest[f] = Null
    /\ \A s \in Open(w) :
        w.files[w.clients[s].fd] # Free /\ w.interest[w.clients[s].fd] = s
    /\ w.con.connecting => w.files[w.con.fd] # Free /\ w.interest[w.con.fd] = DummyClient

-----------------------------------------------------------------------------
(* Types.                                                                  *)

\* What is assumed of the constants, in parts.
LEMMA Constants ==
  /\ Slots \subseteq Nat \ {0} /\ IsFiniteSet(Slots)
  /\ Fds \subseteq Nat \ {0} /\ ListenFd \in Fds
  /\ Remote \notin Peers /\ Remote \in Conns
  /\ Free \notin Conns /\ Listen \notin Conns /\ Free # Listen
  /\ NumAddr \in Nat /\ 1 \in 0..NumAddr
  /\ FlushSize \in Nat \ {0} /\ SendqMax \in Nat \ {0}
BY NetServicesAssumption DEF Conns

\* No client is nothing.
LEMMA NotNil ==
  ASSUME NEW cl \in ClientRec
  PROVE  cl # Nil
<1>1. "service" \in DOMAIN cl
  BY DEF ClientRec
<1>2. "service" \notin DOMAIN Nil
  BY DEF Nil
<1>3. QED
  BY <1>1, <1>2

\* The fields of a world.
LEMMA WorldTypes ==
  ASSUME NEW w \in Worlds
  PROVE  /\ w = [files |-> w.files, interest |-> w.interest, status |-> w.status, room |-> w.room,
                 clients |-> w.clients, connections |-> w.connections, con |-> w.con]
         /\ w.files \in [Fds -> Conns \union {Free, Listen}] /\ w.interest \in [Fds -> Pointers]
         /\ w.status \in [Conns -> Statuses] /\ w.room \in [Conns -> BOOLEAN]
         /\ w.clients \in [Slots -> ClientRec \union {Nil}]
         /\ w.connections \in Int /\ w.con \in ConRec
BY DEF Worlds

\* The fields of an open client.
LEMMA OpenTypes ==
  ASSUME NEW w \in Worlds, NEW s \in Open(w)
  PROVE  /\ s \in Slots /\ w.clients[s] \in ClientRec /\ w.clients[s].service
         /\ w.clients[s].fd \in Fds \union {0}
         /\ w.clients[s].sendq \in Seq(Nat) /\ w.clients[s].sent \in Seq(Nat)
         /\ w.clients[s].from \in Nat
<1>1. s \in Slots /\ w.clients[s] \in ClientRec /\ w.clients[s].service
  BY WorldTypes DEF Open
<1>2. QED
  BY <1>1 DEF ClientRec

-----------------------------------------------------------------------------
(* Closing.                                                                *)

\* What closing a descriptor changes.
LEMMA CloseFdTypes ==
  ASSUME NEW w \in Worlds, NEW f
  PROVE  /\ CloseFd(w, f) \in Worlds
         /\ CloseFd(w, f).clients = w.clients /\ CloseFd(w, f).room = w.room
         /\ CloseFd(w, f).connections = w.connections /\ CloseFd(w, f).con = w.con
<1> DEFINE st == [k \in Conns |->
                        IF \/ k = w.files[f]
                           \/ w.files[f] = Listen /\ w.status[k] \in {"queued", "aborted"}
                        THEN "idle" ELSE w.status[k]]
           fs == [w.files EXCEPT ![f] = Free]
           is == [w.interest EXCEPT ![f] = Null]
           a == w.room  b == w.clients  d == w.connections  e == w.con
           x == w.files y == w.interest z == w.status
<1>1. w = [files |-> x, interest |-> y, status |-> z, room |-> a, clients |-> b,
           connections |-> d, con |-> e]
  BY WorldTypes
<1>2. CASE f = 0 \/ w.files[f] = Free
  BY <1>2 DEF CloseFd
<1>3. CASE ~(f = 0 \/ w.files[f] = Free)
  <2>1. CloseFd(w, f) = [files |-> fs, interest |-> is, status |-> st, room |-> a, clients |-> b,
                         connections |-> d, con |-> e]
    BY <1>1, <1>3 DEF CloseFd
  <2>2. st \in [Conns -> Statuses] /\ fs \in [Fds -> Conns \union {Free, Listen}]
        /\ is \in [Fds -> Pointers]
    BY WorldTypes DEF Statuses, Pointers
  <2> HIDE DEF st, fs, is
  <2>3. QED
    BY <2>1, <2>2, WorldTypes DEF Worlds
<1>4. QED
  BY <1>2, <1>3

\* Epoll forgets a descriptor.
Forget(w, f) == [w EXCEPT !.interest[f] = Null]

\* What that changes.
LEMMA ForgetTypes ==
  ASSUME NEW w \in Worlds, NEW f
  PROVE  /\ Forget(w, f) \in Worlds
         /\ Forget(w, f).files = w.files /\ Forget(w, f).interest = [w.interest EXCEPT ![f] = Null]
         /\ Forget(w, f).status = w.status /\ Forget(w, f).room = w.room
         /\ Forget(w, f).clients = w.clients
         /\ Forget(w, f).connections = w.connections /\ Forget(w, f).con = w.con
<1> DEFINE is == [w.interest EXCEPT ![f] = Null]
           a == w.room  b == w.clients  d == w.connections  e == w.con
           x == w.files y == w.interest z == w.status
<1>1. w = [files |-> x, interest |-> y, status |-> z, room |-> a, clients |-> b,
           connections |-> d, con |-> e]
  BY WorldTypes
<1>2. Forget(w, f) = [files |-> x, interest |-> is, status |-> z, room |-> a, clients |-> b,
                      connections |-> d, con |-> e]
  BY <1>1 DEF Forget
<1>3. is \in [Fds -> Pointers]
  BY WorldTypes DEF Pointers
<1> HIDE DEF is
<1>4. Forget(w, f) \in Worlds
  BY <1>2, <1>3, WorldTypes DEF Worlds
<1>5. QED
  BY <1>2, <1>4 DEF is

\* The descriptors after a close().
LEMMA CloseFdFds ==
  ASSUME NEW w \in Worlds, NEW f \in Fds
  PROVE  /\ CloseFd(w, f).files = [w.files EXCEPT ![f] = Free]
         /\ w.interest[f] = Null \/ w.files[f] # Free =>
                CloseFd(w, f).interest = [w.interest EXCEPT ![f] = Null]
<1> DEFINE st == [k \in Conns |->
                        IF \/ k = w.files[f]
                           \/ w.files[f] = Listen /\ w.status[k] \in {"queued", "aborted"}
                        THEN "idle" ELSE w.status[k]]
           fs == [w.files EXCEPT ![f] = Free]
           is == [w.interest EXCEPT ![f] = Null]
           a == w.room  b == w.clients  d == w.connections  e == w.con
           x == w.files y == w.interest z == w.status
<1>1. w = [files |-> x, interest |-> y, status |-> z, room |-> a, clients |-> b,
           connections |-> d, con |-> e]
  BY WorldTypes
<1>2. CASE w.files[f] = Free
  <2>1. CloseFd(w, f) = w
    BY <1>2 DEF CloseFd
  <2>2. [w.files EXCEPT ![f] = Free] = w.files
    BY <1>2, WorldTypes
  <2>3. w.interest[f] = Null => [w.interest EXCEPT ![f] = Null] = w.interest
    BY WorldTypes
  <2>4. QED
    BY <1>2, <2>1, <2>2, <2>3
<1>3. CASE w.files[f] # Free
  <2>1. CloseFd(w, f) = [files |-> fs, interest |-> is, status |-> st, room |-> a, clients |-> b,
                         connections |-> d, con |-> e]
    <3>1. f # 0
      BY Constants
    <3>2. QED
      BY <1>1, <1>3, <3>1 DEF CloseFd
  <2> HIDE DEF st, fs, is
  <2>2. CloseFd(w, f).files = fs /\ CloseFd(w, f).interest = is
    BY <2>1
  <2>3. QED
    BY <2>2 DEF fs, is
<1>4. QED
  BY <1>2, <1>3

\* a client after modesCloseClient
Closed(cl) == [cl EXCEPT !.fd = 0, !.service = FALSE, !.out = FALSE,
                         !.sendq = <<>>, !.sent = <<>>, !.from = 0]

\* Its type.
LEMMA ClosedTypes ==
  ASSUME NEW cl \in ClientRec
  PROVE  /\ Closed(cl) \in ClientRec /\ Closed(cl) # Nil
         /\ Closed(cl).service = FALSE /\ Closed(cl).fd = 0
<1>1. <<>> \in Seq(Nat)
  OBVIOUS
<1>2. Closed(cl) \in ClientRec /\ Closed(cl).service = FALSE /\ Closed(cl).fd = 0
  BY <1>1 DEF Closed, ClientRec
<1>3. QED
  BY <1>2, NotNil

\* The connector after its client was closed.
LEMMA LostTypes ==
  ASSUME NEW cn \in ConRec
  PROVE  /\ ConnectorLost(cn) \in ConRec
         /\ ~ConnectorLost(cn).connecting /\ ~ConnectorLost(cn).connected
         /\ ConnectorLost(cn).try_addr = cn.try_addr /\ ConnectorLost(cn).addr_info = cn.addr_info
         /\ ConnectorLost(cn).in_progress = cn.in_progress /\ ConnectorLost(cn).thread = cn.thread
         /\ ConnectorLost(cn).gai_error = cn.gai_error
BY DEF ConnectorLost, ConRec

\* What modesCloseClient changes.
LEMMA CloseTypes ==
  ASSUME NEW w \in Worlds, NEW s \in Open(w)
  PROVE  /\ CloseClient(w, s) \in Worlds
         /\ CloseClient(w, s).clients = [w.clients EXCEPT ![s] = Closed(w.clients[s])]
         /\ CloseClient(w, s).connections = w.connections - 1
         /\ CloseClient(w, s).con =
                IF w.clients[s].con THEN ConnectorLost(w.con) ELSE w.con
         /\ w.clients[s].fd \in Fds =>
                /\ CloseClient(w, s).files = [w.files EXCEPT ![w.clients[s].fd] = Free]
                /\ CloseClient(w, s).interest = [w.interest EXCEPT ![w.clients[s].fd] = Null]
<1> DEFINE cl == w.clients[s]   f == cl.fd   v == Forget(w, f)   u == CloseFd(v, f)
           ld == Closed(cl)
           cn == IF cl.con THEN ConnectorLost(w.con) ELSE w.con
           cs == [w.clients EXCEPT ![s] = ld]
<1>1. s \in Slots /\ cl \in ClientRec /\ cl.service /\ w.con \in ConRec
  BY OpenTypes, WorldTypes
<1>2. v \in Worlds /\ v.clients = w.clients /\ v.connections = w.connections /\ v.con = w.con
      /\ v.files = w.files /\ v.interest = [w.interest EXCEPT ![f] = Null]
  BY ForgetTypes
<1>3. u \in Worlds /\ u.clients = w.clients /\ u.connections = w.connections /\ u.con = w.con
  BY <1>2, CloseFdTypes
<1>4. f \in Fds => u.files = [w.files EXCEPT ![f] = Free] /\ u.interest = [w.interest EXCEPT ![f] = Null]
  <2>1. ASSUME f \in Fds
        PROVE  v.interest[f] = Null /\ [v.interest EXCEPT ![f] = Null] = v.interest
    BY <1>2, <2>1, WorldTypes
  <2> HIDE DEF v, f
  <2>2. ASSUME f \in Fds
        PROVE  u.files = [v.files EXCEPT ![f] = Free] /\ u.interest = [v.interest EXCEPT ![f] = Null]
    BY <1>2, <2>1, <2>2, CloseFdFds
  <2>3. QED
    BY <1>2, <2>1, <2>2
<1>5. CloseClient(w, s) = [u EXCEPT !.clients[s] = Closed(@), !.connections = @ - 1,
                                    !.con = IF cl.con THEN ConnectorLost(@) ELSE @]
  BY <1>1 DEF CloseClient, Closed, Forget
<1>6. ld \in ClientRec /\ cn \in ConRec
  BY <1>1, ClosedTypes, LostTypes
<1> DEFINE a == u.room  b == u.clients  d == u.connections  e == u.con
           x == u.files y == u.interest z == u.status
<1>7. u = [files |-> x, interest |-> y, status |-> z, room |-> a, clients |-> b,
           connections |-> d, con |-> e]
  BY <1>3, WorldTypes
<1> HIDE DEF u, v, a, b, d, e, x, y, z
<1>8. CloseClient(w, s) = [files |-> x, interest |-> y, status |-> z, room |-> a,
                           clients |-> [b EXCEPT ![s] = Closed(b[s])], connections |-> d - 1,
                           con |-> IF cl.con THEN ConnectorLost(e) ELSE e]
  BY <1>5, <1>7
<1>9. b = w.clients /\ d = w.connections /\ e = w.con
  BY <1>3 DEF b, d, e
<1>10. CloseClient(w, s) = [files |-> x, interest |-> y, status |-> z, room |-> a,
                            clients |-> cs, connections |-> w.connections - 1, con |-> cn]
  BY <1>8, <1>9
<1>11. cs \in [Slots -> ClientRec \union {Nil}]
  BY <1>6, WorldTypes
<1>12. w.connections - 1 \in Int
  BY WorldTypes
<1>13. /\ x \in [Fds -> Conns \union {Free, Listen}] /\ y \in [Fds -> Pointers]
       /\ z \in [Conns -> Statuses] /\ a \in [Conns -> BOOLEAN]
  BY <1>3, WorldTypes DEF x, y, z, a
<1> HIDE DEF cs, cn, ld, cl, f
<1>14. CloseClient(w, s) \in Worlds
  BY <1>6, <1>10, <1>11, <1>12, <1>13 DEF Worlds
<1>15. /\ CloseClient(w, s).clients = cs /\ CloseClient(w, s).con = cn
       /\ CloseClient(w, s).connections = w.connections - 1
       /\ CloseClient(w, s).files = x /\ CloseClient(w, s).interest = y
  BY <1>10
<1>16. QED
  BY <1>4, <1>14, <1>15 DEF cs, cn, ld, cl, f, x, y
\* What is still so after a handler that closes clients but creates none.
Keeps(w, x) ==
    /\ x \in Worlds
    /\ \A t \in Slots : w.clients[t] # Nil => x.clients[t] # Nil
    /\ Linked(w) => /\ Linked(x)
                    /\ w.con.connecting => x.con.connecting
                    /\ Whole(w) => Whole(x)

\* One such handler after another is one.
LEMMA KeepsTrans ==
  ASSUME NEW w, NEW x, NEW y, Keeps(w, x), Keeps(x, y)
  PROVE  Keeps(w, y)
BY DEF Keeps

\* x is w but that something happened to client s: its stream is st now, and began after fr,
\* if it was not closed.
Fed(w, x, s, st, fr) ==
    /\ Keeps(w, x)
    /\ \A t \in Slots \ {s} : x.clients[t] = w.clients[t]
    /\ x.clients[s] \in ClientRec
    /\ x.clients[s].service => Stream(x.clients[s]) = st /\ x.clients[s].from = fr

\* x has the descriptors of w, and its clients but for those freed, whatever they send.
Alike(w, x) ==
    /\ x.files = w.files /\ x.interest = w.interest
    /\ x.connections = w.connections /\ x.con = w.con
    /\ Open(x) = Open(w)
    /\ \A t \in Slots : x.clients[t] # Nil =>
        /\ w.clients[t] # Nil
        /\ x.clients[t].fd = w.clients[t].fd /\ x.clients[t].service = w.clients[t].service
        /\ x.clients[t].con = w.clients[t].con

\* What belongs to whom does not change then.
LEMMA AlikeLinked ==
  ASSUME NEW w, NEW x, Alike(w, x)
  PROVE  /\ Linked(w) => Linked(x)
         /\ Linked(w) /\ Whole(w) => Whole(x)
<1>1. Open(x) \subseteq Slots /\ \A t \in Open(x) : x.clients[t] # Nil
  BY DEF Open
<1>2. ASSUME Linked(w)
      PROVE  Linked(x)
  <2>1. \A f \in Fds : Reported(x, f)
    BY <1>1, <1>2 DEF Linked, Alike, Reported
  <2>2. \A t \in Slots : x.clients[t] # Nil => x.clients[t].service = (x.clients[t].fd # 0)
    BY <1>2 DEF Linked, Alike
  <2>3. \A t \in Open(x) : x.clients[t].con <=> x.con.connected /\ x.con.c = t
    BY <1>1, <1>2 DEF Linked, Alike
  <2>4. Connector(x)
    BY <1>2 DEF Linked, Alike, Connector
  <2>5. x.connections = Cardinality(Open(x))
    BY <1>2 DEF Linked, Alike
  <2>6. QED
    BY <2>1, <2>2, <2>3, <2>4, <2>5 DEF Linked
<1>3. ASSUME Whole(w)
      PROVE  Whole(x)
  <2>1. \A t \in Open(x) : x.files[x.clients[t].fd] # Free /\ x.interest[x.clients[t].fd] = t
    BY <1>1, <1>3 DEF Whole, Alike
  <2>2. QED
    BY <1>3, <2>1 DEF Whole, Alike
<1>4. QED
  BY <1>2, <1>3

\* x is w but for the queue of client s.
Same(w, x, s) ==
    /\ x \in Worlds
    /\ x.files = w.files /\ x.interest = w.interest
    /\ x.connections = w.connections /\ x.con = w.con
    /\ \A t \in Slots \ {s} : x.clients[t] = w.clients[t]
    /\ x.clients[s] \in ClientRec
    /\ x.clients[s].fd = w.clients[s].fd /\ x.clients[s].service = w.clients[s].service
    /\ x.clients[s].con = w.clients[s].con

\* Nobody else changes with the queue of a client.
LEMMA SameKeeps ==
  ASSUME NEW w \in Worlds, NEW s \in Open(w), NEW x, Same(w, x, s)
  PROVE  Keeps(w, x) /\ s \in Open(x)
<1>1. s \in Slots /\ w.clients[s] \in ClientRec /\ w.clients[s].service /\ w.clients[s] # Nil
  BY OpenTypes, NotNil
<1>2. x.clients[s] # Nil /\ x.clients[s].service
  BY <1>1, NotNil DEF Same
<1>3. Open(x) = Open(w) /\ \A t \in Slots : (x.clients[t] # Nil) = (w.clients[t] # Nil)
  BY <1>1, <1>2 DEF Same, Open
<1>4. Alike(w, x)
  BY <1>1, <1>3 DEF Same, Alike
<1>5. QED
  BY <1>3, <1>4, AlikeLinked DEF Keeps, Same

\* The open clients after one was closed.
LEMMA CloseOpen ==
  ASSUME NEW w \in Worlds, NEW s \in Open(w)
  PROVE  /\ Open(CloseClient(w, s)) = Open(w) \ {s}
         /\ \A t \in Slots \ {s} : CloseClient(w, s).clients[t] = w.clients[t]
         /\ CloseClient(w, s).clients[s] = Closed(w.clients[s])
         /\ CloseClient(w, s).clients[s] \in ClientRec /\ CloseClient(w, s).clients[s] # Nil
         /\ CloseClient(w, s).clients[s].service = FALSE /\ CloseClient(w, s).clients[s].fd = 0
<1>1. s \in Slots /\ w.clients[s] \in ClientRec /\ w.clients \in [Slots -> ClientRec \union {Nil}]
  BY OpenTypes, WorldTypes
<1>2. CloseClient(w, s).clients = [w.clients EXCEPT ![s] = Closed(w.clients[s])]
  BY CloseTypes
<1>3. /\ Closed(w.clients[s]) \in ClientRec /\ Closed(w.clients[s]) # Nil
      /\ Closed(w.clients[s]).service = FALSE /\ Closed(w.clients[s]).fd = 0
  BY <1>1, ClosedTypes
<1>4. /\ CloseClient(w, s).clients[s] = Closed(w.clients[s])
      /\ \A t \in Slots \ {s} : CloseClient(w, s).clients[t] = w.clients[t]
  BY <1>1, <1>2
<1>5. QED
  BY <1>1, <1>3, <1>4 DEF Open

\* Closing a client leaves the others and the connector linked.
LEMMA CloseKeeps ==
  ASSUME NEW w \in Worlds, NEW s \in Open(w)
  PROVE  Keeps(w, CloseClient(w, s))
<1> DEFINE x == CloseClient(w, s)   fd == w.clients[s].fd
<1>1. /\ x \in Worlds /\ x.connections = w.connections - 1
      /\ x.con = IF w.clients[s].con THEN ConnectorLost(w.con) ELSE w.con
      /\ fd \in Fds => /\ x.files = [w.files EXCEPT ![fd] = Free]
                       /\ x.interest = [w.interest EXCEPT ![fd] = Null]
  BY CloseTypes
<1>2. /\ Open(x) = Open(w) \ {s} /\ \A t \in Slots \ {s} : x.clients[t] = w.clients[t]
      /\ x.clients[s] \in ClientRec /\ x.clients[s] # Nil
      /\ x.clients[s].service = FALSE /\ x.clients[s].fd = 0
  BY CloseOpen
<1>3. /\ s \in Slots /\ w.clients[s] \in ClientRec /\ w.clients[s] # Nil
      /\ w.clients[s].service /\ fd \in Fds \union {0}
      /\ w.files \in [Fds -> Conns \union {Free, Listen}] /\ w.interest \in [Fds -> Pointers]
      /\ w.con \in ConRec
  BY OpenTypes, WorldTypes, NotNil
<1>4. /\ s # Null /\ s # ListenSocket /\ s # DummyClient
      /\ Null # ListenSocket /\ Null # DummyClient /\ Null \notin Slots /\ Free # Listen
  BY <1>3, Constants DEF Null, ListenSocket, DummyClient
<1> HIDE DEF x
<1>5. ASSUME Linked(w)
      PROVE  Linked(x) /\ (w.con.connecting => x.con.connecting) /\ (Whole(w) => Whole(x))
  <2>1. fd \in Fds /\ (w.clients[s].con <=> w.con.connected /\ w.con.c = s)
    BY <1>3, <1>5 DEF Linked
  <2>2. /\ x.files = [w.files EXCEPT ![fd] = Free]
        /\ x.interest = [w.interest EXCEPT ![fd] = Null]
    BY <1>1, <2>1
  <2>3. /\ w.con.connecting => x.con = w.con
        /\ x.con.connecting => w.con.connecting
        /\ x.con.connected => w.con.connected /\ w.con.c # s /\ x.con = w.con
    BY <1>1, <1>3, <1>5, <2>1, LostTypes DEF Linked, Connector
  <2>4. ASSUME NEW f \in Fds
        PROVE  Reported(x, f)
    <3>1. CASE f = fd
      <4>1. x.interest[f] = Null
        BY <1>3, <2>2, <3>1
      <4>2. QED
        BY <1>4, <4>1 DEF Reported
    <3>2. CASE f # fd
      <4>1. x.interest[f] = w.interest[f] /\ Reported(w, f)
        BY <1>3, <1>5, <2>2, <3>2 DEF Linked
      <4>2. w.interest[f] # s
        BY <1>3, <3>2, <4>1 DEF Reported
      <4>3. w.interest[f] \in Slots => /\ w.interest[f] \in Open(x)
                                       /\ x.clients[w.interest[f]] = w.clients[w.interest[f]]
        BY <1>2, <4>1, <4>2 DEF Reported
      <4>4. w.interest[f] = DummyClient => x.con.connecting /\ x.con.fd = f
        BY <2>3, <4>1 DEF Reported
      <4>5. QED
        BY <4>1, <4>3, <4>4 DEF Reported
    <3>3. QED
      BY <3>1, <3>2
  <2>5. \A t \in Slots : x.clients[t] # Nil => x.clients[t].service = (x.clients[t].fd # 0)
    <3>1. x.clients[s].service = (x.clients[s].fd # 0)
      BY <1>2
    <3>2. \A t \in Slots \ {s} :
            x.clients[t] # Nil => x.clients[t].service = (x.clients[t].fd # 0)
      BY <1>2, <1>5 DEF Linked
    <3>3. QED
      BY <3>1, <3>2
  <2>6. ASSUME NEW t \in Open(x)
        PROVE  /\ t \in Open(w) \ {s} /\ x.clients[t] = w.clients[t]
               /\ x.clients[t].con <=> x.con.connected /\ x.con.c = t
    <3>1. t \in Open(w) /\ t # s /\ t \in Slots
          /\ (w.clients[t].con <=> w.con.connected /\ w.con.c = t)
      BY <1>2, <1>5 DEF Linked, Open
    <3>2. CASE w.clients[s].con
      BY <1>1, <1>2, <1>3, <2>1, <3>1, <3>2, LostTypes
    <3>3. CASE ~w.clients[s].con
      BY <1>1, <1>2, <3>1, <3>3
    <3>4. QED
      BY <1>2, <3>1, <3>2, <3>3
  <2>7. Connector(x)
    <3>1. x.con.connecting => ~x.con.connected /\ x.con.fd \in Fds
      BY <1>5, <2>3 DEF Linked, Connector
    <3>2. x.con.connected => x.con.c \in Open(x)
      BY <1>2, <1>5, <2>3 DEF Linked, Connector
    <3>3. /\ x.con.try_addr = w.con.try_addr /\ x.con.addr_info = w.con.addr_info
          /\ x.con.in_progress = w.con.in_progress /\ x.con.thread = w.con.thread
          /\ x.con.gai_error = w.con.gai_error
      BY <1>1, <1>3, LostTypes
    <3>4. QED
      BY <1>5, <3>1, <3>2, <3>3 DEF Linked, Connector
  <2>8. x.connections = Cardinality(Open(x))
    <3>1. IsFiniteSet(Open(w))
      BY Constants, FS_Subset DEF Open
    <3>2. Cardinality(Open(w) \ {s}) = Cardinality(Open(w)) - 1
      BY <3>1, FS_RemoveElement
    <3>3. QED
      BY <1>1, <1>2, <1>5, <3>2 DEF Linked
  <2>9. Linked(x)
    BY <2>4, <2>5, <2>6, <2>7, <2>8 DEF Linked
  <2>10. ASSUME Whole(w)
         PROVE  Whole(x)
    <3>1. w.files[fd] # Free /\ w.interest[fd] = s /\ fd # ListenFd
      BY <1>4, <2>10 DEF Whole
    <3>2. x.files[ListenFd] = Listen /\ x.interest[ListenFd] = ListenSocket
      BY <1>3, <2>2, <2>10, <3>1, Constants DEF Whole
    <3>3. \A f \in Fds \ {ListenFd} :
            /\ x.files[f] # Listen /\ x.interest[f] # ListenSocket
            /\ x.files[f] = Free <=> x.interest[f] = Null
      BY <1>3, <1>4, <2>2, <2>10 DEF Whole
    <3>4. ASSUME NEW t \in Open(x)
          PROVE  x.files[x.clients[t].fd] # Free /\ x.interest[x.clients[t].fd] = t
      <4>1. /\ x.clients[t] = w.clients[t] /\ t # s /\ w.interest[w.clients[t].fd] = t
            /\ w.files[w.clients[t].fd] # Free
        BY <2>6, <2>10 DEF Whole
      <4>2. w.clients[t].fd \in Fds /\ w.clients[t].fd # fd
        <5>1. /\ t \in Slots /\ w.clients[t].service /\ w.clients[t] # Nil
              /\ w.clients[t].fd \in Fds \union {0}
          BY <2>6, OpenTypes, NotNil
        <5>2. w.clients[t].fd # 0
          BY <1>5, <5>1 DEF Linked
        <5>3. QED
          BY <3>1, <4>1, <5>1, <5>2
      <4>3. QED
        BY <1>3, <2>2, <4>1, <4>2
    <3>5. x.con.connecting => x.files[x.con.fd] # Free /\ x.interest[x.con.fd] = DummyClient
      <4>1. ASSUME x.con.connecting
            PROVE  /\ x.con = w.con /\ w.con.fd \in Fds
                   /\ w.files[w.con.fd] # Free /\ w.interest[w.con.fd] = DummyClient
        BY <1>5, <2>3, <2>10, <4>1 DEF Linked, Connector, Whole
      <4>2. QED
        BY <1>3, <1>4, <2>2, <3>1, <4>1
    <3>6. QED
      BY <3>2, <3>3, <3>4, <3>5 DEF Whole
  <2>11. QED
    BY <2>3, <2>9, <2>10
<1>6. \A t \in Slots : w.clients[t] # Nil => x.clients[t] # Nil
  BY <1>2
<1>7. QED
  BY <1>1, <1>5, <1>6 DEF Keeps, x

-----------------------------------------------------------------------------
(* Sending.                                                                *)

\* What send() may answer.
LEMMA SendAnswers ==
  ASSUME NEW w \in Worlds, NEW s \in Open(w), NEW a \in SendResults(w, s)
  PROVE  /\ a.n = -1 \/ a.n \in 0..Len(w.clients[s].sendq)
         /\ a.room \in BOOLEAN
<1> DEFINE q == Len(w.clients[s].sendq)
<1>1. q \in Nat
  BY OpenTypes
<1>2. \/ a \in Sends(-1, {FALSE}) \/ a \in Sends(q, {TRUE}) \/ a \in Sends(0, {FALSE})
      \/ a \in Sends(q, BOOLEAN) \/ \E n \in 1..(q - 1) : a \in Sends(n, {FALSE})
  BY DEF SendResults
<1> HIDE DEF q
<1>3. ASSUME NEW n, NEW rooms \in SUBSET BOOLEAN, a \in Sends(n, rooms)
      PROVE  a.n = n /\ a.room \in BOOLEAN
  <2>1. PICK r \in rooms : a = [n |-> n, room |-> r]
    BY <1>3 DEF Sends
  <2>2. QED
    BY <2>1
<1>4. CASE a \in Sends(-1, {FALSE})
  <2>1. a.n = -1 /\ a.room \in BOOLEAN
    BY <1>3, <1>4
  <2>2. QED
    BY <2>1
<1>5. CASE a \in Sends(q, {TRUE}) \/ a \in Sends(q, BOOLEAN)
  <2>1. a.n = q /\ a.room \in BOOLEAN
    BY <1>3, <1>5
  <2>2. QED
    BY <1>1, <2>1 DEF q
<1>6. CASE a \in Sends(0, {FALSE})
  <2>1. a.n = 0 /\ a.room \in BOOLEAN
    BY <1>3, <1>6
  <2>2. QED
    BY <1>1, <2>1 DEF q
<1>7. CASE \E n \in 1..(q - 1) : a \in Sends(n, {FALSE})
  <2>1. PICK n \in 1..(q - 1) : a \in Sends(n, {FALSE})
    BY <1>7
  <2>2. a.n = n /\ a.room \in BOOLEAN
    BY <1>3, <2>1
  <2>3. QED
    BY <1>1, <2>2 DEF q
<1>8. QED
  BY <1>2, <1>4, <1>5, <1>6, <1>7

\* A sequence is its first n elements and the others.
LEMMA Cut ==
  ASSUME NEW q \in Seq(Nat), NEW n \in 0..Len(q)
  PROVE  /\ SubSeq(q, 1, n) \in Seq(Nat) /\ SubSeq(q, n + 1, Len(q)) \in Seq(Nat)
         /\ q = SubSeq(q, 1, n) \o SubSeq(q, n + 1, Len(q))
<1> DEFINE p == SubSeq(q, 1, n)   r == SubSeq(q, n + 1, Len(q))
<1>1. p \in Seq(Nat) /\ r \in Seq(Nat)
  OBVIOUS
<1>2. /\ Len(p) = n /\ Len(r) = Len(q) - n
      /\ (\A i \in 1..n : p[i] = q[i]) /\ \A j \in 1..(Len(q) - n) : r[j] = q[n + j]
  OBVIOUS
<1> DEFINE l == Len(q)   pr == p \o r
<1>3. l \in Nat /\ n \in 0..l /\ \A i \in (n + 1)..l : r[i - n] = q[i]
  BY <1>2
<1> HIDE DEF p, r
<1>4. pr \in Seq(Nat) /\ Len(pr) = l
      /\ \A i \in 1..l : pr[i] = IF i <= n THEN p[i] ELSE r[i - n]
  BY <1>1, <1>2, <1>3
<1> HIDE DEF pr
<1>5. \A i \in 1..l : pr[i] = q[i]
  <2>1. \A i \in 1..n : p[i] = q[i]
    BY <1>2
  <2> HIDE DEF l
  <2>2. TAKE i \in 1..l
  <2>3. CASE i <= n
    BY <1>3, <1>4, <2>1, <2>3
  <2>4. CASE ~(i <= n)
    BY <1>3, <1>4, <2>4
  <2>5. QED
    BY <2>3, <2>4
<1>6. q = pr
  <2>1. \A i \in 1..Len(q) : q[i] = pr[i]
    BY <1>5
  <2>2. Len(q) = Len(pr)
    BY <1>4
  <2>3. QED
    BY <1>4, <2>1, <2>2, SeqEqual
<1>7. QED
  BY <1>1, <1>6 DEF p, r, pr

\* Concatenation.
LEMMA Concat ==
  ASSUME NEW a \in Seq(Nat), NEW b \in Seq(Nat), NEW d \in Seq(Nat)
  PROVE  a \o b \in Seq(Nat) /\ (a \o b) \o d = a \o (b \o d)
OBVIOUS

\* a client some of whose queue was sent
SentClient(cl, n) ==
    [cl EXCEPT !.sendq = SubSeq(cl.sendq, n + 1, Len(cl.sendq)),
               !.sent  = cl.sent \o Numbered(SubSeq(cl.sendq, 1, n)),
               !.out   = n < Len(cl.sendq)]

\* Its stream is the same.
LEMMA SentClientTypes ==
  ASSUME NEW cl \in ClientRec, NEW n \in 0..Len(cl.sendq)
  PROVE  /\ SentClient(cl, n) \in ClientRec
         /\ SentClient(cl, n).fd = cl.fd /\ SentClient(cl, n).service = cl.service
         /\ SentClient(cl, n).con = cl.con /\ SentClient(cl, n).from = cl.from
         /\ Stream(SentClient(cl, n)) = Stream(cl)
<1> DEFINE q == cl.sendq   p == SubSeq(q, 1, n)   r == SubSeq(q, n + 1, Len(q))
           st == cl.sent
<1>1. q \in Seq(Nat) /\ st \in Seq(Nat) /\ n \in Nat /\ Len(q) \in Nat
  BY DEF ClientRec
<1>2. p \in Seq(Nat) /\ r \in Seq(Nat) /\ q = p \o r
  BY <1>1, Cut
<1>3. /\ SentClient(cl, n) \in ClientRec
      /\ SentClient(cl, n).fd = cl.fd /\ SentClient(cl, n).service = cl.service
      /\ SentClient(cl, n).con = cl.con /\ SentClient(cl, n).from = cl.from
      /\ SentClient(cl, n).sendq = r /\ SentClient(cl, n).sent = st \o Numbered(p)
  <2>1. st \o Numbered(p) \in Seq(Nat)
    BY <1>1, <1>2, NumberedType, Concat
  <2>2. (n < Len(q)) \in BOOLEAN
    OBVIOUS
  <2>3. r \in Seq(Nat)
    BY <1>2
  <2> DEFINE o == n < Len(q)   t == st \o Numbered(p)
  <2>4. SentClient(cl, n) = [cl EXCEPT !.sendq = r, !.sent = t, !.out = o]
    BY DEF SentClient
  <2> HIDE DEF r, o, t
  <2>5. QED
    BY <2>1, <2>2, <2>3, <2>4 DEF ClientRec, o, t
<1>4. (st \o Numbered(p)) \o Numbered(r) = st \o Numbered(q)
  <2>1. Numbered(q) = Numbered(p) \o Numbered(r)
    BY <1>2, NumberedConcat
  <2>2. Numbered(p) \in Seq(Nat) /\ Numbered(r) \in Seq(Nat)
    BY <1>2, NumberedType
  <2>3. (st \o Numbered(p)) \o Numbered(r) = st \o (Numbered(p) \o Numbered(r))
    BY <1>1, <2>2, Concat
  <2>4. QED
    BY <2>1, <2>3
<1>5. QED
  BY <1>3, <1>4 DEF Stream

\* What a send() changes: the queue of its client.
LEMMA SentSame ==
  ASSUME NEW w \in Worlds, NEW s \in Open(w), NEW a, a.room \in BOOLEAN,
         a.n \in 0..Len(w.clients[s].sendq)
  PROVE  /\ Same(w, Sent(w, s, a), s)
         /\ Sent(w, s, a).clients[s] = SentClient(w.clients[s], a.n)
<1> DEFINE cl == SentClient(w.clients[s], a.n)   k == w.files[w.clients[s].fd]   v == a.room
           e == w.room  b == w.clients  d == w.connections  h == w.con
           x == w.files y == w.interest z == w.status
           cs == [b EXCEPT ![s] = cl]   rs == [e EXCEPT ![k] = v]
<1>1. /\ cl \in ClientRec
      /\ cl.fd = w.clients[s].fd /\ cl.service = w.clients[s].service
      /\ cl.con = w.clients[s].con
  <2>1. w.clients[s] \in ClientRec
    BY OpenTypes
  <2>2. QED
    BY <2>1, SentClientTypes
<1>2. w = [files |-> x, interest |-> y, status |-> z, room |-> e, clients |-> b,
           connections |-> d, con |-> h]
  BY WorldTypes
<1>3. Sent(w, s, a) = [w EXCEPT !.clients[s] = cl, !.room[k] = v]
  BY DEF Sent, SentClient
<1>4. s \in Slots /\ cs \in [Slots -> ClientRec \union {Nil}] /\ rs \in [Conns -> BOOLEAN]
  BY <1>1, OpenTypes, WorldTypes
<1>5. cs[s] = cl /\ \A t \in Slots \ {s} : cs[t] = w.clients[t]
  BY <1>4, WorldTypes
<1> HIDE DEF cl, k, v, x, y, z, e, b, d, h
<1>6. Sent(w, s, a) = [files |-> x, interest |-> y, status |-> z, room |-> rs, clients |-> cs,
                       connections |-> d, con |-> h]
  BY <1>2, <1>3
<1> HIDE DEF cs, rs
<1>7. Sent(w, s, a) \in Worlds
  BY <1>4, <1>6, WorldTypes DEF Worlds, x, y, z, d, h
<1>8. /\ Sent(w, s, a).files = x /\ Sent(w, s, a).interest = y /\ Sent(w, s, a).connections = d
      /\ Sent(w, s, a).con = h /\ Sent(w, s, a).clients = cs
  BY <1>6
<1>9. QED
  BY <1>1, <1>5, <1>7, <1>8 DEF Same, x, y, d, h, cl

\* What a client is fed with a queue in place of the one it has.
LEMMA QueueSame ==
  ASSUME NEW w \in Worlds, NEW s \in Open(w), NEW q \in Seq(Nat)
  PROVE  /\ Same(w, [w EXCEPT !.clients[s].sendq = q], s)
         /\ [w EXCEPT !.clients[s].sendq = q].clients[s] = [w.clients[s] EXCEPT !.sendq = q]
<1> DEFINE cl == [w.clients[s] EXCEPT !.sendq = q]
           e == w.room  b == w.clients  d == w.connections  h == w.con
           x == w.files y == w.interest z == w.status
           cs == [b EXCEPT ![s] = cl]
           u == [w EXCEPT !.clients[s].sendq = q]
<1>1. /\ cl \in ClientRec
      /\ cl.fd = w.clients[s].fd /\ cl.service = w.clients[s].service
      /\ cl.con = w.clients[s].con
  <2>1. w.clients[s] \in ClientRec
    BY OpenTypes
  <2>2. QED
    BY <2>1 DEF ClientRec
<1>2. w = [files |-> x, interest |-> y, status |-> z, room |-> e, clients |-> b,
           connections |-> d, con |-> h]
  BY WorldTypes
<1>4. s \in Slots /\ cs \in [Slots -> ClientRec \union {Nil}]
  BY <1>1, OpenTypes, WorldTypes
<1>5. cs[s] = cl /\ \A t \in Slots \ {s} : cs[t] = w.clients[t]
  BY <1>4, WorldTypes
<1>3. u = [w EXCEPT !.clients[s] = cl]
  BY <1>4, WorldTypes
<1> HIDE DEF u, cl, x, y, z, e, b, d, h
<1>6. u = [files |-> x, interest |-> y, status |-> z, room |-> e, clients |-> cs,
           connections |-> d, con |-> h]
  BY <1>2, <1>3
<1> HIDE DEF cs
<1>7. u \in Worlds
  BY <1>4, <1>6, WorldTypes DEF Worlds, x, y, z, e, d, h
<1>8. u.files = x /\ u.interest = y /\ u.connections = d /\ u.con = h /\ u.clients = cs
  BY <1>6
<1>9. Same(w, u, s) /\ u.clients[s] = cl
  BY <1>1, <1>5, <1>7, <1>8 DEF Same, x, y, d, h
<1>10. QED
  BY <1>9, Zenon DEF u, cl

\* flushClient sends a part of the queue, or closes the client.
LEMMA FlushFed ==
  ASSUME NEW w \in Worlds, NEW s \in Open(w), NEW x \in Flush(w, s)
  PROVE  Fed(w, x, s, Stream(w.clients[s]), w.clients[s].from)
<1> DEFINE cl == w.clients[s]
<1>1. s \in Slots /\ cl \in ClientRec /\ cl.sendq \in Seq(Nat)
  BY OpenTypes
<1>2. CASE cl.sendq = <<>>
  <2>1. x = w
    BY <1>2 DEF Flush
  <2>2. QED
    BY <1>1, <2>1 DEF Fed, Keeps
<1>3. CASE x = CloseClient(w, s)
  BY <1>3, CloseKeeps, CloseOpen DEF Fed
<1>4. ASSUME NEW a \in SendResults(w, s), a.n # -1, x = Sent(w, s, a)
      PROVE  Fed(w, x, s, Stream(cl), cl.from)
  <2>1. a.n \in 0..Len(cl.sendq) /\ a.room \in BOOLEAN
    BY <1>4, SendAnswers
  <2>2. Same(w, x, s) /\ x.clients[s] = SentClient(cl, a.n)
    BY <1>4, <2>1, SentSame
  <2>3. Stream(x.clients[s]) = Stream(cl) /\ x.clients[s].from = cl.from
    BY <1>1, <2>1, <2>2, SentClientTypes
  <2>4. Keeps(w, x)
    BY <2>2, SameKeeps
  <2>5. QED
    BY <2>2, <2>3, <2>4 DEF Fed, Same
<1>5. cl.sendq = <<>> \/ x = CloseClient(w, s)
      \/ \E a \in SendResults(w, s) : a.n # -1 /\ x = Sent(w, s, a)
  BY DEF Flush
<1>6. QED
  BY <1>2, <1>3, <1>4, <1>5

\* Appending to the queue of a client, then flushing it.
LEMMA QueueFed ==
  ASSUME NEW w \in Worlds, NEW s \in Open(w), NEW q \in Seq(Nat),
         NEW x \in Flush([w EXCEPT !.clients[s].sendq = q], s)
  PROVE  Fed(w, x, s, w.clients[s].sent \o Numbered(q), w.clients[s].from)
<1> DEFINE v == [w EXCEPT !.clients[s].sendq = q]   cl == w.clients[s]
<1>1. Same(w, v, s) /\ v.clients[s] = [cl EXCEPT !.sendq = q]
  BY QueueSame
<1>2. Keeps(w, v) /\ s \in Open(v) /\ v \in Worlds
  BY <1>1, SameKeeps DEF Same
<1> HIDE DEF v
<1>3. Fed(v, x, s, Stream(v.clients[s]), v.clients[s].from)
  BY <1>2, FlushFed DEF v
<1>4. cl \in ClientRec
  BY OpenTypes
<1>5. Stream(v.clients[s]) = cl.sent \o Numbered(q) /\ v.clients[s].from = cl.from
  BY <1>1, <1>4 DEF Stream, ClientRec
<1>6. Keeps(w, x)
  BY <1>2, <1>3, KeepsTrans DEF Fed
<1>7. \A t \in Slots \ {s} : x.clients[t] = w.clients[t]
  BY <1>1, <1>3 DEF Fed, Same
<1>8. QED
  BY <1>3, <1>5, <1>6, <1>7 DEF Fed

\* x is w but that client s was given everything up to unit n, or was closed.
Given(w, x, s, n) ==
    /\ Keeps(w, x)
    /\ \A t \in Slots \ {s} : x.clients[t] = w.clients[t]
    /\ x.clients[s] \in ClientRec
    /\ x.clients[s].service => InStream(x.clients[s], n)

\* A range of units and the next one.
LEMMA RangeConcat ==
  ASSUME NEW f \in Nat, NEW m \in Nat, NEW n \in Nat, f <= m, m <= n
  PROVE  [i \in 1..(m - f) |-> f + i] \o [i \in 1..(n - m) |-> m + i] = [i \in 1..(n - f) |-> f + i]
<1> DEFINE a == [i \in 1..(m - f) |-> f + i]   b == [i \in 1..(n - m) |-> m + i]
           d == [i \in 1..(n - f) |-> f + i]   ab == a \o b
<1>1. /\ a \in Seq(Nat) /\ b \in Seq(Nat) /\ d \in Seq(Nat)
      /\ Len(a) = m - f /\ Len(b) = n - m /\ Len(d) = n - f
  OBVIOUS
<1>2. /\ \A i \in 1..(m - f) : a[i] = f + i
      /\ \A i \in 1..(n - m) : b[i] = m + i
      /\ \A i \in 1..(n - f) : d[i] = f + i
  OBVIOUS
<1> DEFINE la == m - f   lb == n - m
<1>3. ab \in Seq(Nat) /\ Len(ab) = n - f
      /\ \A i \in 1..(n - f) : ab[i] = IF i <= m - f THEN a[i] ELSE b[i - (m - f)]
  <2>1. la \in Nat /\ lb \in Nat /\ la + lb = n - f
    OBVIOUS
  <2> HIDE DEF a, b, d, la, lb
  <2>2. ab \in Seq(Nat) /\ Len(ab) = la + lb
        /\ \A i \in 1..(la + lb) : ab[i] = IF i <= la THEN a[i] ELSE b[i - la]
    <3>1. Len(a) = la /\ Len(b) = lb
      BY <1>1 DEF la, lb
    <3>2. /\ ab \in Seq(Nat) /\ Len(ab) = Len(a) + Len(b)
          /\ \A i \in 1..(Len(a) + Len(b)) : ab[i] = IF i <= Len(a) THEN a[i] ELSE b[i - Len(a)]
      BY <1>1, ConcatProperties
    <3> HIDE DEF ab
    <3>3. QED
      BY <3>1, <3>2
  <2>3. QED
    BY <2>1, <2>2 DEF la
<1> HIDE DEF a, b, d
<1> HIDE DEF ab
<1>4. \A i \in 1..(n - f) : ab[i] = d[i]
  <2>1. TAKE i \in 1..(n - f)
  <2>2. CASE i <= m - f
    BY <1>2, <1>3, <2>2
  <2>3. CASE ~(i <= m - f)
    BY <1>2, <1>3, <2>3
  <2>4. QED
    BY <2>2, <2>3
<1>5. ab = d
  BY <1>1, <1>3, <1>4, SeqEqual
<1>6. QED
  BY <1>5 DEF ab, a, b, d

\* A client that has everything flushed so far has all that is output, once it is given
\* what the writer holds.
LEMMA Caught ==
  ASSUME NEW wr, Buffered(wr), NEW cl \in ClientRec, InStream(cl, FlushedUpto(wr)),
         NEW x \in ClientRec, x.from = cl.from,
         Stream(x) = cl.sent \o Numbered(cl.sendq \o wr.data)
  PROVE  InStream(x, wr.units)
<1> DEFINE n == wr.units   m == FlushedUpto(wr)   l == Len(Numbered(wr.data))   f == cl.from
           nw == Numbered(wr.data)   nq == Numbered(cl.sendq)   st == cl.sent
<1>1. /\ n \in Nat /\ l \in Nat /\ m = n - l /\ l <= n /\ f \in 0..m
      /\ nw = [i \in 1..l |-> n - l + i]
      /\ st \o nq = [i \in 1..(m - f) |-> f + i]
  BY NumberedType DEF Buffered, FlushedUpto, InStream, Stream
<1>2. /\ st \in Seq(Nat) /\ cl.sendq \in Seq(Nat) /\ wr.data \in Seq(Nat)
      /\ nq \in Seq(Nat) /\ nw \in Seq(Nat)
  BY NumberedType DEF ClientRec, Buffered
<1>3. Numbered(cl.sendq \o wr.data) = nq \o nw
  BY <1>2, NumberedConcat
<1>5. (st \o nq) \o nw = st \o (nq \o nw)
  <2> HIDE DEF nw, nq, st
  <2>1. QED
    BY <1>2
<1> HIDE DEF n, m, l, f, nw, nq, st
<1>4. Stream(x) = st \o (nq \o nw)
  BY <1>3 DEF st
<1>6. m \in Nat /\ f \in Nat /\ f <= m /\ m <= n /\ n - m = l /\ n - l = m
  BY <1>1
<1>7. [i \in 1..(m - f) |-> f + i] \o [i \in 1..(n - m) |-> m + i] = [i \in 1..(n - f) |-> f + i]
  BY <1>1, <1>6, RangeConcat
<1>8. Stream(x) = [i \in 1..(n - f) |-> f + i]
  BY <1>1, <1>4, <1>5, <1>6, <1>7
<1>9. f \in 0..n
  BY <1>1, <1>6
<1>10. QED
  BY <1>8, <1>9 DEF InStream, n, f

\* The body of the loop in flushWrites: the client is given the writer's data, or its queue is
\* discarded and it begins anew, or it is closed.
LEMMA WriteToGiven ==
  ASSUME NEW w \in Worlds, NEW s \in Open(w), NEW wr, Buffered(wr),
         InStream(w.clients[s], FlushedUpto(wr)), NEW x \in WriteTo(w, s, wr)
  PROVE  Given(w, x, s, wr.units)
<1> DEFINE cl == w.clients[s]   n == wr.units
<1>1. s \in Slots /\ cl \in ClientRec /\ cl.sendq \in Seq(Nat) /\ wr.data \in Seq(Nat) /\ n \in Nat
  BY OpenTypes DEF Buffered
<1>2. CASE x = CloseClient(w, s)
  BY <1>2, CloseKeeps, CloseOpen DEF Given
<1>3. CASE x \in Flush([w EXCEPT !.clients[s].sendq = @ \o wr.data], s)
  <2> DEFINE q == cl.sendq \o wr.data
  <2>1. q \in Seq(Nat)
    BY <1>1, Concat
  <2>2. x \in Flush([w EXCEPT !.clients[s].sendq = q], s)
    BY <1>3
  <2> HIDE DEF q
  <2>3. Fed(w, x, s, cl.sent \o Numbered(q), cl.from)
    BY <2>1, <2>2, QueueFed
  <2>4. ASSUME x.clients[s].service
        PROVE  InStream(x.clients[s], n)
    BY <1>1, <2>3, <2>4, Caught DEF Fed, q
  <2>5. QED
    BY <2>3, <2>4 DEF Fed, Given
<1>4. CASE x = [w EXCEPT !.clients[s] = [@ EXCEPT !.sendq = <<>>, !.sent = <<>>, !.from = wr.units]]
  <2> DEFINE nw == [cl EXCEPT !.sendq = <<>>, !.sent = <<>>, !.from = n]
             e == w.room  b == w.clients  d == w.connections  h == w.con
             u == w.files y == w.interest z == w.status
             cs == [b EXCEPT ![s] = nw]
  <2>1. <<>> \in Seq(Nat)
    OBVIOUS
  <2>2. /\ nw \in ClientRec /\ nw.fd = cl.fd /\ nw.service = cl.service /\ nw.con = cl.con
        /\ nw.from = n /\ nw.sent = <<>> /\ nw.sendq = <<>>
    BY <1>1, <2>1 DEF ClientRec
  <2>3. InStream(nw, n)
    <3>1. Stream(nw) = <<>>
      BY <2>2, NumberedEmpty DEF Stream
    <3>2. n - n = 0 /\ n \in 0..n /\ [i \in 1..0 |-> n + i] = <<>>
      BY <1>1
    <3>3. QED
      BY <2>2, <3>1, <3>2 DEF InStream
  <2>4. w = [files |-> u, interest |-> y, status |-> z, room |-> e, clients |-> b,
             connections |-> d, con |-> h]
    BY WorldTypes
  <2>5. x = [w EXCEPT !.clients[s] = nw]
    BY <1>1, <1>4, WorldTypes
  <2>6. cs \in [Slots -> ClientRec \union {Nil}] /\ cs[s] = nw
        /\ \A t \in Slots \ {s} : cs[t] = w.clients[t]
    BY <1>1, <2>2, WorldTypes
  <2> HIDE DEF nw, u, y, z, e, b, d, h
  <2>7. x = [files |-> u, interest |-> y, status |-> z, room |-> e, clients |-> cs,
             connections |-> d, con |-> h]
    BY <2>4, <2>5
  <2> HIDE DEF cs
  <2>8. x \in Worlds
    BY <2>6, <2>7, WorldTypes DEF Worlds, u, y, z, e, d, h
  <2>9. x.files = u /\ x.interest = y /\ x.connections = d /\ x.con = h /\ x.clients = cs
    BY <2>7
  <2>10. Same(w, x, s)
    BY <2>2, <2>6, <2>8, <2>9 DEF Same, u, y, d, h
  <2>11. QED
    BY <2>3, <2>6, <2>9, <2>10, SameKeeps DEF Same, Given
<1>5. QED
  BY <1>2, <1>3, <1>4 DEF WriteTo

-----------------------------------------------------------------------------
(* Writing.                                                                *)

\* the element that FoldSet takes first
Item(s) == CHOOSE x \in s : TRUE

\* what flushWrites leads to for one client more
Next1(ws, s, wr) == UNION {WriteTo(x, s, wr) : x \in ws}

\* the recursive equation of FoldSet for flushWrites
IsFold(w, wr, S, g) ==
    g = [s \in SUBSET S |-> IF s = {} THEN {w} ELSE Next1(g[s \ {Item(s)}], Item(s), wr)]

\* It has a solution: one for the subsets of up to n elements gives one for those of n + 1.
LEMMA FoldExists ==
  ASSUME NEW w, NEW wr, NEW S, IsFiniteSet(S)
  PROVE  \E g : IsFold(w, wr, S, g)
<1> DEFINE Val(g, s) == IF s = {} THEN {w} ELSE Next1(g[s \ {Item(s)}], Item(s), wr)
           Small(n) == {s \in SUBSET S : Cardinality(s) <= n}
           Have == {n \in Nat : \E g : g = [s \in Small(n) |-> Val(g, s)]}
<1>1. \A s \in SUBSET S : IsFiniteSet(s) /\ Cardinality(s) \in Nat
  BY FS_Subset, FS_CardinalityType
<1>2. \A s \in SUBSET S : s # {} => Item(s) \in s
  BY DEF Item
<1>3. 0 \in Have
  <2>1. \A s \in Small(0) : s = {}
    BY <1>1, FS_EmptySet
  <2>2. [s \in Small(0) |-> {w}] = [s \in Small(0) |-> Val([t \in Small(0) |-> {w}], s)]
    BY <2>1
  <2>3. QED
    BY <2>2
<1>4. ASSUME NEW n \in Nat, n \in Have
      PROVE  n + 1 \in Have
  <2>1. PICK g : g = [s \in Small(n) |-> Val(g, s)]
    BY <1>4
  <2> DEFINE h == [s \in Small(n + 1) |-> Val(g, s)]
  <2>2. \A s \in Small(n) : h[s] = g[s]
    <3>1. Small(n) \subseteq Small(n + 1)
      BY <1>1
    <3>2. QED
      BY <2>1, <3>1
  <2>3. \A s \in Small(n + 1) : s # {} => s \ {Item(s)} \in Small(n)
    <3> SUFFICES ASSUME NEW s \in Small(n + 1), s # {}
                 PROVE  s \ {Item(s)} \in Small(n)
      OBVIOUS
    <3>1. Item(s) \in s
      BY <1>2
    <3>2. Cardinality(s \ {Item(s)}) = Cardinality(s) - 1
      BY <1>1, <3>1, FS_RemoveElement
    <3>3. QED
      BY <1>1, <3>2
  <2>4. ASSUME NEW s \in Small(n + 1)
        PROVE  Val(h, s) = Val(g, s)
    <3>1. s # {} => h[s \ {Item(s)}] = g[s \ {Item(s)}]
      BY <2>2, <2>3
    <3> HIDE DEF h
    <3>2. QED
      BY <3>1
  <2>5. h = [s \in Small(n + 1) |-> Val(h, s)]
    BY <2>4
  <2> HIDE DEF h, Small, Val
  <2>6. QED
    BY <2>5
<1>5. Nat \subseteq Have
  <2> HIDE DEF Have
  <2>1. QED
    BY <1>3, <1>4, NatSetInduction
<1>6. Cardinality(S) \in Have
  BY <1>1, <1>5
<1>7. Small(Cardinality(S)) = SUBSET S
  BY <1>1, FS_Subset
<1>8. PICK g : g = [s \in Small(Cardinality(S)) |-> Val(g, s)]
  BY <1>6
<1>9. QED
  BY <1>7, <1>8 DEF IsFold

\* flushWrites is that solution at the set of the open clients.
LEMMA WritesFold ==
  ASSUME NEW w, NEW wr
  PROVE  \E g : IsFold(w, wr, Open(w), g) /\ FlushWrites(w, wr) = g[Open(w)]
<1>1. IsFiniteSet(Open(w))
  BY Constants, FS_Subset DEF Open
<1>5. \E g : IsFold(w, wr, Open(w), g)
  BY <1>1, FoldExists
<1>2. \E g : g = [s \in SUBSET Open(w) |-> IF s = {} THEN {w}
                    ELSE UNION {WriteTo(x, Item(s), wr) : x \in g[s \ {Item(s)}]}]
  BY <1>5 DEF IsFold, Next1
<1>3. \E g : /\ g = [s \in SUBSET Open(w) |-> IF s = {} THEN {w}
                    ELSE UNION {WriteTo(x, Item(s), wr) : x \in g[s \ {Item(s)}]}]
             /\ FlushWrites(w, wr) = g[Open(w)]
  BY <1>2 DEF FlushWrites, FoldSet, MapThenFoldSet, Item
<1>4. QED
  BY <1>3 DEF IsFold, Next1

\* x is w but that the clients of T were given everything up to unit n, or were closed.
GivenAll(w, x, T, n) ==
    /\ Keeps(w, x)
    /\ \A t \in Slots \ T : x.clients[t] = w.clients[t]
    /\ \A t \in T : x.clients[t].service => InStream(x.clients[t], n)

\* flushWrites gives every client what the writer holds.
LEMMA WritesGiven ==
  ASSUME NEW w \in Worlds, NEW wr, Buffered(wr), Streams(w, FlushedUpto(wr)),
         NEW x \in FlushWrites(w, wr)
  PROVE  GivenAll(w, x, Open(w), wr.units)
<1> DEFINE S == Open(w)   n == wr.units
<1>1. IsFiniteSet(S) /\ S \subseteq Slots
  BY Constants, FS_Subset DEF Open
<1>2. PICK g : IsFold(w, wr, S, g) /\ FlushWrites(w, wr) = g[S]
  BY WritesFold
<1> DEFINE T == {s \in SUBSET S : \A y \in g[s] : GivenAll(w, y, s, n)}
<1>3. ASSUME NEW s \in SUBSET S, \A t \in SUBSET S : t \subseteq s /\ t # s => t \in T
      PROVE  s \in T
  <2>1. CASE s = {}
    <3>1. g[s] = {w}
      BY <1>2, <2>1 DEF IsFold
    <3>2. GivenAll(w, w, s, n)
      BY <2>1 DEF GivenAll, Keeps
    <3>3. QED
      BY <3>1, <3>2
  <2>2. CASE s # {}
    <3> DEFINE e == Item(s)   r == s \ {e}
    <3>1. e \in s /\ e \in Open(w) /\ r \in T
      <4>1. e \in s
        BY <2>2 DEF Item
      <4>2. QED
        BY <1>3, <4>1
    <3>2. g[s] = Next1(g[r], e, wr)
      BY <1>2, <2>2 DEF IsFold
    <3>3. ASSUME NEW y \in g[s]
          PROVE  GivenAll(w, y, s, n)
      <4>1. PICK z \in g[r] : y \in WriteTo(z, e, wr)
        BY <3>2, <3>3 DEF Next1
      <4>2. GivenAll(w, z, r, n)
        BY <3>1, <4>1
      <4>3. z \in Worlds /\ z.clients[e] = w.clients[e] /\ e \in Open(z)
        BY <1>1, <3>1, <4>2 DEF GivenAll, Keeps, Open
      <4>4. InStream(z.clients[e], FlushedUpto(wr))
        BY <3>1, <4>3 DEF Streams
      <4>5. Given(z, y, e, n)
        BY <4>1, <4>3, <4>4, WriteToGiven
      <4>6. Keeps(w, y)
        BY <4>2, <4>5, KeepsTrans DEF GivenAll, Given
      <4>7. \A t \in Slots \ s : y.clients[t] = w.clients[t]
        BY <3>1, <4>2, <4>5 DEF GivenAll, Given
      <4>8. \A t \in s : y.clients[t].service => InStream(y.clients[t], n)
        <5> SUFFICES ASSUME NEW t \in s, y.clients[t].service
                     PROVE  InStream(y.clients[t], n)
          OBVIOUS
        <5>1. CASE t = e
          BY <4>5, <5>1 DEF Given
        <5>2. CASE t # e
          <6>1. y.clients[t] = z.clients[t]
            BY <1>1, <4>5, <5>2 DEF Given
          <6>2. QED
            BY <4>2, <5>2, <6>1 DEF GivenAll
        <5>3. QED
          BY <5>1, <5>2
      <4>9. QED
        BY <4>6, <4>7, <4>8 DEF GivenAll
    <3>4. QED
      BY <3>3
  <2>3. QED
    BY <2>1, <2>2
<1>4. SUBSET S \subseteq T
  <2> HIDE DEF T, S
  <2>1. QED
    BY <1>1, <1>3, SubsetInduction
<1>5. S \in T
  BY <1>4
<1>6. QED
  BY <1>2, <1>5

\* After that the clients that are open have everything.
LEMMA WritesStreams ==
  ASSUME NEW w \in Worlds, NEW wr, Buffered(wr), Streams(w, FlushedUpto(wr)),
         NEW x \in FlushWrites(w, wr)
  PROVE  Keeps(w, x) /\ x \in Worlds /\ Streams(x, wr.units)
<1>1. GivenAll(w, x, Open(w), wr.units)
  BY WritesGiven
<1>2. Open(x) \subseteq Open(w)
  BY <1>1 DEF GivenAll, Open
<1>3. Streams(x, wr.units)
  BY <1>1, <1>2 DEF Streams, GivenAll, Open
<1>4. QED
  BY <1>1, <1>3 DEF GivenAll, Keeps

\* An empty writer; one that was flushed.
LEMMA FlushedWriter ==
  ASSUME NEW wr, Buffered(wr)
  PROVE  Buffered(Flushed(wr)) /\ FlushedUpto(Flushed(wr)) = wr.units
<1> DEFINE n == wr.units   d == wr.data
<1>1. n \in Nat /\ Len(<<>>) = 0 /\ <<>> \in Seq(Nat) /\ [i \in 1..0 |-> n - 0 + i] = <<>>
  BY DEF Buffered
<1>2. Flushed(wr).data = <<>> /\ Flushed(wr).units = n
  BY DEF Flushed
<1>3. QED
  <2> DEFINE f == Flushed(wr)
  <2>1. f.data = <<>> /\ f.units = n /\ f \in [data : Seq(Nat), units : Nat]
    BY <1>1, <1>2 DEF Buffered, Flushed
  <2> HIDE DEF f
  <2>2. Numbered(f.data) = <<>> /\ Len(Numbered(f.data)) = 0
    BY <1>1, <2>1, NumberedEmpty
  <2>3. 0 <= n /\ n - 0 = n
    BY <1>1
  <2>4. Buffered(f)
    BY <1>1, <2>1, <2>2, <2>3 DEF Buffered
  <2>5. FlushedUpto(f) = n
    BY <2>1, <2>2, <2>3 DEF FlushedUpto
  <2>6. QED
    BY <2>4, <2>5 DEF f

\* The length of a range.
LEMMA RangeLen ==
  ASSUME NEW k \in Nat, NEW n \in Nat
  PROVE  Len([i \in 1..n |-> k + i]) = n /\ [i \in 1..n |-> k + i] \in Seq(Nat)
OBVIOUS

\* The writer when more is output, nothing having been flushed, ...
LEMMA BufferedMore ==
  ASSUME NEW wr, Buffered(wr), NEW units \in Seq(Nat), NEW count \in Nat,
         Numbered(units) = [i \in 1..count |-> wr.units + i]
  PROVE  /\ Buffered([data |-> wr.data \o units, units |-> wr.units + count])
         /\ FlushedUpto([data |-> wr.data \o units, units |-> wr.units + count]) = FlushedUpto(wr)
<1> DEFINE n == wr.units   d == wr.data \o units   l == Len(Numbered(wr.data))
           m == n + count   k == n - l   p == l + count
           full == [data |-> d, units |-> m]
<1>1. /\ n \in Nat /\ wr.data \in Seq(Nat) /\ l \in Nat /\ l <= n /\ d \in Seq(Nat)
      /\ Numbered(wr.data) = [i \in 1..l |-> n - l + i]
      /\ Numbered(units) = [i \in 1..count |-> n + i]
      /\ Numbered(d) = Numbered(wr.data) \o Numbered(units)
  <2>1. wr.data \in Seq(Nat) /\ n \in Nat
    BY DEF Buffered
  <2>2. Numbered(wr.data) \in Seq(Nat) /\ l \in Nat
    BY <2>1, NumberedType
  <2>3. d \in Seq(Nat)
    BY <2>1
  <2>4. Numbered(d) = Numbered(wr.data) \o Numbered(units)
    BY <2>1, NumberedConcat
  <2>5. l <= n /\ Numbered(wr.data) = [i \in 1..l |-> n - l + i]
    BY DEF Buffered
  <2>6. QED
    BY <2>1, <2>2, <2>3, <2>4, <2>5
<1>2. /\ k \in Nat /\ m \in Nat /\ p \in Nat /\ n - k = l /\ m - n = count /\ m - k = p
      /\ k <= n /\ n <= m /\ m - p = k /\ p <= m /\ n - l = k
  BY <1>1
<1> HIDE DEF n, m, l, k, p, d
<1>3. [i \in 1..(n - k) |-> k + i] \o [i \in 1..(m - n) |-> n + i] = [i \in 1..(m - k) |-> k + i]
  BY <1>1, <1>2, RangeConcat
<1>4. Numbered(d) = [i \in 1..p |-> k + i]
  <2>1. Numbered(wr.data) = [i \in 1..(n - k) |-> k + i]
    BY <1>1, <1>2
  <2>2. Numbered(units) = [i \in 1..(m - n) |-> n + i]
    BY <1>1, <1>2
  <2>3. Numbered(d) = [i \in 1..(m - k) |-> k + i]
    BY <1>1, <1>3, <2>1, <2>2
  <2>4. QED
    BY <1>2, <2>3
<1>5. Len(Numbered(d)) = p
  BY <1>2, <1>4, RangeLen
<1>6. full \in [data : Seq(Nat), units : Nat] /\ full.data = d /\ full.units = m
  BY <1>1, <1>2
<1> HIDE DEF full
<1>7. Buffered(full)
  <2>1. Numbered(full.data) = [i \in 1..Len(Numbered(full.data)) |->
                                  full.units - Len(Numbered(full.data)) + i]
    BY <1>2, <1>4, <1>5, <1>6
  <2>2. QED
    BY <1>2, <1>5, <1>6, <2>1 DEF Buffered
<1>8. FlushedUpto(full) = FlushedUpto(wr)
  BY <1>2, <1>5, <1>6 DEF FlushedUpto, n, l
<1>9. QED
  BY <1>7, <1>8 DEF full, d, m, n

\* ... and when everything was flushed before.
LEMMA BufferedNew ==
  ASSUME NEW wr, Buffered(wr), NEW units \in Seq(Nat), NEW count \in Nat,
         Numbered(units) = [i \in 1..count |-> wr.units + i]
  PROVE  /\ Buffered([data |-> units, units |-> wr.units + count])
         /\ FlushedUpto([data |-> units, units |-> wr.units + count]) = wr.units
<1> DEFINE n == wr.units   f == Flushed(wr)
<1>1. Buffered(f) /\ FlushedUpto(f) = n
  BY FlushedWriter
<1>2. f.units = n /\ f.data = <<>> /\ n \in Nat
  BY DEF Flushed, Buffered
<1>3. f.data \o units = units
  BY <1>2
<1> HIDE DEF f
<1>4. /\ Buffered([data |-> f.data \o units, units |-> f.units + count])
      /\ FlushedUpto([data |-> f.data \o units, units |-> f.units + count]) = FlushedUpto(f)
  <2>1. Numbered(units) = [i \in 1..count |-> f.units + i]
    BY <1>2
  <2>2. QED
    BY <1>1, <2>1, BufferedMore
<1>5. QED
  BY <1>1, <1>2, <1>3, <1>4

\* What prepareWrite, the copy and completeWrite lead to.
LEMMA WrittenStreams ==
  ASSUME NEW w \in Worlds, NEW wr, Buffered(wr), Streams(w, FlushedUpto(wr)),
         NEW units \in Seq(Nat), NEW count \in Nat,
         Numbered(units) = [i \in 1..count |-> wr.units + i],
         NEW r \in Written(w, wr, units, count)
  PROVE  /\ Keeps(w, r[1]) /\ r[1] \in Worlds
         /\ Buffered(r[2]) /\ Streams(r[1], FlushedUpto(r[2]))
<1> DEFINE early == wr.data # <<>> /\ Len(wr.data) + Len(units) >= FlushSize
           ready == IF early THEN FlushWrites(w, wr) ELSE {w}
           data  == IF early THEN units ELSE wr.data \o units
           full  == [data |-> data, units |-> wr.units + count]
<1>1. Buffered(full)
  <2>1. CASE early
    BY <2>1, BufferedNew
  <2>2. CASE ~early
    BY <2>2, BufferedMore
  <2>3. QED
    BY <2>1, <2>2
<1>2. ASSUME NEW x \in ready
      PROVE  Keeps(w, x) /\ x \in Worlds /\ Streams(x, FlushedUpto(full))
  <2>1. CASE early
    <3>1. x \in FlushWrites(w, wr) /\ FlushedUpto(full) = wr.units
      BY <1>2, <2>1, BufferedNew
    <3> HIDE DEF early, ready, full
    <3>2. QED
      BY <3>1, WritesStreams
  <2>2. CASE ~early
    <3>1. x = w /\ FlushedUpto(full) = FlushedUpto(wr)
      BY <1>2, <2>2, BufferedMore
    <3>2. QED
      BY <3>1 DEF Keeps
  <2>3. QED
    BY <2>1, <2>2
<1>3. \/ r = <<w, wr>>
      \/ \E x \in ready : r = <<x, full>>
      \/ \E x \in ready : \E y \in FlushWrites(x, full) : r = <<y, Flushed(full)>>
  <2>1. r \in IF w.connections = 0 THEN {<<w, wr>>}
              ELSE IF Len(data) >= FlushSize
              THEN UNION {{<<y, Flushed(full)>> : y \in FlushWrites(x, full)} : x \in ready}
              ELSE {<<x, full>> : x \in ready}
    BY DEF Written
  <2> HIDE DEF early, ready, data, full
  <2>2. QED
    BY <2>1
<1> HIDE DEF early, ready, data, full
<1>4. CASE r = <<w, wr>>
  BY <1>4 DEF Keeps
<1>5. ASSUME NEW x \in ready, r = <<x, full>>
      PROVE  /\ Keeps(w, r[1]) /\ r[1] \in Worlds
             /\ Buffered(r[2]) /\ Streams(r[1], FlushedUpto(r[2]))
  BY <1>1, <1>2, <1>5
<1>6. ASSUME NEW x \in ready, NEW y \in FlushWrites(x, full), r = <<y, Flushed(full)>>
      PROVE  /\ Keeps(w, r[1]) /\ r[1] \in Worlds
             /\ Buffered(r[2]) /\ Streams(r[1], FlushedUpto(r[2]))
  <2>1. Keeps(w, x) /\ x \in Worlds /\ Streams(x, FlushedUpto(full))
    BY <1>2
  <2>2. Keeps(x, y) /\ y \in Worlds /\ Streams(y, full.units)
    BY <1>1, <2>1, WritesStreams
  <2>3. Buffered(Flushed(full)) /\ FlushedUpto(Flushed(full)) = full.units
    BY <1>1, FlushedWriter
  <2>4. Keeps(w, y)
    BY <2>1, <2>2, KeepsTrans
  <2>5. QED
    BY <1>6, <2>2, <2>3, <2>4
<1>7. QED
  BY <1>3, <1>4, <1>5, <1>6

\* A change of one client's queue leaves the streams of the others.
LEMMA FedStreams ==
  ASSUME NEW w \in Worlds, NEW s \in Open(w), NEW n, Streams(w, n), NEW x,
         Fed(w, x, s, Stream(w.clients[s]), w.clients[s].from)
  PROVE  Streams(x, n) /\ x \in Worlds
<1> SUFFICES ASSUME NEW t \in Open(x)
             PROVE  InStream(x.clients[t], n)
  BY DEF Streams, Fed, Keeps
<1>1. CASE t = s
  BY <1>1 DEF Open, Fed, Streams, InStream
<1>2. CASE t # s
  BY <1>2 DEF Open, Fed, Streams
<1>3. QED
  BY <1>1, <1>2

\* Greeting a client adds nothing to its stream.
LEMMA GreetFed ==
  ASSUME NEW w \in Worlds, NEW s \in Open(w), NEW x \in Greet(w, s)
  PROVE  Fed(w, x, s, Stream(w.clients[s]), w.clients[s].from)
<1> DEFINE sq == w.clients[s].sendq
           q == IF Len(sq) + 1 < SendqMax THEN Append(sq, 0) ELSE sq
<1>1. sq \in Seq(Nat)
  BY OpenTypes
<1>2. q \in Seq(Nat)
  BY <1>1
<1>3. Numbered(q) = Numbered(sq)
  BY <1>1, NumberedAppend
<1>4. x \in Flush([w EXCEPT !.clients[s].sendq = q], s)
  <2>1. s \in Slots /\ w.clients \in [Slots -> ClientRec \union {Nil}]
    BY OpenTypes, WorldTypes
  <2>2. QED
    BY DEF Greet
<1> HIDE DEF q
<1>5. QED
  BY <1>2, <1>3, <1>4, QueueFed DEF Stream

\* the client createSocketClient makes
NewClient(f, wr) ==
    [fd |-> f, service |-> TRUE, sendq |-> <<>>, out |-> FALSE, con |-> FALSE, young |-> TRUE,
     sent |-> <<>>, from |-> FlushedUpto(wr)]

\* the client of the connector
Mine(cl) == [cl EXCEPT !.con = TRUE]

\* It has everything flushed since it connected: nothing.
LEMMA NewClientTypes ==
  ASSUME NEW f \in Fds, NEW wr, Buffered(wr)
  PROVE  /\ NewClient(f, wr) \in ClientRec
         /\ NewClient(f, wr).fd = f /\ NewClient(f, wr).service
         /\ ~NewClient(f, wr).con
         /\ InStream(NewClient(f, wr), FlushedUpto(wr))
<1> DEFINE cl == NewClient(f, wr)   m == FlushedUpto(wr)   l == Len(Numbered(wr.data))
<1>1. m \in Nat
  <2>1. wr.units \in Nat /\ l \in Nat /\ l <= wr.units
    BY NumberedType DEF Buffered
  <2>2. QED
    BY <2>1 DEF FlushedUpto
<1>2. <<>> \in Seq(Nat)
  OBVIOUS
<1> HIDE DEF m
<1>3. cl = [fd |-> f, service |-> TRUE, sendq |-> <<>>, out |-> FALSE, con |-> FALSE, young |-> TRUE,
            sent |-> <<>>, from |-> m]
  BY DEF NewClient, m
<1> HIDE DEF cl
<1>4. /\ cl \in ClientRec /\ cl.fd = f /\ cl.service /\ ~cl.con /\ cl.from = m
      /\ cl.sendq = <<>> /\ cl.sent = <<>>
  BY <1>1, <1>2, <1>3 DEF ClientRec
<1>5. InStream(cl, m)
  <2>1. Stream(cl) = <<>>
    BY <1>4, NumberedEmpty DEF Stream
  <2>2. m - m = 0 /\ m \in 0..m /\ [i \in 1..0 |-> m + i] = <<>>
    BY <1>1
  <2>3. QED
    BY <1>4, <2>1, <2>2 DEF InStream
<1>6. QED
  BY <1>4, <1>5 DEF cl, m

\* Whose it is has no effect on that.
LEMMA MineTypes ==
  ASSUME NEW cl \in ClientRec
  PROVE  /\ Mine(cl) \in ClientRec
         /\ Mine(cl).fd = cl.fd /\ Mine(cl).service = cl.service /\ Mine(cl).con
         /\ \A n : InStream(cl, n) => InStream(Mine(cl), n)
<1> DEFINE x == Mine(cl)
<1>1. /\ x \in ClientRec /\ x.fd = cl.fd /\ x.service = cl.service /\ x.con
      /\ x.from = cl.from /\ x.sent = cl.sent /\ x.sendq = cl.sendq
  BY DEF Mine, ClientRec
<1> HIDE DEF x
<1>2. Stream(x) = Stream(cl)
  BY <1>1 DEF Stream
<1>3. \A n : InStream(cl, n) => InStream(x, n)
  BY <1>1, <1>2 DEF InStream
<1>4. QED
  BY <1>1, <1>3 DEF x

-----------------------------------------------------------------------------
(* New clients and descriptors.                                            *)

\* The least element of a set is one of it.
LEMMA LeastIn ==
  ASSUME NEW S, S \subseteq Nat, S # {}
  PROVE  Min(S) \in S
<1>1. \E x \in S : \A y \in S : x <= y
  BY NatMin
<1>2. QED
  BY <1>1 DEF Min

\* The memory of a new client, and its descriptor, were free.
LEMMA Lowest ==
  ASSUME NEW w \in Worlds
  PROVE  /\ FreeSlots(w) # {} => Min(FreeSlots(w)) \in Slots /\ w.clients[Min(FreeSlots(w))] = Nil
         /\ FreeFds(w) # {} => Min(FreeFds(w)) \in Fds /\ w.files[Min(FreeFds(w))] = Free
<1>1. FreeSlots(w) \subseteq Nat /\ FreeFds(w) \subseteq Nat
  BY Constants DEF FreeSlots, FreeFds
<1>2. FreeSlots(w) # {} => Min(FreeSlots(w)) \in FreeSlots(w)
  BY <1>1, LeastIn
<1>3. FreeFds(w) # {} => Min(FreeFds(w)) \in FreeFds(w)
  BY <1>1, LeastIn
<1>4. QED
  BY <1>2, <1>3 DEF FreeSlots, FreeFds

\* What createSocketClient changes.
LEMMA CreatedTypes ==
  ASSUME NEW w \in Worlds, NEW s \in Slots, NEW f \in Fds, NEW wr, Buffered(wr)
  PROVE  /\ Created(w, s, f, wr) \in Worlds
         /\ Created(w, s, f, wr).files = w.files
         /\ Created(w, s, f, wr).interest = [w.interest EXCEPT ![f] = s]
         /\ Created(w, s, f, wr).clients = [w.clients EXCEPT ![s] = NewClient(f, wr)]
         /\ Created(w, s, f, wr).connections = w.connections + 1
         /\ Created(w, s, f, wr).con = w.con
<1> DEFINE cl == NewClient(f, wr)
           e == w.room  b == w.clients  d == w.connections  h == w.con
           u == w.files y == w.interest z == w.status
           cs == [b EXCEPT ![s] = cl]   is == [y EXCEPT ![f] = s]   x == Created(w, s, f, wr)
<1>1. cl \in ClientRec
  BY NewClientTypes
<1>2. w = [files |-> u, interest |-> y, status |-> z, room |-> e, clients |-> b,
           connections |-> d, con |-> h]
  BY WorldTypes
<1>3. /\ cs \in [Slots -> ClientRec \union {Nil}] /\ is \in [Fds -> Pointers] /\ d + 1 \in Int
      /\ u \in [Fds -> Conns \union {Free, Listen}] /\ z \in [Conns -> Statuses]
      /\ e \in [Conns -> BOOLEAN] /\ h \in ConRec
  <2>1. s \in Pointers
    BY DEF Pointers
  <2>2. cs \in [Slots -> ClientRec \union {Nil}] /\ is \in [Fds -> Pointers]
    BY <1>1, <2>1, WorldTypes
  <2>3. d + 1 \in Int
    BY WorldTypes
  <2>4. QED
    BY <2>2, <2>3, WorldTypes
<1>4. x = [w EXCEPT !.clients[s] = cl, !.connections = @ + 1, !.interest[f] = s]
  BY DEF Created, NewClient, FlushedUpto
<1> HIDE DEF x, cl, u, y, z, e, b, d, h
<1>5. x = [files |-> u, interest |-> is, status |-> z, room |-> e, clients |-> cs,
           connections |-> d + 1, con |-> h]
  BY <1>2, <1>4
<1> HIDE DEF cs, is
<1>6. x \in Worlds
  BY <1>3, <1>5 DEF Worlds
<1>7. x.files = u /\ x.interest = is /\ x.connections = d + 1 /\ x.con = h /\ x.clients = cs
  BY <1>5
<1>8. QED
  BY <1>6, <1>7 DEF x, cl, u, y, d, h, b, cs, is

\* x is w with one client more, whose descriptor f refers to k.
Added(w, x, s, f, k, cl) ==
    /\ x \in Worlds
    /\ x.files = [w.files EXCEPT ![f] = k] /\ x.interest = [w.interest EXCEPT ![f] = s]
    /\ x.clients = [w.clients EXCEPT ![s] = cl] /\ x.connections = w.connections + 1
    /\ cl \in ClientRec /\ cl.fd = f /\ cl.service
    /\ ~cl.con => x.con = w.con
    /\ cl.con => /\ w.con.connecting /\ w.con.fd = f
               /\ x.con = [w.con EXCEPT !.connecting = FALSE, !.connected = TRUE,
                                        !.c = s, !.fd = 0]

\* The clients that are open then.
LEMMA AddedOpen ==
  ASSUME NEW w \in Worlds, NEW s \in Slots, w.clients[s] = Nil, NEW f \in Fds, NEW k, NEW cl,
         NEW x, Added(w, x, s, f, k, cl)
  PROVE  /\ Open(x) = Open(w) \union {s} /\ s \notin Open(w)
         /\ x.clients[s] = cl /\ cl # Nil /\ \A t \in Slots \ {s} : x.clients[t] = w.clients[t]
<1>1. cl # Nil
  BY NotNil DEF Added
<1>2. x.clients[s] = cl /\ \A t \in Slots \ {s} : x.clients[t] = w.clients[t]
  BY WorldTypes DEF Added
<1>3. QED
  BY <1>1, <1>2 DEF Open, Added

\* What the connector becomes.
LEMMA AddedCon ==
  ASSUME NEW w \in Worlds, NEW s \in Slots, NEW f, NEW k, NEW cl,
         NEW x, Added(w, x, s, f, k, cl)
  PROVE  /\ cl.con => ~x.con.connecting /\ x.con.connected /\ x.con.c = s
         /\ x.con.try_addr = w.con.try_addr /\ x.con.addr_info = w.con.addr_info
         /\ x.con.in_progress = w.con.in_progress /\ x.con.thread = w.con.thread
         /\ x.con.gai_error = w.con.gai_error
<1>1. w.con \in ConRec
  BY WorldTypes
<1>2. CASE cl.con
  <2> DEFINE h == w.con
  <2>1. x.con = [h EXCEPT !.connecting = FALSE, !.connected = TRUE, !.c = s, !.fd = 0]
    BY <1>2 DEF Added
  <2>2. h \in ConRec
    BY <1>1
  <2> HIDE DEF h
  <2>3. /\ ~x.con.connecting /\ x.con.connected /\ x.con.c = s
        /\ x.con.try_addr = h.try_addr /\ x.con.addr_info = h.addr_info
        /\ x.con.in_progress = h.in_progress /\ x.con.thread = h.thread
        /\ x.con.gai_error = h.gai_error
    BY <2>1, <2>2 DEF ConRec
  <2>4. QED
    BY <2>3 DEF h
<1>3. CASE ~cl.con
  BY <1>3 DEF Added
<1>4. QED
  BY <1>2, <1>3

\* The new client is linked.
LEMMA AddedLinked ==
  ASSUME NEW w \in Worlds, NEW s \in Slots, w.clients[s] = Nil, NEW f \in Fds, NEW k, NEW cl,
         NEW x, Added(w, x, s, f, k, cl), Linked(w)
  PROVE  Linked(x)
<1>1. /\ Open(x) = Open(w) \union {s} /\ s \notin Open(w)
      /\ x.clients[s] = cl /\ cl # Nil /\ \A t \in Slots \ {s} : x.clients[t] = w.clients[t]
  BY AddedOpen
<1>2. /\ cl.con => ~x.con.connecting /\ x.con.connected /\ x.con.c = s
      /\ x.con.try_addr = w.con.try_addr /\ x.con.addr_info = w.con.addr_info
      /\ x.con.in_progress = w.con.in_progress /\ x.con.thread = w.con.thread
      /\ x.con.gai_error = w.con.gai_error
  BY AddedCon
<1>3. s # DummyClient /\ 0 \notin Fds /\ w.interest \in [Fds -> Pointers] /\ Open(w) \subseteq Slots
  BY Constants, WorldTypes DEF DummyClient, Open
<1>4. ASSUME NEW g \in Fds
      PROVE  Reported(x, g)
  <2>1. CASE g = f
    <3>1. x.interest[g] = s /\ x.clients[s].fd = f /\ s \in Open(x)
      BY <1>1, <1>3, <2>1 DEF Added
    <3>2. QED
      BY <1>3, <2>1, <3>1 DEF Reported
  <2>2. CASE g # f
    <3>1. x.interest[g] = w.interest[g] /\ Reported(w, g)
      BY <1>3, <2>2 DEF Added, Linked
    <3>2. w.interest[g] \in Slots => /\ w.interest[g] \in Open(x)
                                     /\ x.clients[w.interest[g]] = w.clients[w.interest[g]]
      BY <1>1, <3>1 DEF Reported
    <3>3. w.interest[g] = DummyClient => x.con.connecting /\ x.con.fd = g
      BY <2>2, <3>1 DEF Reported, Added
    <3>4. QED
      BY <3>1, <3>2, <3>3 DEF Reported
  <2>3. QED
    BY <2>1, <2>2
<1>5. \A t \in Slots : x.clients[t] # Nil => x.clients[t].service = (x.clients[t].fd # 0)
  <2>1. x.clients[s].service = (x.clients[s].fd # 0)
    <3>1. cl.service \in BOOLEAN /\ cl.service /\ cl.fd # 0
      BY <1>3 DEF Added, ClientRec
    <3>2. QED
      BY <1>1, <3>1
  <2>2. \A t \in Slots \ {s} : x.clients[t] # Nil => x.clients[t].service = (x.clients[t].fd # 0)
    BY <1>1 DEF Linked
  <2>3. QED
    BY <2>1, <2>2
<1>6. ASSUME NEW t \in Open(x)
      PROVE  x.clients[t].con <=> x.con.connected /\ x.con.c = t
  <2>1. CASE t = s
    BY <1>1, <1>2, <2>1 DEF Added, Linked, Connector
  <2>2. CASE t # s
    <3>1. t \in Open(w) /\ x.clients[t] = w.clients[t]
          /\ (w.clients[t].con <=> w.con.connected /\ w.con.c = t)
      BY <1>1, <1>3, <1>6, <2>2 DEF Linked
    <3>2. cl.con => ~w.con.connected
      BY DEF Added, Linked, Connector
    <3>3. QED
      BY <1>2, <2>2, <3>1, <3>2 DEF Added
  <2>3. QED
    BY <2>1, <2>2
<1>7. Connector(x)
  BY <1>1, <1>2 DEF Added, Linked, Connector
<1>8. x.connections = Cardinality(Open(x))
  <2>1. IsFiniteSet(Open(w))
    BY Constants, FS_Subset DEF Open
  <2>2. Cardinality(Open(w) \union {s}) = Cardinality(Open(w)) + 1
    BY <1>1, <2>1, FS_AddElement
  <2>3. QED
    BY <1>1, <2>2 DEF Added, Linked
<1>9. QED
  BY <1>4, <1>5, <1>6, <1>7, <1>8 DEF Linked

\* Its descriptor is its own.
LEMMA AddedWhole ==
  ASSUME NEW w \in Worlds, NEW s \in Slots, w.clients[s] = Nil, NEW f \in Fds \ {ListenFd}, NEW k,
         NEW cl, NEW x, Added(w, x, s, f, k, cl), Linked(w), Whole(w),
         k # Free, k # Listen, cl.con \/ w.files[f] = Free
  PROVE  Whole(x)
<1>1. /\ Open(x) = Open(w) \union {s} /\ s \notin Open(w)
      /\ x.clients[s] = cl /\ \A t \in Slots \ {s} : x.clients[t] = w.clients[t]
  BY AddedOpen
<1>2. cl.con => ~x.con.connecting
  BY AddedCon
<1>3. /\ s # DummyClient /\ s # Null /\ s # ListenSocket /\ 0 \notin Fds
      /\ w.interest \in [Fds -> Pointers] /\ w.files \in [Fds -> Conns \union {Free, Listen}]
      /\ Open(w) \subseteq Slots /\ ListenFd \in Fds
  BY Constants, WorldTypes DEF DummyClient, Null, ListenSocket, Open
<1>4. /\ \A g \in Fds \ {f} : x.files[g] = w.files[g] /\ x.interest[g] = w.interest[g]
      /\ x.files[f] = k /\ x.interest[f] = s
  BY <1>3 DEF Added
<1>5. x.files[ListenFd] = Listen /\ x.interest[ListenFd] = ListenSocket
  BY <1>3, <1>4 DEF Whole
<1>6. \A g \in Fds \ {ListenFd} :
        /\ x.files[g] # Listen /\ x.interest[g] # ListenSocket
        /\ x.files[g] = Free <=> x.interest[g] = Null
  BY <1>3, <1>4 DEF Whole
<1>7. ASSUME NEW t \in Open(x)
      PROVE  x.files[x.clients[t].fd] # Free /\ x.interest[x.clients[t].fd] = t
  <2>1. CASE t = s
    BY <1>1, <1>4, <2>1 DEF Added
  <2>2. CASE t # s
    <3>1. t \in Open(w) /\ x.clients[t] = w.clients[t] /\ t \in Slots
      BY <1>1, <1>3, <2>2
    <3>2. w.files[w.clients[t].fd] # Free /\ w.interest[w.clients[t].fd] = t
      BY <3>1 DEF Whole
    <3>3. w.clients[t].fd \in Fds
      <4>1. w.clients[t].service /\ w.clients[t] # Nil /\ w.clients[t].fd \in Fds \union {0}
        BY <3>1, OpenTypes, NotNil
      <4>2. w.clients[t].fd # 0
        BY <3>1, <4>1 DEF Linked
      <4>3. QED
        BY <4>1, <4>2
    <3>4. w.clients[t].fd # f
      <4>1. cl.con => w.interest[f] = DummyClient
        BY DEF Added, Whole
      <4>2. t # DummyClient
        BY <3>1, Constants DEF DummyClient
      <4>3. QED
        BY <3>2, <4>1, <4>2
    <3>5. QED
      BY <1>4, <3>1, <3>2, <3>3, <3>4
  <2>3. QED
    BY <2>1, <2>2
<1>8. x.con.connecting => x.files[x.con.fd] # Free /\ x.interest[x.con.fd] = DummyClient
  <2> SUFFICES ASSUME x.con.connecting
               PROVE  x.files[x.con.fd] # Free /\ x.interest[x.con.fd] = DummyClient
    OBVIOUS
  <2>1. ~cl.con /\ x.con = w.con
    BY <1>2 DEF Added
  <2>2. w.files[w.con.fd] # Free /\ w.interest[w.con.fd] = DummyClient /\ w.con.fd \in Fds
    BY <2>1 DEF Whole, Linked, Connector
  <2>3. QED
    BY <1>4, <2>1, <2>2
<1>9. QED
  BY <1>5, <1>6, <1>7, <1>8 DEF Whole

\* The streams of the clients.
LEMMA AddedStreams ==
  ASSUME NEW w \in Worlds, NEW s \in Slots, w.clients[s] = Nil, NEW f \in Fds, NEW k, NEW cl,
         NEW x, Added(w, x, s, f, k, cl), NEW n, Streams(w, n),
         InStream(cl, n)
  PROVE  Streams(x, n) /\ s \in Open(x) /\ \A t \in Slots : w.clients[t] # Nil => x.clients[t] # Nil
<1>1. /\ Open(x) = Open(w) \union {s} /\ cl # Nil
      /\ x.clients[s] = cl /\ \A t \in Slots \ {s} : x.clients[t] = w.clients[t]
  BY AddedOpen
<1>2. Open(w) \subseteq Slots
  BY DEF Open
<1>3. QED
  BY <1>1, <1>2 DEF Streams

-----------------------------------------------------------------------------
(* The connector.                                                          *)

\* What giving up a connection attempt changes.
LEMMA RefusedTypes ==
  ASSUME NEW w \in Worlds, w.con.fd \in Fds
  PROVE  /\ Refused(w) \in Worlds /\ Refused(w).clients = w.clients
         /\ Refused(w).connections = w.connections
         /\ Refused(w).files = [w.files EXCEPT ![w.con.fd] = Free]
         /\ Refused(w).interest = [w.interest EXCEPT ![w.con.fd] = Null]
         /\ Refused(w).con = [w.con EXCEPT !.connecting = FALSE, !.fd = 0]
<1> DEFINE f == w.con.fd   cn == [w.con EXCEPT !.connecting = FALSE, !.fd = 0]
           is == [w.interest EXCEPT ![f] = Null]
           e == w.room  b == w.clients  d == w.connections  h == w.con
           u == w.files y == w.interest z == w.status
           v == [w EXCEPT !.interest[f] = Null, !.con.connecting = FALSE, !.con.fd = 0]
<1>1. w = [files |-> u, interest |-> y, status |-> z, room |-> e, clients |-> b,
           connections |-> d, con |-> h]
  BY WorldTypes
<1>2. cn \in ConRec
  <2>1. h \in ConRec
    BY WorldTypes
  <2> HIDE DEF h
  <2>2. [h EXCEPT !.connecting = FALSE, !.fd = 0] \in ConRec
    BY <2>1 DEF ConRec
  <2>3. QED
    BY <2>2 DEF h
<1>3. is \in [Fds -> Pointers]
  BY WorldTypes DEF Pointers
<1>4. Refused(w) = CloseFd(v, f)
  BY DEF Refused
<1>5. v = [files |-> u, interest |-> is, status |-> z, room |-> e, clients |-> b,
           connections |-> d, con |-> cn]
  <2> DEFINE g == f
  <2> HIDE DEF g
  <2>1. [w EXCEPT !.interest[g] = Null, !.con.connecting = FALSE, !.con.fd = 0]
        = [w EXCEPT !.interest = [y EXCEPT ![g] = Null],
                    !.con = [h EXCEPT !.connecting = FALSE, !.fd = 0]]
    <3> HIDE DEF u, y, z, e, b, d, h
    <3>1. QED
      BY <1>1
  <2>2. v = [w EXCEPT !.interest = is, !.con = cn]
    BY <2>1 DEF g
  <2> HIDE DEF v, is, cn, u, y, z, e, b, d, h
  <2>3. QED
    BY <1>1, <2>2
<1>6. v \in Worlds /\ v.files = u /\ v.interest = is /\ v.con = cn /\ v.clients = b
      /\ v.connections = d
  <2> HIDE DEF v, is, cn
  <2>1. QED
    BY <1>2, <1>3, <1>5, WorldTypes DEF Worlds
<1>7. v.interest[f] = Null /\ [v.interest EXCEPT ![f] = Null] = is
  <2>1. is[f] = Null /\ [is EXCEPT ![f] = Null] = is
    BY <1>3, WorldTypes
  <2> HIDE DEF is, v
  <2>2. QED
    BY <1>6, <2>1
<1> HIDE DEF v, is, cn
<1>8. /\ CloseFd(v, f) \in Worlds /\ CloseFd(v, f).clients = b
      /\ CloseFd(v, f).connections = d /\ CloseFd(v, f).con = cn
  BY <1>6, CloseFdTypes
<1>9. CloseFd(v, f).files = [u EXCEPT ![f] = Free] /\ CloseFd(v, f).interest = is
  BY <1>6, <1>7, CloseFdFds
<1>10. QED
  BY <1>4, <1>8, <1>9 DEF cn, is

\* The rest stays linked.
LEMMA RefusedLinked ==
  ASSUME NEW w \in Worlds, w.con.connecting, Linked(w)
  PROVE  /\ Refused(w) \in Worlds /\ Refused(w).clients = w.clients
         /\ Linked(Refused(w)) /\ (Whole(w) => Whole(Refused(w)))
         /\ ~Refused(w).con.connecting /\ ~Refused(w).con.connected
<1> DEFINE x == Refused(w)   fd == w.con.fd   h == w.con
<1>1. fd \in Fds /\ ~h.connected
  BY DEF Linked, Connector
<1>2. /\ x \in Worlds /\ x.clients = w.clients
      /\ x.connections = w.connections
      /\ x.files = [w.files EXCEPT ![fd] = Free]
      /\ x.interest = [w.interest EXCEPT ![fd] = Null]
      /\ x.con = [h EXCEPT !.connecting = FALSE, !.fd = 0]
  BY <1>1, RefusedTypes
<1>3. /\ w.files \in [Fds -> Conns \union {Free, Listen}] /\ w.interest \in [Fds -> Pointers]
      /\ h \in ConRec /\ ListenFd \in Fds /\ DummyClient # ListenSocket /\ Null # DummyClient
      /\ Null # ListenSocket /\ Free # Listen /\ DummyClient \notin Slots /\ Null \notin Slots
  BY WorldTypes, Constants DEF DummyClient, ListenSocket, Null
<1> HIDE DEF x
<1>4. /\ ~x.con.connecting /\ ~x.con.connected
      /\ x.con.c = h.c /\ x.con.try_addr = h.try_addr /\ x.con.addr_info = h.addr_info
      /\ x.con.in_progress = h.in_progress /\ x.con.thread = h.thread
      /\ x.con.gai_error = h.gai_error
  <2> HIDE DEF h
  <2>1. QED
    BY <1>1, <1>2, <1>3 DEF ConRec
<1>5. Open(x) = Open(w)
  BY <1>2 DEF Open
<1>6. ASSUME NEW g \in Fds
      PROVE  Reported(x, g)
  <2>1. CASE g = fd
    BY <1>2, <1>3, <2>1 DEF Reported
  <2>2. CASE g # fd
    <3>1. x.interest[g] = w.interest[g] /\ Reported(w, g)
      BY <1>2, <1>3, <2>2 DEF Linked
    <3>2. QED
      BY <1>2, <1>5, <2>2, <3>1 DEF Reported
  <2>3. QED
    BY <2>1, <2>2
<1>7. \A s \in Slots : x.clients[s] # Nil => x.clients[s].service = (x.clients[s].fd # 0)
  BY <1>2 DEF Linked
<1>8. \A s \in Open(x) : x.clients[s].con <=> x.con.connected /\ x.con.c = s
  BY <1>1, <1>2, <1>4, <1>5 DEF Linked
<1>9. Connector(x)
  BY <1>4 DEF Linked, Connector
<1>10. Linked(x)
  BY <1>2, <1>5, <1>6, <1>7, <1>8, <1>9 DEF Linked
<1>11. ASSUME Whole(w)
       PROVE  Whole(x)
  <2>1. fd # ListenFd /\ w.interest[fd] = DummyClient
    BY <1>3, <1>11 DEF Whole
  <2>2. x.files[ListenFd] = Listen /\ x.interest[ListenFd] = ListenSocket
    BY <1>2, <1>3, <1>11, <2>1 DEF Whole
  <2>3. \A f \in Fds \ {ListenFd} :
            /\ x.files[f] # Listen /\ x.interest[f] # ListenSocket
            /\ x.files[f] = Free <=> x.interest[f] = Null
    BY <1>2, <1>3, <1>11 DEF Whole
  <2>4. ASSUME NEW t \in Open(x)
        PROVE  x.files[x.clients[t].fd] # Free /\ x.interest[x.clients[t].fd] = t
    <3>1. /\ t \in Open(w) /\ t \in Slots /\ w.files[w.clients[t].fd] # Free
          /\ w.interest[w.clients[t].fd] = t
      BY <1>5, <1>11 DEF Whole, Open
    <3>2. w.clients[t].fd # fd
      BY <1>3, <2>1, <3>1
    <3>3. w.clients[t].fd \in Fds
      <4>1. w.clients[t].service /\ w.clients[t] # Nil /\ w.clients[t].fd \in Fds \union {0}
        BY <3>1, OpenTypes, NotNil
      <4>2. w.clients[t].fd # 0
        BY <3>1, <4>1 DEF Linked
      <4>3. QED
        BY <4>1, <4>2
    <3>4. QED
      BY <1>2, <1>3, <3>1, <3>2, <3>3
  <2>5. QED
    BY <1>4, <2>2, <2>3, <2>4 DEF Whole
<1>12. QED
  BY <1>2, <1>4, <1>10, <1>11 DEF x

\* cn is what the connector may become when it is neither connected nor gives up.
Sensible(w, cn) ==
    /\ cn \in ConRec
    /\ cn.fd = w.con.fd /\ cn.connecting = w.con.connecting /\ cn.connected = w.con.connected
    /\ cn.c = w.con.c
    /\ cn.try_addr # 0 => cn.addr_info /\ ~cn.in_progress
    /\ cn.thread # "none" => cn.in_progress
    /\ cn.thread = "done" => cn.addr_info \/ cn.gai_error

\* w with cn for its connector
WithCon(w, cn) == [w EXCEPT !.con = cn]

\* The rest stays as it is.
LEMMA SensibleLinked ==
  ASSUME NEW w \in Worlds, NEW cn, Sensible(w, cn)
  PROVE  /\ WithCon(w, cn) \in Worlds /\ WithCon(w, cn).clients = w.clients
         /\ WithCon(w, cn).con = cn
         /\ Linked(w) => Linked(WithCon(w, cn)) /\ (Whole(w) => Whole(WithCon(w, cn)))
<1> DEFINE e == w.room  b == w.clients  d == w.connections
           u == w.files y == w.interest z == w.status   h == w.con
           x == WithCon(w, cn)
<1>1. w = [files |-> u, interest |-> y, status |-> z, room |-> e, clients |-> b,
           connections |-> d, con |-> h]
  BY WorldTypes
<1> HIDE DEF u, y, z, e, b, d, h, x
<1>2. x = [files |-> u, interest |-> y, status |-> z, room |-> e, clients |-> b,
           connections |-> d, con |-> cn]
  BY <1>1 DEF x, WithCon
<1>3. x \in Worlds
  BY <1>2, WorldTypes DEF Worlds, Sensible, u, y, z, e, b, d
<1>4. x.files = w.files /\ x.interest = w.interest /\ x.connections = w.connections
      /\ x.clients = w.clients /\ x.con = cn
  BY <1>2 DEF u, y, d, b
<1>5. Open(x) = Open(w)
  BY <1>4 DEF Open
<1>6. ASSUME Linked(w)
      PROVE  Linked(x)
  <2>1. \A f \in Fds : Reported(x, f)
    BY <1>4, <1>5, <1>6 DEF Linked, Reported, Sensible
  <2>2. \A s \in Open(x) : x.clients[s].con <=> x.con.connected /\ x.con.c = s
    BY <1>4, <1>5, <1>6 DEF Linked, Sensible
  <2>3. Connector(x)
    BY <1>4, <1>5, <1>6 DEF Linked, Sensible, Connector
  <2>4. QED
    BY <1>4, <1>5, <1>6, <2>1, <2>2, <2>3 DEF Linked
<1>7. Whole(w) => Whole(x)
  BY <1>4, <1>5 DEF Whole, Sensible
<1>8. QED
  BY <1>3, <1>4, <1>6, <1>7 DEF x

\* x is w but for the connector, its descriptor and what refers to it.
Tried(w, x) ==
    /\ x \in Worlds /\ x.clients = w.clients
    /\ Linked(x) /\ (Whole(w) => Whole(x))

\* A connection attempt begins with the descriptor f.
LEMMA Begun ==
  ASSUME NEW w \in Worlds, Linked(w), ~w.con.connecting, ~w.con.connected, NEW f \in Fds,
         w.files[f] = Free
  PROVE  LET n == [w EXCEPT !.files[f] = Remote, !.interest[f] = DummyClient,
                            !.status[Remote] = "syn", !.con.fd = f, !.con.connecting = TRUE]
         IN  Tried(w, n) /\ n.con.connecting
<1> DEFINE e == w.room  b == w.clients  d == w.connections
           u == w.files y == w.interest z == w.status   h == w.con
           us == [u EXCEPT ![f] = Remote]   is == [y EXCEPT ![f] = DummyClient]
           syn == "syn"   yes == TRUE
           zs == [z EXCEPT ![Remote] = syn]   cn == [h EXCEPT !.fd = f, !.connecting = yes]
           x == [w EXCEPT !.files[f] = Remote, !.interest[f] = DummyClient,
                          !.status[Remote] = syn, !.con.fd = f, !.con.connecting = yes]
<1>1. w = [files |-> u, interest |-> y, status |-> z, room |-> e, clients |-> b,
           connections |-> d, con |-> h]
  BY WorldTypes
<1>2. /\ us \in [Fds -> Conns \union {Free, Listen}] /\ is \in [Fds -> Pointers]
      /\ zs \in [Conns -> Statuses]
  <2>1. Remote \in Conns /\ DummyClient \in Pointers /\ "syn" \in Statuses
    BY Constants DEF Pointers, Statuses
  <2>2. QED
    BY <2>1, WorldTypes
<1>3. /\ \A g \in Fds \ {f} : us[g] = u[g] /\ is[g] = y[g]
      /\ us[f] = Remote /\ is[f] = DummyClient
  BY WorldTypes
<1>4. h \in ConRec /\ ~h.connecting /\ ~h.connected /\ Connector(w)
  BY WorldTypes DEF Linked
<1> HIDE DEF u, y, z, e, b, d, h
<1>5. /\ cn \in ConRec /\ cn.connecting /\ cn.fd = f /\ ~cn.connected
      /\ cn.c = h.c /\ cn.try_addr = h.try_addr /\ cn.addr_info = h.addr_info
      /\ cn.in_progress = h.in_progress /\ cn.thread = h.thread /\ cn.gai_error = h.gai_error
  BY <1>4 DEF ConRec
<1>6. x = [files |-> us, interest |-> is, status |-> zs, room |-> e, clients |-> b,
           connections |-> d, con |-> cn]
  <2> HIDE DEF syn, yes
  <2>1. x = [w EXCEPT !.files = us, !.interest = is, !.status = zs, !.con = cn]
    BY <1>1
  <2> HIDE DEF x, us, is, zs, cn
  <2>2. QED
    BY <1>1, <2>1
<1> HIDE DEF x, us, is, zs, cn
<1>7. x \in Worlds
  BY <1>2, <1>5, <1>6, WorldTypes DEF Worlds, e, b, d
<1>8. x.files = us /\ x.interest = is /\ x.connections = w.connections
      /\ x.clients = w.clients /\ x.con = cn
  BY <1>6 DEF d, b
<1>9. Open(x) = Open(w)
  BY <1>8 DEF Open
<1>10. /\ ListenFd \in Fds /\ DummyClient # ListenSocket /\ Null # DummyClient
       /\ Null # ListenSocket /\ Free # Listen /\ DummyClient \notin Slots
       /\ Remote # Free /\ Remote # Listen
  BY Constants DEF DummyClient, ListenSocket, Null
<1>11. ASSUME NEW g \in Fds
       PROVE  Reported(x, g)
  <2>1. CASE g = f
    BY <1>3, <1>5, <1>8, <1>10, <2>1 DEF Reported
  <2>2. CASE g # f
    <3>1. x.interest[g] = w.interest[g] /\ Reported(w, g)
      BY <1>3, <1>8, <2>2 DEF Linked, y
    <3>2. QED
      BY <1>8, <1>9, <3>1 DEF Reported
  <2>3. QED
    BY <2>1, <2>2
<1>12. \A s \in Slots : x.clients[s] # Nil => x.clients[s].service = (x.clients[s].fd # 0)
  BY <1>8 DEF Linked
<1>13. \A s \in Open(x) : x.clients[s].con <=> x.con.connected /\ x.con.c = s
  BY <1>5, <1>8, <1>9 DEF Linked
<1>14. Connector(x)
  BY <1>4, <1>5, <1>8 DEF Connector, h
<1>15. Linked(x)
  BY <1>8, <1>9, <1>11, <1>12, <1>13, <1>14 DEF Linked
<1>16. ASSUME Whole(w)
       PROVE  Whole(x)
  <2>1. f # ListenFd
    BY <1>10, <1>16 DEF Whole
  <2>2. x.files[ListenFd] = Listen /\ x.interest[ListenFd] = ListenSocket
    BY <1>3, <1>8, <1>10, <1>16, <2>1 DEF Whole, u, y
  <2>3. \A g \in Fds \ {ListenFd} :
            /\ x.files[g] # Listen /\ x.interest[g] # ListenSocket
            /\ x.files[g] = Free <=> x.interest[g] = Null
    BY <1>3, <1>8, <1>10, <1>16 DEF Whole, u, y
  <2>4. ASSUME NEW t \in Open(x)
        PROVE  x.files[x.clients[t].fd] # Free /\ x.interest[x.clients[t].fd] = t
    <3>1. /\ t \in Open(w) /\ t \in Slots /\ w.files[w.clients[t].fd] # Free
          /\ w.interest[w.clients[t].fd] = t
      BY <1>9, <1>16 DEF Whole, Open
    <3>2. w.clients[t].fd \in Fds
      <4>1. w.clients[t].service /\ w.clients[t] # Nil /\ w.clients[t].fd \in Fds \union {0}
        BY <3>1, OpenTypes, NotNil
      <4>2. w.clients[t].fd # 0
        BY <3>1, <4>1 DEF Linked
      <4>3. QED
        BY <4>1, <4>2
    <3>3. QED
      BY <1>3, <1>8, <3>1, <3>2 DEF u, y
  <2>5. x.files[x.con.fd] # Free /\ x.interest[x.con.fd] = DummyClient
    BY <1>3, <1>5, <1>8, <1>10
  <2>6. QED
    BY <2>2, <2>3, <2>4, <2>5 DEF Whole
<1>17. Tried(w, x) /\ x.con.connecting
  BY <1>5, <1>7, <1>8, <1>15, <1>16 DEF Tried
<1>18. QED
  BY <1>17 DEF x, syn, yes

\* A connection attempt, which may fail at once.
LEMMA AttemptTried ==
  ASSUME NEW w \in Worlds, Linked(w), ~w.con.connecting, ~w.con.connected,
         NEW x \in Attempt(w)
  PROVE  Tried(w, x)
<1> DEFINE f == Min(FreeFds(w))
           n == [w EXCEPT !.files[f] = Remote, !.interest[f] = DummyClient,
                          !.status[Remote] = "syn", !.con.fd = f, !.con.connecting = TRUE]
<1>1. CASE FreeFds(w) = {}
  BY <1>1 DEF Attempt, Tried
<1>2. CASE FreeFds(w) # {}
  <2>1. f \in Fds /\ w.files[f] = Free
    BY <1>2, Lowest
  <2>2. x \in {n, Refused(n)}
    BY <1>2 DEF Attempt
  <2> HIDE DEF f
  <2>3. Tried(w, n) /\ n.con.connecting
    BY <2>1, Begun
  <2> HIDE DEF n
  <2>4. Tried(w, Refused(n))
    BY <2>3, RefusedLinked DEF Tried
  <2>5. QED
    BY <2>2, <2>3, <2>4
<1>3. QED
  BY <1>1, <1>2

\* As before, with another connector to begin with.
LEMMA SensibleTried ==
  ASSUME NEW w \in Worlds, Linked(w), ~w.con.connecting, ~w.con.connected, NEW cn, Sensible(w, cn)
  PROVE  /\ Tried(w, WithCon(w, cn))
         /\ \A x \in Attempt(WithCon(w, cn)) : Tried(w, x)
<1> DEFINE v == WithCon(w, cn)
<1>1. /\ v \in Worlds /\ v.clients = w.clients /\ Linked(v) /\ (Whole(w) => Whole(v))
      /\ v.con = cn
  BY SensibleLinked
<1>2. ~v.con.connecting /\ ~v.con.connected
  BY <1>1 DEF Sensible
<1> HIDE DEF v
<1>3. \A x \in Attempt(v) : Tried(v, x)
  BY <1>1, <1>2, AttemptTried
<1>4. \A x \in Attempt(v) : Tried(w, x)
  BY <1>1, <1>3 DEF Tried
<1>5. QED
  BY <1>1, <1>4 DEF Tried, v

\* serviceConnect.
LEMMA ServiceConnectTried ==
  ASSUME NEW w \in Worlds, Linked(w), ~w.con.connecting, ~w.con.connected,
         NEW x \in ServiceConnect(w)
  PROVE  Tried(w, x)
<1> DEFINE e == w.room  b == w.clients  d == w.connections
           u == w.files y == w.interest z == w.status   h == w.con
           next == IF h.try_addr \in 1..(NumAddr - 1) THEN h.try_addr + 1 ELSE 0
           idle == [w EXCEPT !.con.try_addr = 0]
           launch  == [idle EXCEPT !.con.addr_info = FALSE, !.con.in_progress = TRUE,
                                   !.con.thread = "running"]
           failed  == [idle EXCEPT !.con.addr_info = FALSE]
           joined  == [idle EXCEPT !.con.in_progress = FALSE, !.con.thread = "none",
                                   !.con.gai_error = FALSE]
           First(r) == [r EXCEPT !.con.try_addr = 1]
           nx == [w EXCEPT !.con.try_addr = next]
<1>1. w = [files |-> u, interest |-> y, status |-> z, room |-> e, clients |-> b,
           connections |-> d, con |-> h]
  BY WorldTypes
<1>2. \/ next # 0 /\ x \in Attempt(nx)
      \/ next = 0 /\ h.in_progress /\ x = idle
      \/ next = 0 /\ h.in_progress /\ h.thread = "done" /\ x = joined
      \/ next = 0 /\ h.in_progress /\ h.thread = "done" /\ ~h.gai_error
            /\ x \in Attempt(First(joined))
      \/ next = 0 /\ ~h.in_progress /\ x \in {launch, failed}
      \/ next = 0 /\ ~h.in_progress /\ h.addr_info /\ x \in Attempt(First(idle))
  <2> HIDE DEF idle, launch, failed, joined, nx, First
  <2>1. x \in (IF next # 0 THEN Attempt(nx)
               ELSE IF h.in_progress
               THEN IF h.thread # "done" THEN {idle}
                    ELSE IF h.gai_error THEN {joined} ELSE Attempt(First(joined))
               ELSE (IF up THEN {launch} ELSE {launch, failed})
                     \union (IF h.addr_info THEN Attempt(First(idle)) ELSE {}))
    BY DEF ServiceConnect, idle, launch, failed, joined, nx, First
  <2> HIDE DEF next, h
  <2>2. QED
    BY <2>1
<1>3. h \in ConRec /\ Connector(w) /\ NumAddr \in Nat /\ 1 \in 0..NumAddr
  BY WorldTypes, Constants DEF Linked
<1>4. next \in 0..NumAddr /\ (next # 0 => h.try_addr # 0)
  <2>1. h.try_addr \in 0..NumAddr
    BY <1>3 DEF ConRec
  <2> HIDE DEF h
  <2>2. QED
    BY <1>3, <2>1
<1>5. /\ h.try_addr # 0 => h.addr_info /\ ~h.in_progress
      /\ h.thread # "none" => h.in_progress
      /\ h.thread = "done" => h.addr_info \/ h.gai_error
  BY <1>3 DEF Connector
<1> DEFINE c0 == [h EXCEPT !.try_addr = 0]
           c1 == [h EXCEPT !.try_addr = next]
           c2 == [h EXCEPT !.try_addr = 0, !.addr_info = FALSE, !.in_progress = TRUE,
                           !.thread = "running"]
           c3 == [h EXCEPT !.try_addr = 0, !.addr_info = FALSE]
           c4 == [h EXCEPT !.try_addr = 0, !.in_progress = FALSE, !.thread = "none",
                           !.gai_error = FALSE]
           c5 == [h EXCEPT !.try_addr = 1, !.in_progress = FALSE, !.thread = "none",
                           !.gai_error = FALSE]
           c6 == [h EXCEPT !.try_addr = 1]
<1> HIDE DEF u, y, z, e, b, d, h, next
<1>6. /\ idle = WithCon(w, c0) /\ nx = WithCon(w, c1) /\ launch = WithCon(w, c2)
      /\ failed = WithCon(w, c3) /\ joined = WithCon(w, c4)
      /\ First(joined) = WithCon(w, c5) /\ First(idle) = WithCon(w, c6)
  <2>1. idle = WithCon(w, c0) /\ nx = WithCon(w, c1)
    BY <1>1 DEF WithCon
  <2>2. launch = WithCon(w, c2)
    BY <1>1, <1>3 DEF WithCon, ConRec
  <2>3. failed = WithCon(w, c3)
    BY <1>1, <1>3 DEF WithCon, ConRec
  <2>4. joined = WithCon(w, c4)
    BY <1>1, <1>3 DEF WithCon, ConRec
  <2>5. First(joined) = WithCon(w, c5)
    <3>1. c5 = [c4 EXCEPT !.try_addr = 1]
      BY <1>3 DEF ConRec
    <3> HIDE DEF c4, c5
    <3>2. joined = [files |-> u, interest |-> y, status |-> z, room |-> e, clients |-> b,
                    connections |-> d, con |-> c4]
      BY <1>1, <2>4 DEF WithCon
    <3> HIDE DEF joined
    <3>3. First(joined) = [files |-> u, interest |-> y, status |-> z, room |-> e, clients |-> b,
                           connections |-> d, con |-> [c4 EXCEPT !.try_addr = 1]]
      BY <3>2
    <3>4. QED
      BY <1>1, <3>1, <3>3 DEF WithCon
  <2>6. First(idle) = WithCon(w, c6)
    BY <1>1, <1>3 DEF WithCon, ConRec
  <2>7. QED
    BY <2>1, <2>2, <2>3, <2>4, <2>5, <2>6
<1>7. Sensible(w, c0)
  BY <1>3, <1>5 DEF Sensible, ConRec, h
<1>8. next # 0 => Sensible(w, c1)
  BY <1>3, <1>4, <1>5 DEF Sensible, ConRec, h
<1>9. ~h.in_progress => Sensible(w, c2) /\ Sensible(w, c3)
  <2>1. Sensible(w, c2)
    <3>1. /\ c2 \in ConRec /\ c2.fd = h.fd /\ c2.connecting = h.connecting
          /\ c2.connected = h.connected /\ c2.c = h.c
      <4>1. h \in ConRec /\ 0 \in 0..NumAddr
        BY <1>3
      <4>2. c2 \in ConRec
        <5> DEFINE no == FALSE   n == 0   yes == TRUE   run == "running"
        <5>1. /\ no \in BOOLEAN /\ n \in 0..NumAddr /\ yes \in BOOLEAN
              /\ run \in {"none", "running", "done"}
          BY <4>1
        <5>2. c2 = [h EXCEPT !.try_addr = n, !.addr_info = no, !.in_progress = yes, !.thread = run]
          OBVIOUS
        <5> HIDE DEF no, n, yes, run, c2
        <5>3. QED
          BY <4>1, <5>1, <5>2 DEF ConRec
      <4>3. /\ c2.fd = h.fd /\ c2.connecting = h.connecting
            /\ c2.connected = h.connected /\ c2.c = h.c
        BY <4>1, SMTT(30) DEF ConRec
      <4>4. QED
        BY <4>2, <4>3
    <3>2. c2.try_addr = 0 /\ c2.in_progress /\ c2.thread = "running"
      BY <1>3 DEF ConRec
    <3> HIDE DEF c2
    <3>3. QED
      BY <3>1, <3>2 DEF Sensible, h
  <2>2. ~h.in_progress => Sensible(w, c3)
    <3>1. /\ c3 \in ConRec /\ c3.fd = h.fd /\ c3.connecting = h.connecting
          /\ c3.connected = h.connected /\ c3.c = h.c
      <4>1. h \in ConRec /\ 0 \in 0..NumAddr
        BY <1>3
      <4>2. c3 \in ConRec
        <5> DEFINE no == FALSE   n == 0   yes == TRUE   run == "running"
        <5>1. /\ no \in BOOLEAN /\ n \in 0..NumAddr /\ yes \in BOOLEAN
              /\ run \in {"none", "running", "done"}
          BY <4>1
        <5>2. c3 = [h EXCEPT !.try_addr = n, !.addr_info = no]
          OBVIOUS
        <5> HIDE DEF no, n, yes, run, c3
        <5>3. QED
          BY <4>1, <5>1, <5>2 DEF ConRec
      <4>3. /\ c3.fd = h.fd /\ c3.connecting = h.connecting
            /\ c3.connected = h.connected /\ c3.c = h.c
        BY <4>1, SMTT(30) DEF ConRec
      <4>4. QED
        BY <4>2, <4>3
    <3>2. c3.try_addr = 0 /\ c3.in_progress = h.in_progress /\ c3.thread = h.thread
      BY <1>3 DEF ConRec
    <3> HIDE DEF c3
    <3>3. QED
      BY <1>5, <3>1, <3>2 DEF Sensible, h
  <2>3. QED
    BY <2>1, <2>2
<1>10. h.in_progress /\ h.thread = "done" => Sensible(w, c4)
  BY <1>3, <1>5 DEF Sensible, ConRec, h
<1>11. h.in_progress /\ h.thread = "done" /\ ~h.gai_error => Sensible(w, c5)
  BY <1>3, <1>5 DEF Sensible, ConRec, h
<1>12. ~h.in_progress /\ h.addr_info => Sensible(w, c6)
  BY <1>3, <1>5 DEF Sensible, ConRec, h
<1> HIDE DEF c0, c1, c2, c3, c4, c5, c6, idle, launch, failed, joined, nx, First
<1>13. \A cn : Sensible(w, cn) => /\ Tried(w, WithCon(w, cn))
                                  /\ \A r \in Attempt(WithCon(w, cn)) : Tried(w, r)
  BY SensibleTried
<1>14. QED
  BY <1>2, <1>6, <1>7, <1>8, <1>9, <1>10, <1>11, <1>12, <1>13

-----------------------------------------------------------------------------
(* A connection that was accepted, or that the connector made.             *)

\* What a handler leaves that may create a client: n units were flushed.
After(w, x, n) ==
    /\ x \in Worlds
    /\ \A t \in Slots : w.clients[t] # Nil => x.clients[t] # Nil
    /\ Linked(x)
    /\ Streams(x, n)

\* Greeting the client after that.
LEMMA GreetAfter ==
  ASSUME NEW w, NEW n, NEW x, After(w, x, n), NEW s \in Open(x), NEW y \in Greet(x, s)
  PROVE  After(w, y, n) /\ (Whole(x) => Whole(y)) /\ y.clients[s] \in ClientRec
         /\ (x.con.connecting => y.con.connecting)
<1>1. Fed(x, y, s, Stream(x.clients[s]), x.clients[s].from)
  BY GreetFed DEF After
<1>2. Streams(y, n) /\ y \in Worlds
  BY <1>1, FedStreams DEF After
<1>3. QED
  BY <1>1, <1>2 DEF After, Fed, Keeps

\* As before, for the heartbeats.
LEMMA HeartbeatsAfter ==
  ASSUME NEW w, NEW n, NEW x, After(w, x, n), NEW s \in Open(x), NEW y \in FiveHeartbeats(x, s)
  PROVE  After(w, y, n) /\ (Whole(x) => Whole(y)) /\ (x.con.connecting => y.con.connecting)
<1>1. CASE y = x
  BY <1>1
<1>2. CASE y \in Greet(x, s)
  BY <1>2, GreetAfter
<1>3. QED
  BY <1>1, <1>2 DEF FiveHeartbeats

\* the world once the connector's attempt succeeded
Connected(w, s, wr) ==
    [Created(w, s, w.con.fd, wr) EXCEPT
        !.con.connecting = FALSE, !.con.connected = TRUE, !.con.c = s, !.con.fd = 0,
        !.clients[s].con = TRUE]

\* It has one client more, the connector's.
LEMMA ConnectedAdded ==
  ASSUME NEW w \in Worlds, Linked(w), w.con.connecting, NEW s \in Slots, NEW wr, Buffered(wr)
  PROVE  Added(w, Connected(Forget(w, w.con.fd), s, wr), s, w.con.fd, w.files[w.con.fd],
               Mine(NewClient(w.con.fd, wr)))
<1> DEFINE f == w.con.fd   v == Forget(w, f)   p == Created(v, s, f, wr)
           old == NewClient(f, wr)   new == Mine(old)
           no == FALSE   yes == TRUE
           cn == [w.con EXCEPT !.connecting = FALSE, !.connected = TRUE, !.c = s, !.fd = 0]
           x == Connected(v, s, wr)
<1>1. f \in Fds
  BY DEF Linked, Connector
<1>2. /\ v \in Worlds /\ v.files = w.files /\ v.interest = [w.interest EXCEPT ![f] = Null]
      /\ v.clients = w.clients /\ v.connections = w.connections /\ v.con = w.con
  BY ForgetTypes
<1>3. /\ p \in Worlds /\ p.files = v.files /\ p.interest = [v.interest EXCEPT ![f] = s]
      /\ p.clients = [v.clients EXCEPT ![s] = old]
      /\ p.connections = v.connections + 1 /\ p.con = v.con
  <2> HIDE DEF v, f
  <2>1. QED
    BY <1>1, <1>2, CreatedTypes
<1>4. /\ new \in ClientRec /\ new.fd = f /\ new.service /\ new.con
      /\ new = [old EXCEPT !.con = TRUE]
  <2>1. old \in ClientRec /\ old.fd = f /\ old.service
    BY <1>1, NewClientTypes
  <2> HIDE DEF old, f
  <2>2. new \in ClientRec /\ new.fd = f /\ new.service /\ new.con
    BY <2>1, MineTypes
  <2>3. QED
    BY <2>2 DEF Mine
<1>5. cn \in ConRec
  <2> DEFINE h == w.con   n == 0
  <2>1. h \in ConRec /\ s \in Slots \union {0} /\ n \in Fds \union {0}
        /\ no \in BOOLEAN /\ yes \in BOOLEAN
    BY WorldTypes
  <2>2. cn = [h EXCEPT !.connecting = no, !.connected = yes, !.c = s, !.fd = n]
    OBVIOUS
  <2> HIDE DEF h, n, no, yes, cn
  <2>3. QED
    BY <2>1, <2>2 DEF ConRec
<1>6. x = [p EXCEPT !.con.connecting = FALSE, !.con.connected = TRUE, !.con.c = s, !.con.fd = 0,
                    !.clients[s].con = TRUE]
  BY <1>2 DEF Connected
<1> DEFINE e == p.room  b == p.clients  d == p.connections
           u == p.files y == p.interest z == p.status   h == p.con
           cs == [b EXCEPT ![s] = [b[s] EXCEPT !.con = TRUE]]
           hs == [h EXCEPT !.connecting = FALSE, !.connected = TRUE, !.c = s, !.fd = 0]
<1>7. p = [files |-> u, interest |-> y, status |-> z, room |-> e, clients |-> b,
           connections |-> d, con |-> h]
  <2> HIDE DEF p
  <2>1. QED
    BY <1>3, WorldTypes
<1> HIDE DEF p, v, u, y, z, e, b, d, h
<1>8. x = [files |-> u, interest |-> y, status |-> z, room |-> e, clients |-> cs,
           connections |-> d, con |-> hs]
  <2> HIDE DEF x
  <2> DEFINE n == 0
             p1 == [p EXCEPT !.con.connecting = no, !.con.connected = yes, !.con.c = s, !.con.fd = n]
             h1 == [h EXCEPT !.connecting = no, !.connected = yes, !.c = s, !.fd = n]
             c1 == [b EXCEPT ![s] = [b[s] EXCEPT !.con = yes]]
  <2>1. x = [p1 EXCEPT !.clients[s].con = yes]
    BY <1>6
  <2> HIDE DEF no, yes, n, cn
  <2>2. p1 = [files |-> u, interest |-> y, status |-> z, room |-> e, clients |-> b,
              connections |-> d, con |-> h1]
    <3>1. h \in ConRec
      BY <1>3, WorldTypes DEF h
    <3>2. p1 = WithCon(p, h1)
      BY <1>7, <3>1 DEF ConRec, WithCon
    <3> HIDE DEF p1, h1
    <3>3. QED
      BY <1>7, <3>2 DEF WithCon
  <2> HIDE DEF p1, h1
  <2>3. x = [files |-> u, interest |-> y, status |-> z, room |-> e, clients |-> c1,
             connections |-> d, con |-> h1]
    BY <2>1, <2>2
  <2>4. QED
    BY <2>3 DEF h1, n, no, yes
<1>9. hs = cn
  BY <1>2, <1>3 DEF h
<1>10. cs = [w.clients EXCEPT ![s] = new]
  <2>1. b[s] = old /\ b = [w.clients EXCEPT ![s] = old]
    BY <1>2, <1>3, WorldTypes DEF b
  <2> HIDE DEF old, new
  <2>2. QED
    BY <1>4, <2>1
<1>11. u = w.files /\ d = w.connections + 1 /\ y = [w.interest EXCEPT ![f] = s]
  BY <1>2, <1>3, WorldTypes DEF u, d, y
<1>12. w.files = [w.files EXCEPT ![f] = w.files[f]]
  BY <1>1, WorldTypes
<1>13. cs \in [Slots -> ClientRec \union {Nil}]
  BY <1>4, <1>10, WorldTypes
<1> HIDE DEF x, cs, hs, cn, new
<1>14. x \in Worlds
  BY <1>3, <1>5, <1>8, <1>9, <1>13, WorldTypes DEF Worlds, u, y, z, e, d
<1>15. x.files = u /\ x.interest = y /\ x.connections = d /\ x.con = hs /\ x.clients = cs
  BY <1>8
<1>16. Added(w, x, s, f, w.files[f], new)
  BY <1>4, <1>9, <1>10, <1>11, <1>12, <1>14, <1>15 DEF Added, cn
<1>17. QED
  BY <1>16 DEF x, new, v

\* What checkServiceConnected leads to.
LEMMA EstablishedAfter ==
  ASSUME NEW w \in Worlds, Linked(w), w.con.connecting, NEW s \in Slots, w.clients[s] = Nil,
         NEW wr, Buffered(wr), Streams(w, FlushedUpto(wr)),
         NEW x \in Established(Forget(w, w.con.fd), s, wr)
  PROVE  After(w, x, FlushedUpto(wr)) /\ (Whole(w) => Whole(x)) /\ x.clients[s] \in ClientRec
<1> DEFINE f == w.con.fd   cl == Mine(NewClient(f, wr))   p == Connected(Forget(w, f), s, wr)
<1>1. f \in Fds
  BY DEF Linked, Connector
<1>2. Added(w, p, s, f, w.files[f], cl)
  BY ConnectedAdded
<1>3. cl \in ClientRec /\ InStream(cl, FlushedUpto(wr)) /\ cl.con
  <2>1. NewClient(f, wr) \in ClientRec /\ InStream(NewClient(f, wr), FlushedUpto(wr))
    BY <1>1, NewClientTypes
  <2>2. QED
    BY <2>1, MineTypes
<1>4. x = p \/ x \in Greet(p, s)
  BY DEF Established, Connected
<1> HIDE DEF p, cl
<1>5. Linked(p) /\ p \in Worlds
  <2> DEFINE k == w.files[f]
  <2>1. Added(w, p, s, f, k, cl)
    BY <1>2
  <2> HIDE DEF f, k
  <2>2. Linked(p)
    BY <1>1, <2>1, AddedLinked
  <2>3. QED
    BY <2>1, <2>2 DEF Added
<1> DEFINE k == w.files[f]   n == FlushedUpto(wr)
<1>6. After(w, p, n) /\ s \in Open(p)
  <2>1. Streams(w, n) /\ InStream(cl, n) /\ Added(w, p, s, f, k, cl)
    BY <1>2, <1>3
  <2> HIDE DEF n, f, k
  <2>2. Streams(p, n) /\ s \in Open(p) /\ \A t \in Slots : w.clients[t] # Nil => p.clients[t] # Nil
    BY <1>1, <2>1, AddedStreams
  <2>3. QED
    BY <1>5, <2>2 DEF After
<1>7. Whole(w) => Whole(p)
  <2>1. ASSUME Whole(w)
        PROVE  Whole(p)
    <3>1. w.files[f] # Free /\ w.interest[f] = DummyClient
      BY <2>1 DEF Whole
    <3>2. f # ListenFd
      BY <2>1, <3>1 DEF Whole, DummyClient, ListenSocket
    <3>3. w.files[f] # Listen
      BY <1>1, <2>1, <3>2 DEF Whole
    <3>4. f \in Fds \ {ListenFd}
      BY <1>1, <3>2
    <3> HIDE DEF f
    <3>5. QED
      BY <1>2, <1>3, <2>1, <3>1, <3>3, <3>4, AddedWhole
  <2>2. QED
    BY <2>1
<1>8. CASE x = p
  BY <1>2, <1>6, <1>7, <1>8, OpenTypes DEF After
<1>9. CASE x \in Greet(p, s)
  BY <1>6, <1>7, <1>9, GreetAfter
<1>10. QED
  BY <1>4, <1>8, <1>9

\* the world after accept() returned f for the connection k
Accepted(w, f, k) ==
    [w EXCEPT !.files[f] = k, !.room[k] = TRUE,
              !.status[k] = IF @ = "queued" THEN "open" ELSE "gone"]

\* What that changes.
LEMMA AcceptedTypes ==
  ASSUME NEW w \in Worlds, NEW f \in Fds, NEW k \in Conns
  PROVE  /\ Accepted(w, f, k) \in Worlds
         /\ Accepted(w, f, k).files = [w.files EXCEPT ![f] = k]
         /\ Accepted(w, f, k).interest = w.interest /\ Accepted(w, f, k).clients = w.clients
         /\ Accepted(w, f, k).connections = w.connections /\ Accepted(w, f, k).con = w.con
<1> DEFINE e == w.room  b == w.clients  d == w.connections
           u == w.files y == w.interest z == w.status   h == w.con
           yes == TRUE   st == IF z[k] = "queued" THEN "open" ELSE "gone"
           us == [u EXCEPT ![f] = k]   es == [e EXCEPT ![k] = yes]   zs == [z EXCEPT ![k] = st]
           x == Accepted(w, f, k)
<1>1. w = [files |-> u, interest |-> y, status |-> z, room |-> e, clients |-> b,
           connections |-> d, con |-> h]
  BY WorldTypes
<1>2. us \in [Fds -> Conns \union {Free, Listen}] /\ es \in [Conns -> BOOLEAN]
      /\ zs \in [Conns -> Statuses]
  <2>1. st \in Statuses /\ yes \in BOOLEAN
    BY DEF Statuses
  <2> HIDE DEF st, yes
  <2>2. QED
    BY <2>1, WorldTypes
<1>3. x = [w EXCEPT !.files[f] = k, !.room[k] = yes, !.status[k] = st]
  BY DEF Accepted
<1> HIDE DEF x, u, y, z, e, b, d, h, st, yes
<1>4. x = [files |-> us, interest |-> y, status |-> zs, room |-> es, clients |-> b,
           connections |-> d, con |-> h]
  BY <1>1, <1>3
<1> HIDE DEF us, es, zs
<1>5. x \in Worlds
  BY <1>2, <1>4, WorldTypes DEF Worlds, y, b, d, h
<1>6. x.files = us /\ x.interest = y /\ x.connections = d /\ x.con = h /\ x.clients = b
  BY <1>4
<1>7. QED
  BY <1>5, <1>6 DEF x, us, y, d, h, b, u

\* Less is reported than before, but to the same clients.
LEMMA FewerLinked ==
  ASSUME NEW w, NEW x, Linked(w), x.clients = w.clients, x.connections = w.connections,
         x.con = w.con, \A g \in Fds : x.interest[g] \in {w.interest[g], Null}
  PROVE  Linked(x)
<1>1. Open(x) = Open(w)
  BY DEF Open
<1>2. Null \notin Slots /\ Null # DummyClient
  BY Constants DEF Null, DummyClient
<1>3. \A f \in Fds : Reported(x, f)
  BY <1>1, <1>2 DEF Linked, Reported
<1>4. Connector(x)
  BY <1>1 DEF Linked, Connector
<1>5. QED
  BY <1>1, <1>3, <1>4 DEF Linked

\* Whatever is closed, less is reported.
LEMMA CloseFdFewer ==
  ASSUME NEW w \in Worlds, NEW f
  PROVE  \A g \in Fds : CloseFd(w, f).interest[g] \in {w.interest[g], Null}
<1> DEFINE st == [k \in Conns |->
                        IF \/ k = w.files[f]
                           \/ w.files[f] = Listen /\ w.status[k] \in {"queued", "aborted"}
                        THEN "idle" ELSE w.status[k]]
           fs == [w.files EXCEPT ![f] = Free]
           is == [w.interest EXCEPT ![f] = Null]
           a == w.room  b == w.clients  d == w.connections  e == w.con
           x == w.files y == w.interest z == w.status
<1>1. w = [files |-> x, interest |-> y, status |-> z, room |-> a, clients |-> b,
           connections |-> d, con |-> e]
  BY WorldTypes
<1>2. CASE f = 0 \/ w.files[f] = Free
  BY <1>2 DEF CloseFd
<1>3. CASE ~(f = 0 \/ w.files[f] = Free)
  <2>1. CloseFd(w, f) = [files |-> fs, interest |-> is, status |-> st, room |-> a, clients |-> b,
                         connections |-> d, con |-> e]
    BY <1>1, <1>3 DEF CloseFd
  <2>2. \A g \in Fds : is[g] \in {w.interest[g], Null}
    BY WorldTypes
  <2> HIDE DEF st, fs, is
  <2>3. QED
    BY <2>1, <2>2
<1>4. QED
  BY <1>2, <1>3

\* The client for a connection that was accepted, after perhaps the descriptor q was closed.
LEMMA AcceptAfter ==
  ASSUME NEW w \in Worlds, Linked(w), NEW s \in Slots, w.clients[s] = Nil, NEW f \in Fds,
         w.files[f] = Free, NEW k \in Conns, NEW wr, Buffered(wr), Streams(w, FlushedUpto(wr)),
         NEW v, NEW q, v = Accepted(w, f, k) \/ v = CloseFd(Accepted(w, f, k), q)
  PROVE  /\ After(w, Created(v, s, f, wr), FlushedUpto(wr))
         /\ s \in Open(Created(v, s, f, wr)) /\ Created(v, s, f, wr).con = w.con
         /\ v = Accepted(w, f, k) /\ Whole(w) => Whole(Created(v, s, f, wr))
<1> DEFINE a == Accepted(w, f, k)   cl == NewClient(f, wr)   x == Created(v, s, f, wr)
<1>1. /\ a \in Worlds /\ a.files = [w.files EXCEPT ![f] = k]
      /\ a.interest = w.interest /\ a.clients = w.clients
      /\ a.connections = w.connections /\ a.con = w.con
  BY AcceptedTypes
<1>2. /\ v \in Worlds /\ v.clients = w.clients /\ v.connections = w.connections /\ v.con = w.con
      /\ \A g \in Fds : v.interest[g] \in {w.interest[g], Null}
  <2> HIDE DEF a
  <2>1. CASE v = a
    BY <1>1, <2>1
  <2>2. CASE v = CloseFd(a, q)
    BY <1>1, <2>2, CloseFdTypes, CloseFdFewer
  <2>3. QED
    BY <2>1, <2>2 DEF a
<1>3. Linked(v)
  BY <1>2, FewerLinked
<1>4. /\ x \in Worlds /\ x.files = v.files
      /\ x.interest = [v.interest EXCEPT ![f] = s]
      /\ x.clients = [v.clients EXCEPT ![s] = cl]
      /\ x.connections = v.connections + 1 /\ x.con = v.con
  BY <1>2, CreatedTypes
<1>5. cl \in ClientRec /\ cl.fd = f /\ cl.service /\ ~cl.con /\ InStream(cl, FlushedUpto(wr))
  BY NewClientTypes
<1> HIDE DEF x, cl
<1>6. Added(v, x, s, f, v.files[f], cl)
  <2>1. v.files = [v.files EXCEPT ![f] = v.files[f]]
    BY <1>2, WorldTypes
  <2>2. QED
    BY <1>4, <1>5, <2>1 DEF Added
<1>7. Linked(x)
  BY <1>2, <1>3, <1>6, AddedLinked
<1>8. Streams(v, FlushedUpto(wr))
  BY <1>2 DEF Streams, Open
<1>9. /\ Streams(x, FlushedUpto(wr)) /\ s \in Open(x)
      /\ \A t \in Slots : v.clients[t] # Nil => x.clients[t] # Nil
  BY <1>2, <1>5, <1>6, <1>8, AddedStreams
<1>10. ASSUME v = a, Whole(w)
       PROVE  Whole(x)
  <2>1. Added(w, x, s, f, k, cl)
    BY <1>1, <1>4, <1>5, <1>10 DEF Added
  <2>2. k # Free /\ k # Listen /\ f # ListenFd
    BY <1>10, Constants DEF Whole
  <2>3. f \in Fds \ {ListenFd}
    BY <2>2
  <2>4. QED
    BY <1>10, <2>1, <2>2, <2>3, AddedWhole
<1>11. QED
  BY <1>2, <1>4, <1>7, <1>9, <1>10 DEF After, x

-----------------------------------------------------------------------------
(* The steps.                                                              *)

\* The events still to be handled are of memory in use; one at most is the connector's.
EventsOk(w, es) ==
    /\ \A e \in es : /\ e.ptr \in Slots => w.clients[e.ptr] # Nil
                     /\ e.ptr = DummyClient => w.con.connecting
    /\ \A e, d \in es : e.ptr = DummyClient /\ d.ptr = DummyClient => e = d

\* the phases after the events of a pass
Quiet == {"flush", "reconnect", "wait"}

\* w is sound, the first n units having been flushed
Fine(w, n) == w \in Worlds /\ Linked(w) /\ Streams(w, n)

\* the inductive invariant
IInv ==
    /\ Fine(World, FlushedUpto(writer)) /\ Buffered(writer)
    /\ EventsOk(World, events)
    /\ phase \in Quiet => events = {}

\* no more clients than modesAcceptClients takes
BelowLimit == connections <= max_fds_net

\* The variables after a handler.
LEMMA BecomesWorld ==
  ASSUME NEW x \in Worlds, Becomes(x)
  PROVE  World' = x
<1>1. x = [files |-> x.files, interest |-> x.interest, status |-> x.status, room |-> x.room,
           clients |-> x.clients, connections |-> x.connections, con |-> x.con]
  BY WorldTypes
<1>2. World' = [files |-> x.files, interest |-> x.interest, status |-> x.status, room |-> x.room,
                clients |-> x.clients, connections |-> x.connections, con |-> x.con]
  BY DEF Becomes, World
<1>3. QED
  BY <1>1, <1>2

\* The invariant after a handler.
LEMMA Moves ==
  ASSUME NEW x, Fine(x, FlushedUpto(writer')), Becomes(x), Buffered(writer'), EventsOk(x, events'),
         phase' \in Quiet => events' = {}, BelowLimit /\ Whole(World) => Whole(x)
  PROVE  IInv' /\ (BelowLimit /\ Whole(World) => Whole(World'))
<1>1. World' = x
  BY BecomesWorld DEF Fine
<1>2. QED
  BY <1>1 DEF IInv

\* What the variables refer to when nothing was handled.
LEMMA Still ==
  ASSUME IInv
  PROVE  World \in Worlds /\ Linked(World) /\ Streams(World, FlushedUpto(writer))
         /\ Buffered(writer) /\ World.con = con /\ World.clients = clients
         /\ World.interest = interest /\ World.connections = connections /\ World.files = files
BY DEF IInv, Fine, World

\* Events that are left after others, when clients were only closed.
LEMMA EventsKept ==
  ASSUME NEW w, NEW es, EventsOk(w, es), NEW x, NEW fs, fs \subseteq es,
         \A t \in Slots : w.clients[t] # Nil => x.clients[t] # Nil,
         (w.con.connecting => x.con.connecting) \/ \A e \in fs : e.ptr # DummyClient
  PROVE  EventsOk(x, fs)
BY DEF EventsOk

\* Events that are left after the connector's.
LEMMA EventsLeft ==
  ASSUME NEW w, NEW es, EventsOk(w, es), NEW e \in es, e.ptr = DummyClient, NEW x,
         \A t \in Slots : w.clients[t] # Nil => x.clients[t] # Nil
  PROVE  EventsOk(x, es \ {e})
<1>1. \A d \in es \ {e} : d.ptr # DummyClient
  BY DEF EventsOk
<1>2. QED
  BY <1>1 DEF EventsOk

\* Nothing is connected at first.
LEMMA InitInv == Init => IInv /\ Whole(World)
<1> SUFFICES ASSUME Init
             PROVE  IInv /\ Whole(World)
  OBVIOUS
<1>1. World \in Worlds
  <2>1. con \in ConRec
    BY Constants DEF Init, ConRec
  <2>2. files \in [Fds -> Conns \union {Free, Listen}] /\ interest \in [Fds -> Pointers]
        /\ status \in [Conns -> Statuses] /\ room \in [Conns -> BOOLEAN]
        /\ clients \in [Slots -> ClientRec \union {Nil}] /\ connections \in Int
    BY DEF Init, Statuses, Pointers
  <2>3. QED
    BY <2>1, <2>2 DEF World, Worlds
<1>2. /\ World.files = files /\ World.interest = interest /\ World.clients = clients
      /\ World.connections = connections /\ World.con = con
  BY DEF World
<1>3. Open(World) = {}
  BY <1>2 DEF Open, Init
<1>4. /\ ListenSocket # DummyClient /\ ListenSocket \notin Slots /\ Null \notin Slots
      /\ Null # DummyClient /\ Null # ListenSocket /\ Free # Listen /\ ListenFd \in Fds
  BY Constants DEF ListenSocket, DummyClient, Null
<1>5. Linked(World)
  <2>1. \A f \in Fds : Reported(World, f)
    BY <1>2, <1>4 DEF Init, Reported
  <2>2. Connector(World)
    BY <1>2 DEF Init, Connector
  <2>3. \A s \in Slots : World.clients[s] = Nil
    BY <1>2 DEF Init
  <2>4. World.connections = Cardinality(Open(World))
    BY <1>2, <1>3, FS_EmptySet DEF Init
  <2>5. QED
    BY <1>3, <2>1, <2>2, <2>3, <2>4 DEF Linked
<1>6. Whole(World)
  BY <1>2, <1>3, <1>4 DEF Init, Whole
<1>7. Buffered(writer)
  <2>1. writer \in [data : Seq(Nat), units : Nat] /\ writer.data = <<>> /\ writer.units = 0
    BY DEF Init
  <2>2. Numbered(writer.data) = <<>> /\ Len(<<>>) = 0 /\ [i \in 1..0 |-> 0 - 0 + i] = <<>>
    BY <2>1, NumberedEmpty
  <2>3. QED
    BY <2>1, <2>2 DEF Buffered
<1>8. Streams(World, FlushedUpto(writer))
  BY <1>3 DEF Streams
<1>9. EventsOk(World, events) /\ events = {}
  BY DEF Init, EventsOk
<1>10. QED
  BY <1>1, <1>5, <1>6, <1>7, <1>8, <1>9 DEF IInv, Fine

\* Handlers of the loop that change no client.
LEMMA LoopStep ==
  ASSUME IInv, OutputEnds \/ SkipClosed \/ AcceptEvent \/ AcceptEnds \/ EventsEnd \/ NetworkRecovers
  PROVE  IInv' /\ (BelowLimit /\ Whole(World) => Whole(World'))
<1>1. World \in Worlds /\ Linked(World) /\ Streams(World, FlushedUpto(writer)) /\ Buffered(writer)
  BY Still
<1>2. writer' = writer /\ UNCHANGED <<sockets, objects>> /\ events' \subseteq events
      /\ (phase' \in Quiet => events' = {})
  BY DEF OutputEnds, SkipClosed, AcceptEvent, AcceptEnds, EventsEnd, NetworkRecovers, loop, Quiet,
         IInv
<1>3. World' = World
  BY <1>2 DEF World, sockets, objects
<1>4. EventsOk(World, events')
  BY <1>2, EventsKept DEF IInv
<1>5. QED
  BY <1>1, <1>2, <1>3, <1>4 DEF IInv, Fine

\* epoll_wait, perhaps after closed clients were freed.
LEMMA EpollWaitStep ==
  ASSUME IInv, EpollWait
  PROVE  IInv' /\ (BelowLimit /\ Whole(World) => Whole(World'))
<1>1. /\ World \in Worlds /\ Linked(World) /\ Streams(World, FlushedUpto(writer))
      /\ Buffered(writer) /\ World.con = con /\ World.clients = clients
      /\ World.interest = interest /\ World.files = files
  BY Still
<1>2. clients \in [Slots -> ClientRec \union {Nil}] /\ interest \in [Fds -> Pointers]
  BY <1>1, WorldTypes
<1>3. clients' \in [Slots -> ClientRec \union {Nil}]
      /\ \A t \in Slots : \/ clients'[t] = clients[t]
                          \/ clients'[t] = Nil /\ clients[t].fd = 0
  <2>1. CASE clients' = clients
    BY <1>2, <2>1
  <2>2. CASE clients' = FreeClients(clients)
    BY <1>2, <2>2 DEF FreeClients
  <2>3. QED
    BY <2>1, <2>2 DEF EpollWait
<1>4. /\ files' = files /\ interest' = interest /\ status' = status /\ room' = room
      /\ connections' = connections /\ con' = con /\ writer' = writer
      /\ phase' = "output"
  BY DEF EpollWait, sockets
<1>5. World' \in Worlds
  <2>1. World' = [files |-> files, interest |-> interest, status |-> status, room |-> room,
                  clients |-> clients', connections |-> connections, con |-> con]
    BY <1>4 DEF World
  <2>2. /\ files \in [Fds -> Conns \union {Free, Listen}] /\ status \in [Conns -> Statuses]
        /\ room \in [Conns -> BOOLEAN] /\ connections \in Int /\ con \in ConRec
    BY <1>1, WorldTypes DEF World
  <2>3. QED
    BY <1>2, <1>3, <2>1, <2>2 DEF Worlds
<1>6. /\ World'.files = files /\ World'.interest = interest /\ World'.clients = clients'
      /\ World'.connections = connections /\ World'.con = con
  BY <1>4 DEF World
<1> DEFINE x == World'
<1> HIDE DEF x
<1>7. \A t \in Slots : /\ x.clients[t] # Nil => x.clients[t] = World.clients[t]
                       /\ t \in Open(World) => x.clients[t] = World.clients[t]
  BY <1>1, <1>3, <1>6 DEF x, Linked, Open
<1>8. Open(x) = Open(World)
  BY <1>7 DEF Open
<1>9. Alike(World, x)
  <2>1. World.connections = connections
    BY DEF World
  <2>2. QED
    BY <1>1, <1>6, <1>7, <1>8, <2>1 DEF Alike, x
<1>10. Linked(x) /\ (Whole(World) => Whole(x))
  BY <1>1, <1>9, AlikeLinked
<1>11. Streams(x, FlushedUpto(writer))
  BY <1>1, <1>7, <1>8 DEF Streams, Open
<1>12. EventsOk(x, events')
  <2>1. \A e \in events' : \E f \in Fds : e = Event(f)
    BY DEF EpollWait
  <2>2. ASSUME NEW f \in Fds
        PROVE  /\ Event(f).ptr \in Slots => x.clients[Event(f).ptr] # Nil
               /\ Event(f).ptr = DummyClient => x.con.connecting /\ con.fd = f
    <3>1. Event(f).ptr = interest[f]
      BY DEF Event
    <3>2. Reported(World, f)
      BY <1>1 DEF Linked
    <3>3. interest[f] \in Slots => interest[f] \in Open(x)
      BY <1>1, <1>8, <3>2 DEF Reported
    <3>4. interest[f] = DummyClient => con.connecting /\ con.fd = f
      BY <1>1, <3>2 DEF Reported
    <3>5. QED
      BY <1>6, <3>1, <3>3, <3>4 DEF Open, x
  <2>3. QED
    BY <2>1, <2>2 DEF EventsOk
<1>13. QED
  BY <1>1, <1>4, <1>5, <1>10, <1>11, <1>12 DEF IInv, Fine, Quiet, x

\* A message is output.
LEMMA OutputStep ==
  ASSUME IInv, Output
  PROVE  IInv' /\ (BelowLimit /\ Whole(World) => Whole(World'))
<1>1. World \in Worlds /\ Linked(World) /\ Streams(World, FlushedUpto(writer)) /\ Buffered(writer)
  BY Still
<1>2. PICK n \in 1..FlushSize :
        \E r \in Written(World, writer, [i \in 1..n |-> writer.units + i], n) :
            Becomes(r[1]) /\ writer' = r[2]
  BY DEF Output
<1> DEFINE k == writer.units   units == [i \in 1..n |-> k + i]
<1>3. PICK r \in Written(World, writer, units, n) : Becomes(r[1]) /\ writer' = r[2]
  BY <1>2
<1>4. k \in Nat /\ n \in Nat
  BY <1>1 DEF Buffered
<1>5. units \in Seq(Nat) /\ Numbered(units) = units
  <2> HIDE DEF k
  <2>1. QED
    BY <1>4, NumberedRange, RangeLen
<1>6. Numbered(units) = [i \in 1..n |-> writer.units + i]
  BY <1>5
<1> HIDE DEF units
<1>7. /\ Keeps(World, r[1]) /\ r[1] \in Worlds
      /\ Buffered(r[2]) /\ Streams(r[1], FlushedUpto(r[2]))
  BY <1>1, <1>4, <1>5, <1>6, WrittenStreams
<1>8. events' = events /\ phase' = phase
  BY DEF Output, loop
<1>9. EventsOk(r[1], events')
  BY <1>1, <1>7, <1>8, EventsKept DEF IInv, Keeps
<1>10. Fine(r[1], FlushedUpto(writer')) /\ Buffered(writer')
  BY <1>1, <1>3, <1>7 DEF Fine, Keeps
<1>11. QED
  BY <1>1, <1>3, <1>7, <1>8, <1>9, <1>10, Moves DEF IInv, Keeps

\* Reading from a client after flushing it.
LEMMA ReadAfter ==
  ASSUME NEW w \in Worlds, NEW s \in Open(w), NEW n, Streams(w, n), NEW x,
         Fed(w, x, s, Stream(w.clients[s]), w.clients[s].from), NEW end
  PROVE  /\ Keeps(w, ReadClient(x, s, end)) /\ ReadClient(x, s, end) \in Worlds
         /\ Streams(ReadClient(x, s, end), n)
<1>1. Keeps(w, x) /\ x \in Worlds /\ Streams(x, n) /\ x.clients[s] \in ClientRec /\ s \in Slots
  BY FedStreams, OpenTypes DEF Fed
<1>2. CASE ReadClient(x, s, end) = x
  BY <1>1, <1>2
<1>3. CASE ReadClient(x, s, end) = CloseClient(x, s) /\ x.clients[s].service
  <2>1. s \in Open(x)
    BY <1>1, <1>3, NotNil DEF Open
  <2> DEFINE y == CloseClient(x, s)
  <2>2. Keeps(x, y)
    BY <1>1, <2>1, CloseKeeps
  <2>3. Open(y) = Open(x) \ {s} /\ \A t \in Slots \ {s} : y.clients[t] = x.clients[t]
    BY <1>1, <2>1, CloseOpen
  <2> HIDE DEF y
  <2>4. Streams(y, n)
    BY <1>1, <2>3 DEF Streams, Open
  <2>5. Keeps(w, y)
    BY <1>1, <2>2, KeepsTrans
  <2>6. QED
    BY <1>3, <2>2, <2>4, <2>5 DEF Keeps, y
<1>4. CASE ReadClient(x, s, end) = CloseClient(x, s) /\ ~x.clients[s].service
  <2>1. CloseClient(x, s) = x
    BY <1>4 DEF CloseClient
  <2>2. QED
    BY <1>1, <1>4, <2>1
<1>5. QED
  BY <1>2, <1>3, <1>4 DEF ReadClient

\* A client's event.
LEMMA ClientEventStep ==
  ASSUME IInv, ClientEvent
  PROVE  IInv' /\ (BelowLimit /\ Whole(World) => Whole(World'))
<1>1. /\ World \in Worlds /\ Linked(World) /\ Streams(World, FlushedUpto(writer))
      /\ Buffered(writer) /\ World.clients = clients
  BY Still
<1>2. PICK e \in events :
        /\ e.ptr \in Slots /\ clients[e.ptr].service
        /\ events' = events \ {e}
        /\ \E w \in IF e.out THEN Flush(World, e.ptr) ELSE {World} :
            Becomes(ReadClient(w, e.ptr, e.in))
  BY DEF ClientEvent
<1> DEFINE s == e.ptr   n == FlushedUpto(writer)
<1>3. PICK w \in IF e.out THEN Flush(World, s) ELSE {World} : Becomes(ReadClient(w, s, e.in))
  BY <1>2
<1>4. s \in Open(World)
  BY <1>1, <1>2 DEF IInv, EventsOk, Open
<1> HIDE DEF s, n
<1>5. Fed(World, w, s, Stream(World.clients[s]), World.clients[s].from)
  <2>1. CASE w \in Flush(World, s)
    BY <1>1, <1>4, <2>1, FlushFed
  <2>2. CASE w = World
    BY <1>1, <1>4, <2>2, OpenTypes DEF Fed, Keeps
  <2>3. QED
    BY <1>3, <2>1, <2>2
<1> DEFINE x == ReadClient(w, s, e.in)
<1>6. Streams(World, n)
  BY <1>1 DEF n
<1>7. Keeps(World, x) /\ x \in Worlds /\ Streams(x, n)
  BY <1>1, <1>4, <1>5, <1>6, ReadAfter
<1>8. events' \subseteq events /\ phase' = phase /\ writer' = writer /\ Becomes(x)
      /\ phase' \notin Quiet
  BY <1>2, <1>3 DEF ClientEvent, Quiet, s
<1> HIDE DEF x
<1>9. EventsOk(x, events')
  BY <1>1, <1>7, <1>8, EventsKept DEF IInv, Keeps
<1>10. Fine(x, FlushedUpto(writer')) /\ Buffered(writer')
  BY <1>1, <1>7, <1>8 DEF Fine, Keeps, n
<1>11. QED
  BY <1>1, <1>7, <1>8, <1>9, <1>10, Moves DEF Keeps

\* The heartbeat of a pass.
LEMMA HeartbeatsStreams ==
  ASSUME IInv, NEW r \in Heartbeats
  PROVE  /\ Keeps(World, r[1]) /\ r[1] \in Worlds
         /\ Buffered(r[2]) /\ Streams(r[1], FlushedUpto(r[2]))
<1>1. World \in Worlds /\ Linked(World) /\ Streams(World, FlushedUpto(writer)) /\ Buffered(writer)
  BY Still
<1>2. CASE r = <<World, writer>>
  BY <1>1, <1>2 DEF Keeps
<1>3. CASE r \in Written(World, writer, <<0>>, 0)
  <2> DEFINE units == <<0>>   zero == 0
  <2>1. units \in Seq(Nat) /\ zero \in Nat
    OBVIOUS
  <2>2. Numbered(units) = <<>>
    <3>1. <<>> \in Seq(Nat) /\ Append(<<>>, 0) = units
      OBVIOUS
    <3>2. Numbered(Append(<<>>, 0)) = Numbered(<<>>)
      BY <3>1, NumberedAppend
    <3>3. QED
      BY <3>1, <3>2, NumberedEmpty
  <2>3. Numbered(units) = [i \in 1..zero |-> writer.units + i]
    BY <2>2
  <2>4. r \in Written(World, writer, units, zero)
    BY <1>3
  <2> HIDE DEF units, zero
  <2>5. QED
    BY <1>1, <2>1, <2>3, <2>4, WrittenStreams
<1>4. QED
  BY <1>2, <1>3 DEF Heartbeats

\* The writer is flushed at the end of a pass, or not.
LEMMA FlushStep ==
  ASSUME IInv, FlushDue \/ FlushLater
  PROVE  IInv' /\ (BelowLimit /\ Whole(World) => Whole(World'))
<1>1. World \in Worlds /\ Linked(World) /\ Streams(World, FlushedUpto(writer)) /\ Buffered(writer)
  BY Still
<1>2. phase = "flush" /\ events' = events /\ events = {}
  BY DEF FlushDue, FlushLater, IInv, Quiet
<1>3. \A x : EventsOk(x, events')
  BY <1>2 DEF EventsOk
<1>4. CASE FlushDue
  <2>1. PICK r \in Heartbeats :
            (\E w \in FlushWrites(r[1], r[2]) : Becomes(w)) /\ writer' = Flushed(r[2])
    BY <1>4 DEF FlushDue
  <2>2. PICK w \in FlushWrites(r[1], r[2]) : Becomes(w)
    BY <2>1
  <2> DEFINE a == r[1]   b == r[2]
  <2>3. /\ Keeps(World, a) /\ a \in Worlds
        /\ Buffered(b) /\ Streams(a, FlushedUpto(b))
    BY HeartbeatsStreams
  <2>4. w \in FlushWrites(a, b) /\ writer' = Flushed(b)
    BY <2>1, <2>2
  <2> HIDE DEF a, b
  <2>5. Keeps(a, w) /\ w \in Worlds /\ Streams(w, b.units)
    BY <2>3, <2>4, WritesStreams
  <2>6. Buffered(writer') /\ FlushedUpto(writer') = b.units
    BY <2>3, <2>4, FlushedWriter
  <2>7. Keeps(World, w)
    BY <2>3, <2>5, KeepsTrans
  <2>8. Fine(w, FlushedUpto(writer'))
    BY <1>1, <2>5, <2>6, <2>7 DEF Fine, Keeps
  <2>9. QED
    BY <1>1, <1>2, <1>3, <2>2, <2>6, <2>7, <2>8, Moves DEF Keeps
<1>5. CASE FlushLater
  <2>1. PICK r \in Heartbeats : Becomes(r[1]) /\ writer' = r[2]
    BY <1>5 DEF FlushLater
  <2>2. /\ Keeps(World, r[1]) /\ r[1] \in Worlds
        /\ Buffered(r[2]) /\ Streams(r[1], FlushedUpto(r[2]))
    BY HeartbeatsStreams
  <2>3. Fine(r[1], FlushedUpto(writer')) /\ Buffered(writer')
    BY <1>1, <2>1, <2>2 DEF Fine, Keeps
  <2>4. QED
    BY <1>1, <1>2, <1>3, <2>1, <2>2, <2>3, Moves DEF Keeps
<1>6. QED
  BY <1>4, <1>5

\* The connector's part of a pass.
LEMMA ReconnectStep ==
  ASSUME IInv, ReconnectLater \/ Reconnect \/ DropSilent
  PROVE  IInv' /\ (BelowLimit /\ Whole(World) => Whole(World'))
<1>1. World \in Worlds /\ Linked(World) /\ Streams(World, FlushedUpto(writer)) /\ Buffered(writer)
      /\ World.con = con
  BY Still
<1>2. phase = "reconnect" /\ events' = events /\ events = {} /\ writer' = writer
  BY DEF ReconnectLater, Reconnect, DropSilent, IInv, Quiet
<1>3. \A x : EventsOk(x, events')
  BY <1>2 DEF EventsOk
<1>4. ASSUME NEW x, Tried(World, x), Becomes(x)
      PROVE  IInv' /\ (BelowLimit /\ Whole(World) => Whole(World'))
  <2>1. Streams(x, FlushedUpto(writer))
    BY <1>1, <1>4 DEF Tried, Streams, Open
  <2>2. Fine(x, FlushedUpto(writer')) /\ Buffered(writer')
    BY <1>1, <1>2, <1>4, <2>1 DEF Fine, Tried
  <2>3. QED
    BY <1>2, <1>3, <1>4, <2>2, Moves DEF Tried
<1>5. Tried(World, World)
  BY <1>1 DEF Tried
<1>6. con.connecting => Tried(World, Refused(World))
  BY <1>1, RefusedLinked DEF Tried
<1>7. CASE ReconnectLater
  <2>1. Becomes(World) \/ (con.connecting /\ Becomes(Refused(World)))
    BY <1>7 DEF ReconnectLater, TimedOut
  <2>2. QED
    BY <1>4, <1>5, <1>6, <2>1
<1>8. CASE Reconnect
  <2> DEFINE v == IF con.connecting THEN Refused(World) ELSE World
  <2>1. PICK w \in ServiceConnect(v) : Becomes(w)
    BY <1>8 DEF Reconnect
  <2>2. Tried(World, v) /\ ~v.con.connecting /\ ~v.con.connected
    <3>1. CASE con.connecting
      BY <1>1, <1>6, <3>1, RefusedLinked
    <3>2. CASE ~con.connecting
      BY <1>1, <1>5, <1>8, <3>2 DEF Reconnect
    <3>3. QED
      BY <3>1, <3>2
  <2> HIDE DEF v
  <2>3. Tried(v, w)
    BY <2>1, <2>2, ServiceConnectTried DEF Tried
  <2>4. Tried(World, w)
    BY <2>2, <2>3 DEF Tried
  <2>5. QED
    BY <1>4, <2>1, <2>4
<1>9. CASE DropSilent
  <2> DEFINE s == con.c   x == CloseClient(World, s)   n == FlushedUpto(writer)
  <2>1. s \in Open(World)
    BY <1>1, <1>9 DEF DropSilent, Linked, Connector
  <2>2. Keeps(World, x)
    BY <1>1, <2>1, CloseKeeps
  <2>3. Open(x) = Open(World) \ {s} /\ \A t \in Slots \ {s} : x.clients[t] = World.clients[t]
    BY <1>1, <2>1, CloseOpen
  <2>4. Becomes(x)
    BY <1>9 DEF DropSilent
  <2> HIDE DEF x, s
  <2>5. Streams(x, n)
    BY <1>1, <2>3 DEF Streams, Open
  <2>6. Fine(x, FlushedUpto(writer')) /\ Buffered(writer')
    BY <1>1, <1>2, <2>2, <2>5 DEF Fine, Keeps
  <2>7. QED
    BY <1>1, <1>2, <1>3, <2>2, <2>4, <2>6, Moves DEF Keeps
<1>10. QED
  BY <1>7, <1>8, <1>9

\* The name was resolved, or not.
LEMMA ResolveStep ==
  ASSUME IInv, Resolve
  PROVE  IInv' /\ (BelowLimit /\ Whole(World) => Whole(World'))
<1>1. /\ World \in Worlds /\ Linked(World) /\ Streams(World, FlushedUpto(writer))
      /\ Buffered(writer) /\ World.con = con /\ World.clients = clients
  BY Still
<1>2. con.thread = "running"
      /\ \E ok \in BOOLEAN : con' = [con EXCEPT !.thread = "done", !.gai_error = ~ok, !.addr_info = ok]
  BY DEF Resolve
<1>3. PICK ok \in BOOLEAN : con' = [con EXCEPT !.thread = "done", !.gai_error = ~ok, !.addr_info = ok]
  BY <1>2
<1>4. con \in ConRec /\ con.in_progress /\ con.try_addr = 0
  BY <1>1, <1>2, WorldTypes DEF Linked, Connector
<1>5. Sensible(World, con')
  <2> DEFINE no == ~ok   d == "done"
  <2>1. no \in BOOLEAN /\ d \in {"none", "running", "done"} /\ (ok \/ no)
    OBVIOUS
  <2>2. con' = [con EXCEPT !.thread = d, !.gai_error = no, !.addr_info = ok]
    BY <1>3
  <2> HIDE DEF no, d
  <2>3. /\ con' \in ConRec /\ con'.fd = con.fd /\ con'.connecting = con.connecting
        /\ con'.connected = con.connected /\ con'.c = con.c
        /\ con'.try_addr = con.try_addr /\ con'.in_progress = con.in_progress
        /\ con'.addr_info = ok /\ con'.gai_error = no
    BY <1>4, <2>1, <2>2 DEF ConRec
  <2>4. QED
    BY <1>1, <1>4, <2>1, <2>3 DEF Sensible
<1> DEFINE x == WithCon(World, con')
<1>6. /\ x \in Worlds /\ x.clients = World.clients /\ x.con = con'
      /\ Linked(x) /\ (Whole(World) => Whole(x))
  BY <1>1, <1>5, SensibleLinked
<1>7. /\ files' = files /\ interest' = interest /\ status' = status /\ room' = room
      /\ clients' = clients /\ connections' = connections /\ writer' = writer
      /\ events' = events /\ phase' = phase
  BY DEF Resolve, sockets, loop
<1>8. World' = x
  BY <1>7 DEF World, WithCon
<1> HIDE DEF x
<1>9. Streams(x, FlushedUpto(writer))
  BY <1>1, <1>6 DEF Streams, Open
<1>10. EventsOk(x, events')
  <2>1. World.con.connecting = x.con.connecting
    BY <1>5, <1>6 DEF Sensible
  <2>2. QED
    BY <1>6, <1>7, <2>1, EventsKept DEF IInv
<1>11. QED
  BY <1>1, <1>6, <1>7, <1>8, <1>9, <1>10 DEF IInv, Fine

\* A connection attempt ended.
LEMMA ConnectEventStep ==
  ASSUME IInv, ConnectEvent
  PROVE  IInv' /\ (BelowLimit /\ Whole(World) => Whole(World'))
<1>1. /\ World \in Worlds /\ Linked(World) /\ Streams(World, FlushedUpto(writer))
      /\ Buffered(writer) /\ World.con = con /\ World.clients = clients
  BY Still
<1> DEFINE s == NewSlot   n == FlushedUpto(writer)
           v == [World EXCEPT !.interest[con.fd] = Null]
<1>2. PICK e \in events : e.ptr = DummyClient /\ events' = events \ {e}
  BY DEF ConnectEvent
<1>3. con.connecting
  BY <1>1, <1>2 DEF IInv, EventsOk
<1>4. s \in Slots /\ World.clients[s] = Nil
  BY <1>1, Lowest DEF ConnectEvent, NewSlot
<1>5. \/ \E w \in Established(v, s, writer) :
            IF w.clients[s].service
            THEN phase' = phase /\ \E x \in FiveHeartbeats(w, s) : Becomes(x)
            ELSE phase' = "crashed" /\ Becomes(w)
      \/ phase' = phase /\ Becomes(Refused(World))
  BY DEF ConnectEvent
<1>6. writer' = writer /\ (phase' \notin Quiet)
  BY <1>5 DEF ConnectEvent, Quiet
<1> HIDE DEF s
<1>7. ASSUME NEW x, After(World, x, n), Whole(World) => Whole(x), Becomes(x)
      PROVE  IInv' /\ (BelowLimit /\ Whole(World) => Whole(World'))
  <2>1. EventsOk(x, events')
    BY <1>2, <1>7, EventsLeft DEF IInv, After
  <2>2. Fine(x, FlushedUpto(writer')) /\ Buffered(writer')
    BY <1>1, <1>6, <1>7 DEF Fine, After
  <2>3. QED
    BY <1>6, <1>7, <2>1, <2>2, Moves
<1>8. CASE Becomes(Refused(World))
  <2> DEFINE x == Refused(World)
  <2>1. x \in Worlds /\ x.clients = World.clients /\ Linked(x) /\ (Whole(World) => Whole(x))
    BY <1>1, <1>3, RefusedLinked
  <2> HIDE DEF x
  <2>2. Streams(x, n)
    BY <1>1, <2>1 DEF Streams, Open
  <2>3. After(World, x, n)
    BY <2>1, <2>2 DEF After
  <2>4. QED
    BY <1>7, <1>8, <2>1, <2>3 DEF x
<1>9. ASSUME NEW w \in Established(v, s, writer),
             IF w.clients[s].service
             THEN \E x \in FiveHeartbeats(w, s) : Becomes(x)
             ELSE Becomes(w)
      PROVE  IInv' /\ (BelowLimit /\ Whole(World) => Whole(World'))
  <2>1. v = Forget(World, World.con.fd)
    BY <1>1 DEF Forget
  <2>2. After(World, w, n) /\ (Whole(World) => Whole(w)) /\ w.clients[s] \in ClientRec
    BY <1>1, <1>3, <1>4, <1>9, <2>1, EstablishedAfter
  <2>3. CASE ~w.clients[s].service
    BY <1>7, <1>9, <2>2, <2>3
  <2>4. CASE w.clients[s].service
    <3>1. PICK x \in FiveHeartbeats(w, s) : Becomes(x)
      BY <1>9, <2>4
    <3>2. s \in Open(w)
      BY <1>4, <2>2, <2>4, NotNil DEF Open
    <3> HIDE DEF n
    <3>3. After(World, x, n) /\ (Whole(w) => Whole(x))
      BY <2>2, <3>2, HeartbeatsAfter
    <3>4. QED
      BY <1>7, <2>2, <3>1, <3>3
  <2>5. QED
    BY <2>3, <2>4
<1>10. QED
  BY <1>5, <1>8, <1>9

\* A connection is accepted.
LEMMA AcceptStep ==
  ASSUME IInv, Accept
  PROVE  IInv' /\ (BelowLimit /\ Whole(World) => Whole(World'))
<1>1. /\ World \in Worlds /\ Linked(World) /\ Streams(World, FlushedUpto(writer))
      /\ Buffered(writer) /\ World.con = con /\ World.clients = clients
  BY Still
<1> DEFINE s == NewSlot   n == FlushedUpto(writer)   f == Min(FreeFds(World))
           old == IF c = 0 THEN ListenFd ELSE clients[c].fd
           Ok(k) == IF connections > max_fds_net THEN CloseFd(Accepted(World, f, k), old)
                    ELSE Accepted(World, f, k)
<1>2. PICK k \in Acceptable :
        \E w \in FiveHeartbeats(Created(Ok(k), s, f, writer), s) : Becomes(w)
  BY DEF Accept, Accepted
<1>3. s \in Slots /\ World.clients[s] = Nil
  BY <1>1, Lowest DEF Accept, NewSlot
<1>4. k \in Conns /\ FreeFds(World) # {}
  BY <1>2 DEF Acceptable, Conns
<1>5. f \in Fds /\ World.files[f] = Free
  BY <1>1, <1>4, Lowest
<1> HIDE DEF s, f
<1>6. /\ Ok(k) = Accepted(World, f, k) \/ Ok(k) = CloseFd(Accepted(World, f, k), old)
      /\ BelowLimit => Ok(k) = Accepted(World, f, k)
  <2>1. BelowLimit => ~(connections > max_fds_net)
    <3>1. connections \in Int /\ max_fds_net \in Nat
      BY <1>1, WorldTypes, NetServicesAssumption DEF World
    <3>2. QED
      BY <3>1 DEF BelowLimit
  <2>2. QED
    BY <2>1
<1> DEFINE v == Ok(k)   q == old   p == Created(v, s, f, writer)
<1>7. PICK x \in FiveHeartbeats(p, s) : Becomes(x)
  BY <1>2
<1>8. v = Accepted(World, f, k) \/ v = CloseFd(Accepted(World, f, k), q)
  BY <1>6
<1>9. BelowLimit => v = Accepted(World, f, k)
  BY <1>6
<1> HIDE DEF v, q
<1>10. /\ After(World, p, n) /\ s \in Open(p) /\ p.con = World.con
       /\ v = Accepted(World, f, k) /\ Whole(World) => Whole(p)
  BY <1>1, <1>3, <1>4, <1>5, <1>8, AcceptAfter
<1> HIDE DEF p, n
<1>11. After(World, x, n) /\ (Whole(p) => Whole(x)) /\ (p.con.connecting => x.con.connecting)
  BY <1>7, <1>10, HeartbeatsAfter
<1>12. events' = events /\ phase' = phase /\ phase' \notin Quiet /\ writer' = writer
  BY DEF Accept, Quiet
<1>13. EventsOk(x, events')
  BY <1>10, <1>11, <1>12, EventsKept DEF IInv, After
<1>14. Fine(x, FlushedUpto(writer')) /\ Buffered(writer')
  BY <1>1, <1>11, <1>12 DEF Fine, After, n
<1>15. QED
  BY <1>7, <1>9, <1>10, <1>11, <1>12, <1>13, <1>14, Moves

\* What the peers and the clock do.
LEMMA EnvironmentStep ==
  ASSUME IInv, Environment
  PROVE  IInv' /\ (BelowLimit /\ Whole(World) => Whole(World'))
<1>1. /\ World \in Worlds /\ Linked(World) /\ Streams(World, FlushedUpto(writer))
      /\ Buffered(writer) /\ World.con = con /\ World.clients = clients
      /\ World.interest = interest /\ World.connections = connections /\ World.files = files
  BY Still
<1>2. /\ files \in [Fds -> Conns \union {Free, Listen}] /\ interest \in [Fds -> Pointers]
      /\ status \in [Conns -> Statuses] /\ room \in [Conns -> BOOLEAN]
      /\ clients \in [Slots -> ClientRec \union {Nil}] /\ connections \in Int /\ con \in ConRec
  BY <1>1, WorldTypes DEF World
<1>3. ASSUME files' = files, interest' = interest, connections' = connections, con' = con,
             events' = events, phase' = phase, writer' = writer,
             status' \in [Conns -> Statuses], room' \in [Conns -> BOOLEAN],
             clients' \in [Slots -> ClientRec \union {Nil}],
             \A t \in Slots : /\ clients'[t] = Nil <=> clients[t] = Nil
                              /\ clients[t] # Nil =>
                                    /\ clients'[t].fd = clients[t].fd
                                    /\ clients'[t].service = clients[t].service
                                    /\ clients'[t].con = clients[t].con
                                    /\ clients'[t].sent = clients[t].sent
                                    /\ clients'[t].sendq = clients[t].sendq
                                    /\ clients'[t].from = clients[t].from
      PROVE  IInv' /\ (BelowLimit /\ Whole(World) => Whole(World'))
  <2> DEFINE x == World'
  <2>1. x \in Worlds
    BY <1>2, <1>3 DEF World, Worlds
  <2>2. /\ x.files = files /\ x.interest = interest /\ x.connections = connections
        /\ x.con = con /\ x.clients = clients'
    BY <1>3 DEF World
  <2> HIDE DEF x
  <2>3. Open(x) = Open(World)
    BY <1>1, <1>3, <2>2 DEF Open
  <2>4. Alike(World, x)
    BY <1>1, <1>3, <2>2, <2>3 DEF Alike
  <2>5. Linked(x) /\ (Whole(World) => Whole(x))
    BY <1>1, <2>4, AlikeLinked
  <2>6. Streams(x, FlushedUpto(writer))
    <3> DEFINE n == FlushedUpto(writer)
    <3> HIDE DEF n
    <3> SUFFICES ASSUME NEW t \in Open(World) PROVE InStream(x.clients[t], n)
      BY <2>3 DEF Streams, n
    <3>1. t \in Slots /\ clients[t] # Nil /\ InStream(clients[t], n)
      BY <1>1 DEF Open, Streams, n
    <3>2. /\ clients'[t].sent = clients[t].sent /\ clients'[t].sendq = clients[t].sendq
          /\ clients'[t].from = clients[t].from
      BY <1>3, <3>1
    <3> DEFINE a == clients[t]   b == clients'[t]
    <3> HIDE DEF a, b
    <3>3. InStream(a, n) /\ a.sent = b.sent /\ a.sendq = b.sendq /\ a.from = b.from
      BY <3>1, <3>2 DEF a, b
    <3>4. InStream(b, n)
      BY <3>3 DEF InStream, Stream
    <3> QED
      BY <3>4, <2>2 DEF b
  <2>7. EventsOk(x, events')
    BY <1>1, <1>3, <2>2, EventsKept DEF IInv
  <2>8. QED
    BY <1>1, <1>3, <2>1, <2>5, <2>6, <2>7 DEF IInv, Fine, x
<1>4. ASSUME NEW k, NEW st \in Statuses, Link(k, st)
      PROVE  IInv' /\ (BelowLimit /\ Whole(World) => Whole(World'))
  <2>1. status' \in [Conns -> Statuses]
    BY <1>2, <1>4 DEF Link
  <2>2. QED
    BY <1>2, <1>3, <1>4, <2>1 DEF Link, objects, loop
<1>5. CASE \E k \in Peers : PeerConnects(k)
  <2>1. PICK k \in Peers : Link(k, "queued")
    BY <1>5 DEF PeerConnects
  <2>2. QED
    BY <1>4, <2>1 DEF Statuses
<1>6. CASE \E k \in Conns : PeerCloses(k)
  <2>1. PICK k \in Conns : Link(k, "aborted") \/ Link(k, "gone")
    BY <1>6 DEF PeerCloses
  <2>2. QED
    BY <1>4, <2>1 DEF Statuses
<1>7. CASE \E k \in Conns : PeerReads(k)
  <2>1. PICK k \in Conns : PeerReads(k)
    BY <1>7
  <2>2. room' \in [Conns -> BOOLEAN]
    BY <1>2, <2>1 DEF PeerReads
  <2>3. QED
    BY <1>2, <1>3, <2>1, <2>2 DEF PeerReads, objects, loop
<1>8. CASE Answer
  <2>1. Link(Remote, "open") \/ Link(Remote, "refused")
    BY <1>8 DEF Answer
  <2>2. QED
    BY <1>4, <2>1 DEF Statuses
<1>9. CASE Ages
  <2>1. PICK s \in Open(World) : clients' = [clients EXCEPT ![s].young = FALSE]
    BY <1>9 DEF Ages
  <2> DEFINE no == FALSE   cl == [clients[s] EXCEPT !.young = no]
  <2>2. s \in Slots /\ clients[s] \in ClientRec /\ clients[s] # Nil
    BY <1>1, OpenTypes, NotNil
  <2>3. /\ cl \in ClientRec /\ cl.fd = clients[s].fd /\ cl.service = clients[s].service
        /\ cl.con = clients[s].con /\ cl.sent = clients[s].sent
        /\ cl.sendq = clients[s].sendq /\ cl.from = clients[s].from
    <3>1. no \in BOOLEAN
      OBVIOUS
    <3> HIDE DEF no
    <3>2. QED
      BY <2>2, <3>1 DEF ClientRec
  <2>4. clients' = [clients EXCEPT ![s] = cl]
    BY <2>1
  <2>5. cl # Nil
    BY <2>3, NotNil
  <2> HIDE DEF cl
  <2>6. clients'[s] = cl /\ \A t \in Slots \ {s} : clients'[t] = clients[t]
    BY <1>2, <2>2, <2>4
  <2>7. clients' \in [Slots -> ClientRec \union {Nil}]
    BY <1>2, <2>3, <2>4
  <2>8. UNCHANGED <<sockets, loop, connections, con, writer>>
    BY <1>9 DEF Ages
  <2>9. QED
    BY <1>2, <1>3, <2>2, <2>3, <2>5, <2>6, <2>7, <2>8 DEF sockets, loop
<1>10. CASE NetworkRecovers
  BY <1>10, LoopStep
<1>11. QED
  BY <1>5, <1>6, <1>7, <1>8, <1>9, <1>10 DEF Environment

\* The invariant is inductive; below the limit no descriptor gets lost.
LEMMA NextInv ==
  ASSUME IInv, [Next]_vars
  PROVE  IInv' /\ (BelowLimit /\ Whole(World) => Whole(World'))
<1>1. CASE UNCHANGED vars
  <2>1. World' = World /\ writer' = writer /\ events' = events /\ phase' = phase
    BY <1>1 DEF vars, World, sockets, objects, loop
  <2>2. QED
    BY <2>1 DEF IInv
<1>2. CASE Pass
  BY <1>2, LoopStep, EpollWaitStep, OutputStep, ClientEventStep, FlushStep, ReconnectStep,
     ConnectEventStep, AcceptStep DEF Pass
<1>3. CASE Resolve
  BY <1>3, ResolveStep
<1>4. CASE Environment
  BY <1>4, EnvironmentStep
<1>5. QED
  BY <1>1, <1>2, <1>3, <1>4 DEF Next

\* The invariant holds.
THEOREM Invariance == Spec => []IInv
<1>1. Init => IInv
  BY InitInv
<1>2. IInv /\ [Next]_vars => IInv'
  BY NextInv
<1>3. QED
  BY <1>1, <1>2, PTL DEF Spec

\* What was sent to a client and its queue are what was flushed since it connected.
THEOREM StreamsComplete == Spec => []StreamComplete
<1>1. IInv => StreamComplete
  BY DEF IInv, Fine, StreamComplete, Streams, InStream, Stream, FlushedUpto, World
<1>2. QED
  BY <1>1, Invariance, PTL

\* Memory and the address list are used only while they are allocated.
THEOREM PointersAreValid == Spec => []PointersValid
<1>1. IInv => PointersValid
  <2> SUFFICES ASSUME IInv
               PROVE  PointersValid
    OBVIOUS
  <2>1. /\ World \in Worlds /\ Linked(World) /\ World.con = con /\ World.clients = clients
    BY Still
  <2>2. \A e \in events : /\ e.ptr \in Slots => clients[e.ptr] # Nil
                          /\ e.ptr = DummyClient => con.connecting
    BY <2>1 DEF IInv, EventsOk
  <2>3. {s \in Open(World) : clients[s].con} = (IF con.connected THEN {con.c} ELSE {})
    BY <2>1 DEF Linked, Connector
  <2>4. ~(con.connecting /\ con.connected) /\ (con.try_addr # 0 => con.addr_info /\ ~con.in_progress)
    BY <2>1 DEF Linked, Connector
  <2>5. QED
    BY <2>2, <2>3, <2>4 DEF PointersValid
<1>2. QED
  BY <1>1, Invariance, PTL

\* While no more clients are connected than the limit allows every descriptor has its owner,
\* and what refers to each other is there.
THEOREM ReferencesAreValid == Spec /\ []BelowLimit => []ReferencesValid
<1>1. Init => Whole(World)
  BY InitInv
<1>2. IInv /\ BelowLimit /\ Whole(World) /\ [Next]_vars => Whole(World)'
  BY NextInv
<1>3. IInv /\ Whole(World) => FdsOwned
  <2> SUFFICES ASSUME IInv, Whole(World)
               PROVE  FdsOwned
    OBVIOUS
  <2>1. /\ World \in Worlds /\ Linked(World) /\ World.con = con /\ World.clients = clients
        /\ World.interest = interest /\ World.connections = connections /\ World.files = files
    BY Still
  <2>2. files[ListenFd] = Listen /\ interest[ListenFd] = ListenSocket
        /\ connections = Cardinality(Open(World))
    BY <2>1 DEF Whole, Linked
  <2>3. ASSUME NEW f \in Fds \ {ListenFd},
               NEW owners, owners = {s \in Open(World) : clients[s].fd = f}
                            \union (IF con.connecting /\ con.fd = f THEN {DummyClient} ELSE {})
        PROVE  IF files[f] = Free THEN owners = {} /\ interest[f] = Null
               ELSE owners = {interest[f]}
    <3>1. /\ files[f] # Listen /\ interest[f] # ListenSocket
          /\ files[f] = Free <=> interest[f] = Null
      BY <2>1 DEF Whole
    <3>2. \A o \in owners : o = interest[f] /\ files[f] # Free
      <4>1. \A s \in Open(World) : clients[s].fd = f => interest[f] = s /\ files[f] # Free
        BY <2>1 DEF Whole
      <4>2. con.connecting /\ con.fd = f => interest[f] = DummyClient /\ files[f] # Free
        BY <2>1 DEF Whole
      <4>3. QED
        BY <2>3, <4>1, <4>2
    <3>3. files[f] # Free => interest[f] \in owners
      <4>1. interest[f] \in Slots \/ interest[f] = Null \/ interest[f] = DummyClient
        BY <2>1, <3>1, WorldTypes DEF Pointers
      <4>2. /\ interest[f] \in Slots => interest[f] \in Open(World) /\ clients[interest[f]].fd = f
            /\ interest[f] = DummyClient => con.connecting /\ con.fd = f
        BY <2>1 DEF Linked, Reported
      <4>3. QED
        BY <2>3, <3>1, <4>1, <4>2
    <3>4. QED
      BY <3>1, <3>2, <3>3
  <2>4. QED
    BY <2>2, <2>3 DEF FdsOwned
<1>4. Spec /\ []BelowLimit => []Whole(World)
  BY <1>1, <1>2, Invariance, PTL DEF Spec
<1>5. QED
  BY <1>3, <1>4, Invariance, PointersAreValid, PTL DEF ReferencesValid
=============================================================================
