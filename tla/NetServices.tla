----------------------------- MODULE NetServices -----------------------------
(***************************************************************************)
(* One network service with a listening socket, a connector and a writer,  *)
(* as beast_out or beast_in with --net-connector: the passes of            *)
(* modesNetPeriodicWork of the only decode thread, against the kernel, the *)
(* peers and the thread that runs getaddrinfo.                             *)
(*                                                                         *)
(* File descriptors are numbers that are reused, as in the kernel.  What a *)
(* handler does to the tables and clients is a function of a record w of   *)
(* the variables (World); where a system call may end in several ways, a   *)
(* set of such records.  Every timer of the code is a choice: it has run   *)
(* out, or not yet.  Output is counted in units, several to a message; a   *)
(* unit is its number in the writer's stream, or 0 for heartbeats and the  *)
(* UUID.                                                                   *)
(***************************************************************************)
EXTENDS Integers, Sequences, SequencesExt, FiniteSets, FiniteSetsExt

CONSTANTS
    Peers, Remote,  \* programs that connect to us; the one we connect to
    Configs,        \* services to model, see NetServicesAssumption
    Slots,          \* memory for struct client
    Fds,            \* file descriptors, 0 is -1
    ListenFd,
    Free, Listen,   \* what a descriptor may refer to besides a connection
    NumAddr, Good,  \* addresses of the remote's name; the one that answers
    max_fds_net,
    FlushSize,      \* net_output_flush_size
    SendqMax,       \* sendq_max
    SendsUUID       \* enable_uuid_ping

Conns == Peers \union {Remote}
Nil   == [fd |-> 0]     \* no client in this memory

\* epollEvent.data.ptr besides a client of Slots
Null         == 0
ListenSocket == -1      \* listenSockets[0], which is not really a client
DummyClient  == -2      \* dummyClient of the connector, while it connects

ASSUME NetServicesAssumption ==
    /\ Slots \subseteq Nat \ {0} /\ IsFiniteSet(Slots)
    /\ Fds \subseteq Nat \ {0} /\ ListenFd \in Fds
    /\ Remote \notin Peers
       \* the connections that may come about; beast_heartbeat or no_heartbeat; bound on
       \* what is output
    /\ \A cf \in Configs :
        cf.conns \subseteq Conns /\ cf.heartbeat_out \in BOOLEAN /\ cf.units \in Nat
    /\ {Free, Listen} \intersect Conns = {} /\ Free # Listen
    /\ NumAddr \in Nat /\ Good \in 1..NumAddr
    /\ max_fds_net \in Nat /\ FlushSize \in Nat \ {0} /\ SendqMax \in Nat \ {0}
    /\ SendsUUID \in BOOLEAN

VARIABLES
    files,          \* the descriptors of the process
    interest,       \* the client whose events epoll reports, by descriptor
    status, room,   \* of each connection: its state; may send() take data?
    clients,        \* struct client in memory
    connections,    \* service->connections, writer->connections, modesClientCount
    con,            \* struct net_connector
    writer,         \* struct net_writer: data, and the number of units output
    phase,          \* of modesNetPeriodicWork
    events,         \* net_events not handled yet
    config,         \* the service, never changes
    c,              \* c in modesAcceptClients, 0 is the client of the listening socket
    up              \* environment: does the next attempt to connect succeed?

sockets == <<files, interest, status, room>>
objects == <<clients, connections, con>>
loop    == <<phase, events, c>>
vars    == <<sockets, objects, writer, loop, config, up>>

World == [files |-> files, interest |-> interest, status |-> status, room |-> room,
          clients |-> clients, connections |-> connections, con |-> con]

Becomes(w) ==
    /\ files' = w.files /\ interest' = w.interest
    /\ status' = w.status /\ room' = w.room
    /\ clients' = w.clients /\ connections' = w.connections /\ con' = w.con

Open(w)      == {s \in Slots : w.clients[s] # Nil /\ w.clients[s].service}
FreeFds(w)   == {f \in Fds : w.files[f] = Free}
FreeSlots(w) == {s \in Slots : w.clients[s] = Nil}

Init ==
    /\ files = [f \in Fds |-> IF f = ListenFd THEN Listen ELSE Free]
    /\ interest = [f \in Fds |-> IF f = ListenFd THEN ListenSocket ELSE Null]
    /\ status = [k \in Conns |-> "idle"] /\ room = [k \in Conns |-> TRUE]
    /\ clients = [s \in Slots |-> Nil] /\ connections = 0
    /\ con = [fd |-> 0, connecting |-> FALSE, connected |-> FALSE, c |-> 0,
              addr_info |-> FALSE, try_addr |-> 0,
              in_progress |-> FALSE, thread |-> "none", gai_error |-> FALSE]
    /\ writer = [data |-> <<>>, units |-> 0]
    /\ phase = "wait" /\ events = {} /\ c = 0 /\ config \in Configs /\ up \in BOOLEAN
-----------------------------------------------------------------------------
(* Closing.                                                                *)

\* close(): epoll forgets the descriptor, and its number is free again
CloseFd(w, f) ==
    IF f = 0 \/ w.files[f] = Free THEN w
    ELSE [w EXCEPT !.files[f] = Free, !.interest[f] = Null,
                   !.status = [k \in Conns |->
                        IF \/ k = w.files[f]
                           \/ w.files[f] = Listen /\ @[k] \in {"queued", "aborted"}
                        THEN "idle" ELSE @[k]]]

ConnectorLost(cn) == [cn EXCEPT !.connecting = FALSE, !.connected = FALSE, !.c = 0]

\* Fault: the client's memory is freed at once.
CloseClientFrees(w, s) ==
    LET cl == w.clients[s]
        d  == CloseFd([w EXCEPT !.interest[cl.fd] = Null], cl.fd)
    IN  [d EXCEPT !.clients[s] = Nil, !.connections = @ - 1,
                  !.con = IF cl.con THEN ConnectorLost(@) ELSE @]

\* the client stays in memory until serviceFreeClients; nobody reads its queue again
CloseClient(w, s) ==
    LET cl == w.clients[s]
        d  == CloseFd([w EXCEPT !.interest[cl.fd] = Null], cl.fd)
    IN  IF ~cl.service THEN w
        ELSE [d EXCEPT !.clients[s] = [@ EXCEPT !.fd = 0, !.service = FALSE, !.out = FALSE,
                                                !.sendq = <<>>, !.sent = <<>>, !.from = 0],
                       !.connections = @ - 1,
                       !.con = IF cl.con THEN ConnectorLost(@) ELSE @]
-----------------------------------------------------------------------------
(* Sending.                                                                *)

Numbered(units) ==
    LET N[n \in 0..Len(units)] ==
            IF n = 0 THEN <<>>
            ELSE IF units[n] = 0 THEN N[n - 1] ELSE Append(N[n - 1], units[n])
    IN  N[Len(units)]

\* what send() may do for a client with a nonempty queue: take n units, and is there
\* room for more then?  -1 is an error.
Sends(n, rooms) == {[n |-> n, room |-> r] : r \in rooms}

SendResults(w, s) ==
    LET k == w.files[w.clients[s].fd]
        q == Len(w.clients[s].sendq)
    IN  IF k \notin Conns THEN Sends(-1, {FALSE})
        ELSE IF w.status[k] = "gone" THEN Sends(-1, {FALSE}) \union Sends(q, {TRUE})
        ELSE IF ~w.room[k] THEN Sends(0, {FALSE})
        ELSE Sends(q, BOOLEAN) \union UNION {Sends(n, {FALSE}) : n \in 1..(q - 1)}

\* Fault: what was sent stays at the start of the queue, the memmove is missing.
SentNotMoved(w, s, a) ==
    LET cl == w.clients[s]
        q  == cl.sendq
    IN  [w EXCEPT !.clients[s] = [cl EXCEPT !.sendq = SubSeq(q, 1, Len(q) - a.n),
                                            !.sent  = cl.sent \o Numbered(SubSeq(q, 1, a.n)),
                                            !.out   = a.n < Len(q)],
                  !.room[w.files[cl.fd]] = a.room]

\* Fault: EPOLLOUT is not requested after send() took a part only.
SentUnarmed(w, s, a) ==
    LET cl == w.clients[s]
        q  == cl.sendq
    IN  [w EXCEPT !.clients[s] = [cl EXCEPT !.sendq = SubSeq(q, a.n + 1, Len(q)),
                                            !.sent  = cl.sent \o Numbered(SubSeq(q, 1, a.n)),
                                            !.out   = cl.out /\ a.n < Len(q)],
                  !.room[w.files[cl.fd]] = a.room]

\* the queue, EPOLLOUT and the socket after send() took a.n units
Sent(w, s, a) ==
    LET cl == w.clients[s]
        q  == cl.sendq
    IN  [w EXCEPT !.clients[s] = [cl EXCEPT !.sendq = SubSeq(q, a.n + 1, Len(q)),
                                            !.sent  = cl.sent \o Numbered(SubSeq(q, 1, a.n)),
                                            !.out   = a.n < Len(q)],
                  !.room[w.files[cl.fd]] = a.room]

\* flushClient: the worlds it may lead to.  A client that is connected for a while
\* and could not take everything for too long is closed.
Flush(w, s) ==
    LET cl == w.clients[s]
    IN  IF cl.sendq = <<>> THEN {w}
        ELSE UNION {IF a.n = -1 THEN {CloseClient(w, s)}
                    ELSE IF a.n = Len(cl.sendq) \/ cl.young THEN {Sent(w, s, a)}
                    ELSE {Sent(w, s, a), CloseClient(w, s)} : a \in SendResults(w, s)}

\* the body of the loop in flushWrites
WriteTo(w, s, wr) ==
    LET cl == w.clients[s]
    IN  IF Len(cl.sendq) + Len(wr.data) < SendqMax
        THEN Flush([w EXCEPT !.clients[s].sendq = @ \o wr.data], s)
        ELSE IF cl.young
        THEN {[w EXCEPT !.clients[s] = [@ EXCEPT !.sendq = <<>>, !.sent = <<>>,
                                                 !.from = wr.units]]}
        ELSE {CloseClient(w, s)}

FlushWrites(w, wr) ==
    FoldSet(LAMBDA s, ws : UNION {WriteTo(x, s, wr) : x \in ws}, {w}, Open(w))

Flushed(wr) == [wr EXCEPT !.data = <<>>]

\* prepareWrite, the caller's copy, completeWrite: pairs of a world and a writer
Written(w, wr, units, count) ==
    LET early == wr.data # <<>> /\ Len(wr.data) + Len(units) >= FlushSize
        ready == IF early THEN FlushWrites(w, wr) ELSE {w}
        data  == IF early THEN units ELSE wr.data \o units
        full  == [data |-> data, units |-> wr.units + count]
    IN  IF w.connections = 0 THEN {<<w, wr>>}
        ELSE IF Len(data) >= FlushSize
        THEN UNION {{<<y, Flushed(full)>> : y \in FlushWrites(x, full)} : x \in ready}
        ELSE {<<x, full>> : x \in ready}
-----------------------------------------------------------------------------
(* New clients.                                                            *)

\* createSocketClient for descriptor f in memory s
Created(w, s, f, wr) ==
    [w EXCEPT !.clients[s] = [fd |-> f, service |-> TRUE, sendq |-> <<>>, out |-> FALSE,
                              con |-> FALSE, young |-> TRUE,
                              sent |-> <<>>, from |-> wr.units - Len(Numbered(wr.data))],
              !.connections = @ + 1, !.interest[f] = s]

\* sendUUID, and sendFiveHeartbeats: append if there is room, and flush
Greet(w, s) ==
    Flush([w EXCEPT !.clients[s].sendq = IF Len(@) + 1 < SendqMax THEN Append(@, 0) ELSE @], s)

FiveHeartbeats(w, s) == IF config.heartbeat_out THEN Greet(w, s) ELSE {w}

NewSlot == Min(FreeSlots(World))

Acceptable ==
    IF files[ListenFd] = Listen /\ FreeFds(World) # {}
    THEN {k \in Peers : status[k] \in {"queued", "aborted"}} ELSE {}

\* modesAcceptClients, one round of its loop: the new connection k is accepted as the
\* lowest free descriptor.  Near the limit the code closes c->fd, where c is the
\* listening socket in the first round and then the client created in the last one.
Accept ==
    /\ phase = "accept"
    /\ FreeSlots(World) # {}     \* bound; Spare sees to it
    /\ \E k \in Acceptable :
        LET fd  == Min(FreeFds(World))
            acc == [World EXCEPT !.files[fd] = k, !.room[k] = TRUE,
                                 !.status[k] = IF @ = "queued" THEN "open" ELSE "gone"]
            old == IF c = 0 THEN ListenFd ELSE clients[c].fd
            ok  == IF connections > max_fds_net THEN CloseFd(acc, old) ELSE acc
        IN  \E w \in FiveHeartbeats(Created(ok, NewSlot, fd, writer), NewSlot) : Becomes(w)
    /\ c' = NewSlot
    /\ UNCHANGED <<writer, phase, events, up, config>>

AcceptEnds ==
    /\ phase = "accept" /\ Acceptable = {}
    /\ phase' = "events" /\ c' = 0
    /\ UNCHANGED <<sockets, objects, writer, events, up, config>>
-----------------------------------------------------------------------------
(* The connector.                                                          *)

\* con->fd is read only while connecting is set, and is 0 here otherwise
Refused(w) ==
    CloseFd([w EXCEPT !.interest[w.con.fd] = Null, !.con.connecting = FALSE, !.con.fd = 0],
            w.con.fd)

\* checkServiceConnected once the connection is established: the UUID, then the
\* heartbeats.  A client that sending the UUID closed has no service any more, which
\* sendFiveHeartbeats reads: NULL is dereferenced.
Established(w, s, wr) ==
    LET cn == [Created(w, s, w.con.fd, wr) EXCEPT
                 !.con.connecting = FALSE, !.con.connected = TRUE, !.con.c = s, !.con.fd = 0,
                 !.clients[s].con = TRUE]
    IN  IF SendsUUID THEN Greet(cn, s) ELSE {cn}

\* Fault: the request is not marked as done when the name was not resolved.
ResolveSilent ==
    /\ con.thread = "running"
    /\ \E ok \in BOOLEAN :
        /\ up => ok
        /\ con' = [con EXCEPT !.thread = IF ok THEN "done" ELSE "none",
                              !.gai_error = ~ok, !.addr_info = ok]
    /\ UNCHANGED <<sockets, clients, connections, writer, loop, config, up>>

\* pthreadGetaddrinfo
Resolve ==
    /\ con.thread = "running"
    /\ \E ok \in BOOLEAN :
        /\ up => ok
        /\ con' = [con EXCEPT !.thread = "done", !.gai_error = ~ok, !.addr_info = ok]
    /\ UNCHANGED <<sockets, loop, clients, connections, writer, up, config>>

\* socket() and connect() to the address con.try_addr; both may fail
Attempt(w) ==
    LET f == Min(FreeFds(w))
        n == [w EXCEPT !.files[f] = Remote, !.interest[f] = DummyClient,
                       !.status[Remote] = "syn", !.con.fd = f, !.con.connecting = TRUE]
    IN  IF FreeFds(w) = {} THEN {w}
        ELSE IF up /\ w.con.try_addr = Good THEN {n} ELSE {n, Refused(n)}

\* serviceConnect: the next address, or else a new resolution, or else its result,
\* or else the known addresses again
ServiceConnect(w) ==
    LET cn   == w.con
        next == IF cn.try_addr \in 1..(NumAddr - 1) THEN cn.try_addr + 1 ELSE 0
        idle == [w EXCEPT !.con.try_addr = 0]
        launch  == [idle EXCEPT !.con.addr_info = FALSE, !.con.in_progress = TRUE,
                                !.con.thread = "running"]
        failed  == [idle EXCEPT !.con.addr_info = FALSE]
        joined  == [idle EXCEPT !.con.in_progress = FALSE, !.con.thread = "none",
                                !.con.gai_error = FALSE]
        First(x) == [x EXCEPT !.con.try_addr = 1]
    IN  IF next # 0 THEN Attempt([w EXCEPT !.con.try_addr = next])
        ELSE IF cn.in_progress
        THEN IF cn.thread # "done" THEN {idle}
             ELSE IF cn.gai_error THEN {joined} ELSE Attempt(First(joined))
        ELSE (IF up THEN {launch} ELSE {launch, failed})
             \union (IF cn.addr_info THEN Attempt(First(idle)) ELSE {})

TimedOut == con.connecting /\ ~(up /\ con.try_addr = Good)

\* serviceReconnectCallback with the connector's timers not run out, ...
ReconnectLater ==
    /\ phase = "reconnect"
    /\ \E w \in {World} \union (IF TimedOut THEN {Refused(World)} ELSE {}) : Becomes(w)
    /\ phase' = "wait"
    /\ UNCHANGED <<writer, events, c, config, up>>

\* ... with next_reconnect reached, ...
Reconnect ==
    /\ phase = "reconnect" /\ Remote \in config.conns /\ ~con.connected
    /\ con.connecting => TimedOut
    /\ \E w \in ServiceConnect(IF con.connecting THEN Refused(World) ELSE World) : Becomes(w)
    /\ phase' = "wait"
    /\ UNCHANGED <<writer, events, c, config, up>>

\* ... and with a connected client that has been silent for too long, if the service
\* has a heartbeat_in
DropSilent ==
    /\ phase = "reconnect" /\ con.connected /\ ~up
    /\ Becomes(CloseClient(World, con.c))
    /\ phase' = "wait"
    /\ UNCHANGED <<writer, events, c, config, up>>
-----------------------------------------------------------------------------
(* The passes of modesNetPeriodicWork.                                     *)

Event(f) ==
    LET p == interest[f]
        k == files[f]
    IN  [ptr |-> p,
         in  |-> CASE p = ListenSocket -> \E q \in Peers : status[q] \in {"queued", "aborted"}
                   [] p = DummyClient  -> status[Remote] # "syn"
                   [] OTHER            -> status[k] = "gone",
         out |-> p \in Slots /\ clients[p].out /\ (room[k] \/ status[k] = "gone")]

\* bound: memory not spoken for by connections to be accepted
Spare == Cardinality(FreeSlots(World))
            - Cardinality({k \in Peers : status[k] \in {"queued", "aborted"}})

\* netFreeClients, about once a second, at the end of the pass; then epoll_wait
FreeClients(cls) == [s \in Slots |-> IF cls[s].fd = 0 THEN Nil ELSE cls[s]]

EpollWait ==
    /\ phase = "wait"
    /\ \/ clients' = FreeClients(clients)
       \/ Spare > 1 /\ UNCHANGED clients
    /\ events' = {e \in {Event(f) : f \in {g \in Fds : interest[g] # Null}} : e.in \/ e.out}
    /\ phase' = "output"
    /\ UNCHANGED <<sockets, connections, con, writer, c, up, config>>

\* drainMessageBuffer tracks a message and outputs it: n units
Output ==
    /\ phase = "output"
    /\ \E n \in 1..FlushSize :
        /\ writer.units + n <= config.units
        /\ \E r \in Written(World, writer, [i \in 1..n |-> writer.units + i], n) :
            Becomes(r[1]) /\ writer' = r[2]
    /\ UNCHANGED <<loop, config, up>>

OutputEnds ==
    /\ phase = "output" /\ phase' = "events"
    /\ UNCHANGED <<sockets, objects, writer, events, c, up, config>>

\* handleEpoll: an event of a client closed since epoll_wait is skipped
SkipClosed ==
    /\ phase = "events"
    /\ \E e \in events :
        /\ e.ptr \in Slots /\ ~clients[e.ptr].service
        /\ events' = events \ {e}
    /\ UNCHANGED <<sockets, objects, writer, phase, c, up, config>>

AcceptEvent ==
    /\ phase = "events"
    /\ \E e \in events : e.ptr = ListenSocket /\ events' = events \ {e}
    /\ phase' = "accept" /\ c' = 0
    /\ UNCHANGED <<sockets, objects, writer, up, config>>

\* checkServiceConnected: SO_ERROR decides
ConnectEvent ==
    /\ phase = "events"
    /\ FreeSlots(World) # {}     \* bound; Spare sees to it
    /\ \E e \in events : e.ptr = DummyClient /\ events' = events \ {e}
    /\ \E ok \in BOOLEAN :
        /\ status[Remote] = "refused" => ~ok
        /\ status[Remote] = "open" => ok
        /\ IF ok
           THEN \E w \in Established([World EXCEPT !.interest[con.fd] = Null],
                                    NewSlot, writer) :
                    IF w.clients[NewSlot].service
                    THEN phase' = phase /\ \E x \in FiveHeartbeats(w, NewSlot) : Becomes(x)
                    ELSE phase' = "crashed" /\ Becomes(w)
           ELSE phase' = phase /\ Becomes(Refused(World))
    /\ UNCHANGED <<writer, c, up, config>>

\* readClient: what was read changes nothing here, but at its end the client is closed
ReadClient(w, s, end) == IF end THEN CloseClient(w, s) ELSE w

\* flushClient for EPOLLOUT, then modesReadFromClient
ClientEvent ==
    /\ phase = "events"
    /\ \E e \in events :
        /\ e.ptr \in Slots /\ clients[e.ptr].service
        /\ events' = events \ {e}
        /\ \E w \in IF e.out THEN Flush(World, e.ptr) ELSE {World} :
            Becomes(ReadClient(w, e.ptr, e.in))
    /\ UNCHANGED <<writer, phase, c, up, config>>

EventsEnd ==
    /\ phase = "events" /\ events = {}
    /\ phase' = "flush"
    /\ UNCHANGED <<sockets, objects, writer, events, c, up, config>>

\* checkFlushService: a heartbeat when nothing was written for net_heartbeat_interval,
\* which is longer than data waits in the writer; then the writer, if nextFlush is reached
Heartbeats ==
    {<<World, writer>>}
        \union (IF config.heartbeat_out /\ writer.data = <<>>
                THEN Written(World, writer, <<0>>, 0) ELSE {})

FlushDue ==
    /\ phase = "flush" /\ connections > 0
    /\ \E r \in Heartbeats :
        /\ r[2].data # <<>>
        /\ \E w \in FlushWrites(r[1], r[2]) : Becomes(w)
        /\ writer' = Flushed(r[2])
    /\ phase' = "reconnect"
    /\ UNCHANGED <<events, c, config, up>>

FlushLater ==
    /\ phase = "flush"
    /\ \E r \in Heartbeats : Becomes(r[1]) /\ writer' = r[2]
    /\ phase' = "reconnect"
    /\ UNCHANGED <<events, c, config, up>>

-----------------------------------------------------------------------------
(* The environment.                                                        *)

Link(k, s) ==
    /\ status' = [status EXCEPT ![k] = s]
    /\ UNCHANGED <<objects, loop, files, interest, room, writer, config, up>>

PeerConnects(k) ==
    /\ k \in config.conns /\ status[k] = "idle" /\ files[ListenFd] = Listen
    /\ Spare > 1    \* one is kept for the connector
    /\ Link(k, "queued")

PeerCloses(k) ==
    \/ status[k] = "queued" /\ Link(k, "aborted")
    \/ status[k] = "open" /\ (k = Remote /\ up => con.connected) /\ Link(k, "gone")

Answer ==
    /\ status[Remote] = "syn"
    /\ \/ Link(Remote, "open")
       \/ ~(up /\ con.try_addr = Good) /\ Link(Remote, "refused")

\* the peer read what it was sent
PeerReads(k) ==
    /\ ~room[k] /\ status[k] = "open"
    /\ room' = [room EXCEPT ![k] = TRUE]
    /\ UNCHANGED <<objects, loop, files, interest, status, writer, up, config>>

\* ten seconds have passed since a client connected
Ages ==
    /\ \E s \in Open(World) :
        clients[s].young /\ clients' = [clients EXCEPT ![s].young = FALSE]
    /\ UNCHANGED <<sockets, loop, connections, con, writer, config, up>>

NetworkRecovers ==
    /\ ~up /\ up' = TRUE
    /\ UNCHANGED <<sockets, objects, loop, writer, config>>
-----------------------------------------------------------------------------
Pass ==
    \/ EpollWait \/ Output \/ OutputEnds
    \/ SkipClosed \/ AcceptEvent \/ ConnectEvent \/ ClientEvent \/ EventsEnd
    \/ Accept \/ AcceptEnds
    \/ FlushDue \/ FlushLater
    \/ ReconnectLater \/ Reconnect \/ DropSilent

Environment ==
    \/ \E k \in Peers : PeerConnects(k)
    \/ \E k \in Conns : PeerCloses(k) \/ PeerReads(k)
    \/ Answer \/ Ages \/ NetworkRecovers

Next == Pass \/ Resolve \/ Environment

Spec == Init /\ [][Next]_vars

\* The decode thread and the resolver run, timers run out in the end, connect() ends,
\* and peers read what they are sent.
Fairness ==
    /\ WF_vars(Pass) /\ WF_vars(Resolve) /\ WF_vars(Answer)
    /\ SF_vars(FlushDue) /\ SF_vars(Reconnect)
    /\ \A k \in Conns : WF_vars(PeerReads(k))

FairSpec == Spec /\ Fairness
-----------------------------------------------------------------------------
\* Every variable keeps its type; a send queue is never full and the writer's buffer
\* holds less than what makes completeWrite flush it.
TypeOK ==
    /\ files \in [Fds -> Conns \union {Free, Listen}]
    /\ interest \in [Fds -> Slots \union {Null, ListenSocket, DummyClient}]
    /\ status \in [Conns -> {"idle", "queued", "aborted", "syn", "refused", "open", "gone"}]
    /\ room \in [Conns -> BOOLEAN]
    /\ \A s \in Slots : clients[s] # Nil =>
        /\ clients[s].fd \in Fds \union {0}
        /\ clients[s].service = (clients[s].fd # 0)
        /\ Len(clients[s].sendq) < SendqMax
        /\ clients[s].from \in 0..config.units
    /\ connections \in 0..Cardinality(Slots)
    /\ con.fd \in Fds \union {0} /\ con.c \in Slots \union {0}
    /\ con.try_addr \in 0..NumAddr /\ con.thread \in {"none", "running", "done"}
    /\ Len(writer.data) < FlushSize /\ writer.units \in 0..config.units
    /\ c \in Slots \union {0} /\ up \in BOOLEAN

\* After every handler of the network code each open descriptor belongs to exactly one
\* object: the listening socket, a connection attempt or a client; epoll reports its
\* events to that object, and the counters of connections count the clients.
FdsOwned ==
    /\ files[ListenFd] = Listen /\ interest[ListenFd] = ListenSocket
    /\ \A f \in Fds \ {ListenFd} :
        LET owners == {s \in Open(World) : clients[s].fd = f}
                        \union (IF con.connecting /\ con.fd = f THEN {DummyClient} ELSE {})
        IN  IF files[f] = Free THEN owners = {} /\ interest[f] = Null
            ELSE owners = {interest[f]}
    /\ connections = Cardinality(Open(World))

\* An event still to be handled points to memory that was not freed, a connector and
\* its client point to each other, and the address list that is being tried was not
\* freed and is not being resolved again.
PointersValid ==
    /\ \A e \in events :
        /\ e.ptr \in Slots => clients[e.ptr] # Nil
        /\ e.ptr = DummyClient => con.connecting
    /\ {s \in Open(World) : clients[s].con} = (IF con.connected THEN {con.c} ELSE {})
    /\ ~(con.connecting /\ con.connected)
    /\ con.try_addr # 0 => con.addr_info /\ ~con.in_progress

\* Descriptors, events, clients and connectors refer to each other and to nothing else,
\* after every handler, whichever of them was closed first.
ReferencesValid == FdsOwned /\ PointersValid

\* What was sent to a client, followed by its send queue, is what was flushed since it
\* connected (or since its queue was discarded): no unit is missing, twice or out of
\* order, whatever send() took of it.
StreamComplete ==
    \A s \in Open(World) :
        LET cl == clients[s]
            flushed == writer.units - Len(Numbered(writer.data))
        IN  cl.sent \o Numbered(cl.sendq) = [i \in 1..(flushed - cl.from) |-> cl.from + i]

\* checkServiceConnected does not use a client after it was closed.
NeverCrashes == phase # "crashed"

\* Once the remote can be reached the connector gets connected, whatever failed before:
\* it resolves the name, goes on to the next address, tries again.
Reconnects == Remote \in config.conns /\ up ~> con.connected

\* something numbered is still to be sent to the client of connection k
Waiting(k) ==
    \E s \in Open(World) :
        files[clients[s].fd] = k /\ Numbered(clients[s].sendq \o writer.data) # <<>>

\* While peers read, what was output for a client is sent, or the client is closed.
OutputDelivered == \A k \in Peers : Waiting(k) ~> ~Waiting(k)
==============================================================================
