---------------------------- MODULE ApiConnections ----------------------------
(***************************************************************************)
(* One API thread of readsb: its connections, the stack of free connection *)
(* structs and the count of reply bytes held in memory, against the kernel *)
(* and the clients.                                                        *)
(*                                                                         *)
(* epoll_wait returns a batch of events that is handled one by one, so an  *)
(* event may be stale when its turn comes.  A handler is a function of a   *)
(* record w of the variables (World); where a system call may end in       *)
(* several ways, a set of such records.  Times are choices: 5 seconds have *)
(* passed, or not yet.  A request is its last chunk; replies are counted   *)
(* in units.                                                               *)
(***************************************************************************)
EXTENDS Integers, Sequences, SequencesExt, FiniteSetsExt

CONSTANTS
    Clients,
    Configs,        \* api_fds_per_thread, responseBytesBuffered that delays requests, the
                    \* chunks each client sends, whether clients send a request before they
                    \* have the reply to the last, who may hang up
    AcceptMax,      \* connections accepted per wakeup
    RequestMax,     \* chunks of an incomplete request that are too long
    WakeupMax

Kinds  == {"part", "fetch", "status", "bad400", "bad405", "bad505"}
Listen == 0
NoClient == "none"

ASSUME ApiConnectionsAssumption ==
    /\ NoClient \notin Clients
    /\ {AcceptMax, RequestMax, WakeupMax} \subseteq Nat
    /\ \A cf \in Configs :
        /\ cf.structs \in Nat \ {0} /\ cf.limit \in Nat
        /\ cf.pipelining \in BOOLEAN /\ cf.fickle \subseteq Clients
        /\ cf.script \in [Clients -> Seq([kind : Kinds, size : Nat \ {0}, keepalive : BOOLEAN])]

VARIABLES
    net,        \* each client and its connection, in the kernel
    backlog,    \* clients connected to the listening socket, not accepted yet
    cons,       \* thread->cons
    stack,      \* thread->stack
    responseBytesBuffered,
    events,     \* the batch of epoll_wait that is not handled yet
    exit,       \* Modes.exit
    running,    \* is the thread in its loop?
    config      \* never changes

kernel == <<net, backlog>>
thread == <<cons, stack, responseBytesBuffered>>
vars   == <<kernel, thread, events, exit, running, config>>

World == [net |-> net, backlog |-> backlog, cons |-> cons, stack |-> stack,
          buffered |-> responseBytesBuffered, exit |-> exit]

Becomes(w) ==
    /\ net' = w.net /\ backlog' = w.backlog /\ cons' = w.cons /\ stack' = w.stack
    /\ responseBytesBuffered' = w.buffered /\ exit' = w.exit

\* struct apiCon after memset; reply is the request's place in the script, 0 for none
FreshCon == [open |-> FALSE, client |-> NoClient, keepalive |-> FALSE, request |-> 0,
             reply |-> 0, len |-> 0, sent |-> 0, out |-> FALSE, wakeups |-> 0]

Init ==
    /\ config \in Configs
    /\ net = [k \in Clients |-> [status |-> "new", sent |-> 0, inbox |-> <<>>,
                                 gone |-> "no", room |-> TRUE, got |-> <<>>]]
    /\ backlog = <<>>
    /\ cons = [c \in 1..config.structs |-> FreshCon] /\ stack = [c \in 1..config.structs |-> c]
    /\ responseBytesBuffered = 0 /\ events = {}
    /\ exit = FALSE /\ running = TRUE
-----------------------------------------------------------------------------
(* Closing and resetting a connection.                                     *)

\* Fault: the bytes of a reply that was not sent completely are not given back.
CloseConKeepsBytes(w, c) ==
    IF ~w.cons[c].open THEN w
    ELSE [w EXCEPT !.net[w.cons[c].client] = [@ EXCEPT !.status = "closed", !.inbox = <<>>],
                   !.cons[c] = FreshCon, !.stack = Append(@, c)]

\* apiCloseCon: a second call only prints "double close".  Nothing but open is read of a
\* closed struct before its memset, save bytesSent and wakeups, to no effect.
CloseCon(w, c) ==
    IF ~w.cons[c].open THEN w
    ELSE [w EXCEPT !.net[w.cons[c].client] = [@ EXCEPT !.status = "closed", !.inbox = <<>>],
                   !.buffered = @ - w.cons[c].len,
                   !.cons[c] = FreshCon, !.stack = Append(@, c)]

\* apiResetCon: ready for the next request
ResetCon(w, c) ==
    IF ~w.cons[c].open THEN w
    ELSE IF ~w.cons[c].keepalive THEN CloseCon(w, c)
    ELSE [w EXCEPT !.buffered = @ - w.cons[c].len,
                   !.cons[c] = [@ EXCEPT !.request = 0, !.reply = 0, !.len = 0, !.sent = 0]]

\* apiShutdown: the peer is gone, whatever was to be sent
Shutdown(w, c) == CloseCon(w, c)

\* clients receive units of a reply, <<request, unit>>, and statuses
Status(code) == <<0, code>>

\* sendStatus: one send() whose result nobody looks at
SendStatus(w, c, code) ==
    LET k == w.cons[c].client IN
    IF w.net[k].room /\ w.net[k].gone # "reset"
    THEN [w EXCEPT !.net[k].got = Append(@, Status(code))] ELSE w

\* ... and the connection is reset: send400, send405, send505, send200 and send503
Refuse(w, c, code) == ResetCon(SendStatus(w, c, code), c)
-----------------------------------------------------------------------------
(* Sending the reply.                                                      *)

\* how many units send() takes; -1 is an error.  Taking less than all fills the socket.
SendResults(w, c) ==
    LET k      == w.net[w.cons[c].client]
        toSend == w.cons[c].len - w.cons[c].sent
    IN  IF k.gone = "reset" THEN {-1} ELSE IF k.room THEN 0..toSend ELSE {0}

Sent(w, c, n) ==
    LET con == w.cons[c]
        k   == con.client
    IN  [w EXCEPT !.net[k].got = @ \o [i \in 1..n |-> <<con.reply, con.sent + i>>],
                  !.net[k].room = n = con.len - con.sent,
                  !.cons[c].sent = @ + n]

\* Fault: EPOLLOUT is not asked for when the socket takes no more.
SendDataForgetsOut(w, c) ==
    LET con    == w.cons[c]
        toSend == con.len - con.sent
    IN  IF toSend <= 0 THEN {[w EXCEPT !.cons[c].out = FALSE]}
        ELSE {CASE n = -1     -> CloseCon(w, c)
                [] n = toSend -> ResetCon(Sent(w, c, n), c)
                [] OTHER      -> Sent(w, c, n) : n \in SendResults(w, c)}

\* apiSendData.  On a closed connection toSend is negative and nothing is sent.
SendData(w, c) ==
    LET con    == w.cons[c]
        toSend == con.len - con.sent
    IN  IF toSend <= 0 THEN {[w EXCEPT !.cons[c].out = FALSE]}
        ELSE {CASE n = -1     -> CloseCon(w, c)
                [] n = toSend -> ResetCon(Sent(w, c, n), c)
                [] OTHER      -> [Sent(w, c, n) EXCEPT !.cons[c].out = TRUE]
              : n \in SendResults(w, c)}
-----------------------------------------------------------------------------
(* Reading a request.                                                      *)

\* the reply of parseFetch is kept and its bytes are counted, then it is sent
StartReply(w, c, i, size) ==
    SendData([w EXCEPT !.buffered = @ + size,
                       !.cons[c] = [@ EXCEPT !.reply = i, !.len = size, !.sent = 0]], c)

\* the request is complete; the header decides about keepalive only after its first line
Answer(w, c, i) ==
    LET r == config.script[w.cons[c].client][i]
        v == [w EXCEPT !.cons[c].keepalive = r.keepalive]
    IN  CASE r.kind = "bad505" -> {Refuse(w, c, 505)}
          [] r.kind = "bad405" -> {Refuse(v, c, 405)}
          [] r.kind = "status" -> {Refuse(v, c, IF w.exit THEN 503 ELSE 200)}
          [] r.kind = "bad400" -> {Refuse(v, c, 400)}
          [] r.kind = "fetch"  -> StartReply(v, c, i, r.size)

\* Fault: a request that comes while a reply is being sent is answered at once.
ReadDataOverlaps(w, c) ==
    LET k     == w.cons[c].client
        inbox == w.net[k].inbox
        first == SelectInSeq(inbox, LAMBDA i : config.script[k][i].kind # "part")
        v     == [w EXCEPT !.net[k].inbox = <<>>]
    IN  IF first = 0 THEN {[v EXCEPT !.cons[c].request = @ + Len(inbox)]}
        ELSE Answer(v, c, inbox[first])

\* recv: all that has come, up to the end of the first request in it.  What follows in the
\* same buffer is thrown away when the connection is reset.
ReadData(w, c) ==
    LET k     == w.cons[c].client
        inbox == w.net[k].inbox
        first == SelectInSeq(inbox, LAMBDA i : config.script[k][i].kind # "part")
        v     == [w EXCEPT !.net[k].inbox = <<>>]
    IN  IF w.cons[c].len > 0 THEN {CloseCon(v, c)}      \* a request before the reply is sent
        ELSE IF first = 0 THEN {[v EXCEPT !.cons[c].request = @ + Len(inbox)]}
        ELSE Answer(v, c, inbox[first])

\* apiReadRequest: recv has nothing (EAGAIN), data, the end of the stream or an error
ReadRequest(w, c) ==
    LET k == w.net[w.cons[c].client] IN
    IF w.buffered > config.limit THEN {w}
    ELSE IF w.cons[c].request > RequestMax THEN {Refuse(w, c, 400)}
    ELSE IF k.gone # "reset" /\ k.inbox # <<>> THEN ReadData(w, c)
    ELSE IF k.gone # "no" THEN {Shutdown(w, c)}
    ELSE {w}
-----------------------------------------------------------------------------
(* Accepting connections.                                                  *)

Open(w) == {c \in DOMAIN w.cons : w.cons[c].open}

CloseAll(w, which) == FoldSet(LAMBDA c, v : CloseCon(v, c), w, which)

\* a free struct is taken from the stack and its descriptor is added to epoll
TakeCon(w, k) ==
    [w EXCEPT !.backlog = Tail(@), !.net[k].status = "open", !.stack = Front(@),
              !.cons[Last(w.stack)] = [FreshCon EXCEPT !.open = TRUE, !.client = k]]

Reject(w, k) ==
    [w EXCEPT !.backlog = Tail(@),
              !.net[k] = [@ EXCEPT !.status = "closed", !.inbox = <<>>,
                                   !.got = Append(w.net[k].got, Status(503))]]

\* one turn of the loop of acceptCon.  When no struct is free the connections in "old" are
\* closed, those idle for 5 seconds, and another time only much later.
AcceptOne(s, k) ==
    LET starved == s.w.stack = <<>>
        w       == IF starved THEN CloseAll(s.w, s.old) ELSE s.w
    IN  IF s.stop THEN s
        ELSE IF w.stack = <<>> THEN [w |-> Reject(w, k), old |-> {}, stop |-> TRUE]
        ELSE [w |-> TakeCon(w, k), old |-> IF starved THEN {} ELSE s.old, stop |-> FALSE]

\* acceptCon: accept4 ends the loop when it fails, EMFILE ends the program
AcceptCon(w) ==
    {FoldLeft(AcceptOne, [w |-> w, old |-> old, stop |-> FALSE],
              SubSeq(w.backlog, 1, Min({AcceptMax, Len(w.backlog)}))).w : old \in SUBSET Open(w)}
        \union {[w EXCEPT !.exit = TRUE]}
-----------------------------------------------------------------------------
(* apiThreadEntryPoint.                                                    *)

EventOf(c) ==
    LET k == net[cons[c].client] IN
    [con |-> c, in |-> k.inbox # <<>> \/ k.gone # "no",
     out |-> cons[c].out /\ (k.room \/ k.gone = "reset"), hup |-> k.gone # "no"]

Ready ==
    {e \in {EventOf(c) : c \in Open(World)} : e.in \/ e.out \/ e.hup} \union
    (IF backlog = <<>> THEN {} ELSE {[con |-> Listen, in |-> TRUE, out |-> FALSE, hup |-> FALSE]})

\* epoll_wait
Wait ==
    /\ running /\ ~exit /\ events = {} /\ Ready # {}
    /\ events' = Ready
    /\ UNCHANGED <<kernel, thread, exit, running, config>>

\* the turn of a connection that triggered too many events ends with a 500
Woken(w, c) ==
    LET v == [w EXCEPT !.cons[c].wakeups = @ + 1] IN
    IF ~w.cons[c].open THEN {w}
    ELSE IF w.cons[c].wakeups <= WakeupMax THEN {v}
    ELSE {CloseCon(SendStatus(v, c, 500), c)}

OnEvent(w, e) ==
    LET c    == e.con
        read == IF e.in THEN ReadRequest(w, c) ELSE {w}
        sent == UNION {IF e.out THEN SendData(v, c) ELSE {v} : v \in read}
    IN  IF c = Listen THEN AcceptCon(w)
        ELSE IF e.hup THEN IF w.cons[c].open THEN ReadRequest(w, c) ELSE {Shutdown(w, c)}
        ELSE IF w.cons[c].open THEN UNION {Woken(v, c) : v \in sent}
        ELSE Woken(w, c)

HandleEvent(e) ==
    /\ running
    /\ \E w \in OnEvent(World, e) : Becomes(w)
    /\ events' = events \ {e}
    /\ UNCHANGED <<running, config>>

\* the loop ends at exit when the batch is handled; every connection is closed
Leave ==
    /\ running /\ exit /\ events = {}
    /\ Becomes(CloseAll(World, Open(World)))
    /\ running' = FALSE
    /\ UNCHANGED <<events, config>>

Thread == Wait \/ (\E e \in events : HandleEvent(e)) \/ Leave
-----------------------------------------------------------------------------
(* Clients, time and exit.                                                 *)

Connect(k) ==
    /\ net[k].status = "new" /\ config.script[k] # <<>>
    /\ net' = [net EXCEPT ![k].status = "queued"] /\ backlog' = Append(backlog, k)
    /\ UNCHANGED <<thread, events, exit, running, config>>

IsEnd(k, i)     == config.script[k][i].kind # "part"
RequestsSent(k) == {i \in 1..net[k].sent : IsEnd(k, i)}

\* the requests whose reply, or a status in its place, the client has read completely
Statuses(k) == SelectSeq(net[k].got, LAMBDA x : x[1] = 0)
Complete(k) ==
    {i \in DOMAIN config.script[k] : <<i, config.script[k][i].size>> \in ToSet(net[k].got)}
Answered(k) == Cardinality(Complete(k)) + Len(Statuses(k))

SendChunk(k) ==
    /\ net[k].status \in {"queued", "open"} /\ net[k].gone = "no"
    /\ net[k].sent < Len(config.script[k])
    /\ config.pipelining \/ Answered(k) >= Cardinality(RequestsSent(k))
    /\ net' = [net EXCEPT ![k].sent = @ + 1, ![k].inbox = Append(@, net[k].sent + 1)]
    /\ UNCHANGED <<backlog, thread, events, exit, running, config>>

\* the client closes its side ("half") or the connection breaks ("reset")
Hangup(k, how) ==
    /\ k \in config.fickle
    /\ net[k].status \in {"queued", "open"} /\ net[k].gone = "no"
    /\ net' = [net EXCEPT ![k].gone = how]
    /\ UNCHANGED <<backlog, thread, events, exit, running, config>>

\* the client reads, and the socket has room again
Drain(k) ==
    /\ ~net[k].room
    /\ net' = [net EXCEPT ![k].room = TRUE]
    /\ UNCHANGED <<backlog, thread, events, exit, running, config>>

SetExit ==
    /\ ~exit
    /\ exit' = TRUE
    /\ UNCHANGED <<kernel, thread, events, running, config>>

Client(k) == Connect(k) \/ SendChunk(k) \/ Hangup(k, "half") \/ Hangup(k, "reset")

\* the thread has ended
Ended == ~running /\ UNCHANGED vars

Next ==
    \/ Thread \/ Ended
    \/ \E k \in Clients : Client(k) \/ Drain(k)
    \/ SetExit

Spec == Init /\ [][Next]_vars

\* the thread runs; a client that does not hang up reads what it is sent; none has to
\* send anything.
FairSpec == Spec /\ WF_vars(Thread) /\ \A k \in Clients : WF_vars(Drain(k))
-----------------------------------------------------------------------------
TypeOK ==
    /\ \A k \in Clients :
        /\ net[k].status \in {"new", "queued", "open", "closed"}
        /\ net[k].gone \in {"no", "half", "reset"} /\ net[k].room \in BOOLEAN
        /\ net[k].sent \in 0..Len(config.script[k])
    /\ \A c \in DOMAIN cons :
        /\ cons[c].client \in Clients \union {NoClient}
        /\ {cons[c].request, cons[c].len, cons[c].sent, cons[c].wakeups} \subseteq Nat
    /\ responseBytesBuffered \in Int
    /\ {exit, running} \subseteq BOOLEAN

\* Every connection struct is either open or on the stack, once; two open ones never serve
\* the same client, and an accepted client whose connection is not closed has one.
ConsConserved ==
    /\ ToSet(stack) = (DOMAIN cons) \ Open(World)
    /\ Len(stack) = Cardinality(ToSet(stack))
    /\ \A c \in Open(World) : net[cons[c].client].status = "open"
    /\ \A k \in Clients : net[k].status = "open" =>
        Cardinality({c \in Open(World) : cons[c].client = k}) = 1

\* responseBytesBuffered is what the open connections hold, whatever way they end, and it
\* exceeds its limit by one reply at the most.
RepliesAccounted ==
    /\ responseBytesBuffered = MapThenSumSet(LAMBDA c : cons[c].len, Open(World))
    /\ responseBytesBuffered > 0 =>
        \E k \in Clients : \E r \in ToSet(config.script[k]) :
            responseBytesBuffered <= config.limit + r.size

\* Neither connection structs nor reply memory leak or are released twice, however a
\* connection ends.
NothingLeaks == ConsConserved /\ RepliesAccounted

\* What a client receives is the replies to its own requests, in order, each one whole
\* before the next begins; a status that comes in the middle of a reply is the end.
RepliesInOrder ==
    \A k \in Clients : \A n \in DOMAIN net[k].got :
        LET got == net[k].got
            i   == got[n][1]
            u   == got[n][2]
        IN  i # 0 =>
            /\ i \in RequestsSent(k) /\ config.script[k][i].kind = "fetch"
            /\ u <= config.script[k][i].size
            /\ u > 1 => n > 1 /\ got[n - 1] = <<i, u - 1>>
            /\ u < config.script[k][i].size /\ n < Len(got) =>
                \/ got[n + 1] = <<i, u + 1>>
                \/ got[n + 1] = Status(500) /\ n + 1 = Len(got)
            /\ \A m \in 1..(n - 1) : got[m][1] <= i

\* A request that was sent is answered, unless its connection ends.
RequestsAnswered ==
    \A k \in Clients :
        ~config.pipelining /\ RequestsSent(k) # {} /\ net[k].status = "open" /\ net[k].gone = "no" ~>
            \/ Answered(k) >= Cardinality(RequestsSent(k))
            \/ net[k].status = "closed" \/ net[k].gone # "no"
=============================================================================
