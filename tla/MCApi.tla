-------------------------------- MODULE MCApi --------------------------------
(* API clients for TLC. *)
EXTENDS ApiConnections

CONSTANTS k1, k2

Chunk(kind, size, keepalive) == [kind |-> kind, size |-> size, keepalive |-> keepalive]
Part        == Chunk("part", 1, FALSE)
Fetch(size) == Chunk("fetch", size, TRUE)

Serve(n, limit, p, fickle, a, b) ==
    [structs |-> n, limit |-> limit, pipelining |-> p, fickle |-> fickle,
     script |-> [k \in Clients |-> IF k = k1 THEN a ELSE b]]

\* pipelining; a request in two reads and keep-alive; the memory limit; refusals; a request
\* that is too long; more clients than structs
Traffic ==
    {Serve(2, 2, TRUE, {k1}, <<Fetch(2), Fetch(1)>>, <<>>),
     Serve(2, 0, FALSE, {k1, k2}, <<Part, Fetch(2), Chunk("fetch", 1, FALSE)>>, <<>>),
     Serve(2, 0, FALSE, {k1}, <<Fetch(2)>>, <<Fetch(1)>>),
     Serve(2, 0, FALSE, {k1, k2}, <<Chunk("status", 1, TRUE), Chunk("bad400", 1, TRUE)>>, <<>>),
     Serve(2, 0, FALSE, {k1, k2}, <<Part, Part, Chunk("bad405", 1, FALSE)>>,
           <<Chunk("bad505", 1, TRUE)>>),
     Serve(1, 0, FALSE, {k1, k2}, <<Fetch(2)>>, <<Part>>)}
==============================================================================
