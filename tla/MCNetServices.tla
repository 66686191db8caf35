---------------------------- MODULE MCNetServices ----------------------------
(* Services for TLC. *)
EXTENDS NetServices

CONSTANTS p1, p2

Service(conns, heartbeats, units) ==
    [conns |-> conns, heartbeat_out |-> heartbeats, units |-> units]

\* one client, with heartbeats or without; two clients; a connector, alone or beside a
\* listening socket
Services ==
    {Service({p1}, TRUE, 2), Service({p1}, FALSE, 3), Service({p1, p2}, FALSE, 1),
     Service({Remote}, TRUE, 0), Service({Remote}, FALSE, 1), Service({p1, Remote}, FALSE, 0)}

Greeting == {Service({Remote}, TRUE, 0)}
Crowd    == {Service({p1, p2}, FALSE, 0)}
==============================================================================
