----------------------------- MODULE TcpStream ------------------------------
(***************************************************************************)
(* Winsock as the two socket classes use it: connections between one       *)
(* client and one listening server.  A connection is a member of Conns;    *)
(* one that no variable of either program refers to any more is used again *)
(* for the next, so that any number of connections can follow each other.  *)
(*                                                                         *)
(* Of the traffic only two things are kept per connection: whether a       *)
(* NEW_INSTANCE is on its way to the server and whether a request for data *)
(* is on its way to the client.                                            *)
(***************************************************************************)
EXTENDS Naturals, Sequences, SequencesExt

CONSTANTS Conns, NoConn

ASSUME NoConnAssumption == NoConn \notin Conns

VARIABLES
    listening,  \* the server's process runs
    cliOpen,    \* connections whose client handle is open
    srvOpen,    \* connections the server has accepted and not closed
    backlog,    \* connections established but not yet accepted
    toServer,   \* connections that hold a NEW_INSTANCE the server has not read
    toClient    \* connections that hold a request the client has not read

tcpVars == <<listening, cliOpen, srvOpen, backlog, toServer, toClient>>

TcpTypeOK ==
    /\ listening \in BOOLEAN
    /\ cliOpen \subseteq Conns
    /\ srvOpen \subseteq Conns
    /\ ToSet(backlog) \subseteq Conns
    /\ toServer \subseteq Conns
    /\ toClient \subseteq Conns

TcpInit ==
    /\ listening = TRUE
    /\ cliOpen = {}
    /\ srvOpen = {}
    /\ backlog = << >>
    /\ toServer = {}
    /\ toClient = {}

\* The server's end of c is there: what the client sends is kept for it, and
\* a client that receives waits.
ServerEnd(c) == c \in srvOpen \cup ToSet(backlog)

\* socket(): a fresh handle, of a connection nobody remembers.
OpenSocket(c) ==
    /\ cliOpen' = cliOpen \cup {c}
    /\ srvOpen' = srvOpen \ {c}
    /\ toServer' = toServer \ {c}
    /\ toClient' = toClient \ {c}
    /\ UNCHANGED <<listening, backlog>>

\* ::connect on an open handle, with the server's process there to listen.
CanConnect(c) == c \in cliOpen /\ listening

\* ::send of the client and of the server; a dead connection swallows it.
ClientSends(c) ==
    toServer' = IF c \in cliOpen /\ ServerEnd(c) THEN toServer \cup {c} ELSE toServer

ServerSends(c) ==
    toClient' = IF c \in srvOpen /\ c \in cliOpen THEN toClient \cup {c} ELSE toClient

\* ::recv returns an error or the end of the stream.
ClientRecvFails(c) == c \notin cliOpen \/ (~ServerEnd(c) /\ c \notin toClient)
ServerRecvFails(c) == c \notin cliOpen /\ c \notin toServer
=============================================================================
