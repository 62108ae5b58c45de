---------------------------- MODULE SocketServer ----------------------------
(***************************************************************************)
(* class dk_socket_server as the play device uses it for the render link:  *)
(* the accept thread, which lets every new connection replace the current  *)
(* one, the receive thread, which may still be in recv on the one that was *)
(* replaced, and send(), which uses the current one.                       *)
(***************************************************************************)
EXTENDS TcpStream

VARIABLES
    srvSock,  \* m_sockConn
    spc,      \* receive thread: "poll", "recv"
    srvRecv   \* socketConn of the receive thread

serverVars == <<srvSock, spc, srvRecv>>

ServerTypeOK ==
    /\ srvSock \in Conns \cup {NoConn}
    /\ spc \in {"poll", "recv"}
    /\ srvRecv \in Conns \cup {NoConn}

ServerInit ==
    /\ srvSock = NoConn
    /\ spc = "poll"
    /\ srvRecv = NoConn

\* The replaced socket is not closed.
Accept ==
    /\ listening
    /\ backlog # << >>
    /\ srvSock' = Head(backlog)
    /\ srvOpen' = srvOpen \cup {Head(backlog)}
    /\ backlog' = Tail(backlog)
    /\ UNCHANGED <<listening, cliOpen, toServer, toClient, spc, srvRecv>>

ServerPick ==
    /\ spc = "poll"
    /\ srvSock # NoConn
    /\ srvRecv' = srvSock
    /\ spc' = "recv"
    /\ UNCHANGED <<tcpVars, srvSock>>

\* The socket is closed only if it is still the current one.
ServerEnds ==
    /\ spc = "recv"
    /\ ServerRecvFails(srvRecv)
    /\ IF srvRecv = srvSock
         THEN srvOpen' = srvOpen \ {srvSock} /\ srvSock' = NoConn
         ELSE UNCHANGED <<srvOpen, srvSock>>
    /\ srvRecv' = NoConn
    /\ spc' = "poll"
    /\ UNCHANGED <<listening, cliOpen, backlog, toServer, toClient>>

ServerReads ==
    /\ spc = "recv"
    /\ srvRecv \in toServer
    /\ toServer' = toServer \ {srvRecv}
    /\ srvRecv' = NoConn
    /\ spc' = "poll"
    /\ UNCHANGED <<listening, cliOpen, srvOpen, backlog, toClient, srvSock>>
=============================================================================
