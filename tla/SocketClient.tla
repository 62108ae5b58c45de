---------------------------- MODULE SocketClient ----------------------------
(***************************************************************************)
(* class dk_socket_client with its automatic reconnection, as the render   *)
(* link uses it: connect() called by another thread, the connect thread    *)
(* that polls for a missing connection, and the receive thread.            *)
(*                                                                         *)
(* m_tsAccessSocket protects m_socketConn everywhere but in the receive    *)
(* thread, which closes and clears it after a failed recv without taking   *)
(* the lock: those three steps are separate actions here, and the sections *)
(* under the lock are cut where they can see the difference.               *)
(***************************************************************************)
EXTENDS TcpStream

CONSTANT MaxCalls   \* how often connect() is called

ASSUME MaxCallsAssumption == MaxCalls \in Nat

VARIABLES
    lock,      \* who is inside m_tsAccessSocket: "free", "caller", "connector"
    sock,      \* m_socketConn
    dest,      \* the destination address has been set
    callsLeft, \* calls of connect() still to come
    tpc,       \* connect thread: "poll", "connect", "announce", "send"
    rpc,       \* receive thread: "poll", "recv", "test", "close", "clear"
    rsock      \* sConnect of the receive thread

clientVars == <<lock, sock, dest, callsLeft, tpc, rpc, rsock>>

ClientTypeOK ==
    /\ lock \in {"free", "caller", "connector"}
    /\ sock \in Conns \cup {NoConn}
    /\ dest \in BOOLEAN
    /\ callsLeft \in 0 .. MaxCalls
    /\ tpc \in {"poll", "connect", "announce", "send"}
    /\ rpc \in {"poll", "recv", "test", "close", "clear"}
    /\ rsock \in Conns \cup {NoConn}

ClientInit ==
    /\ lock = "free"
    /\ sock = NoConn
    /\ dest = FALSE
    /\ callsLeft = MaxCalls
    /\ tpc = "poll"
    /\ rpc = "poll"
    /\ rsock = NoConn

-----------------------------------------------------------------------------
(* connect(), called by the thread that receives the panel's command. *)

\* _do_close on the current socket.  The receive thread's own close of the
\* same handle, before or after, makes no difference to the outcome.
ConnectEnter ==
    /\ callsLeft > 0
    /\ lock = "free"
    /\ lock' = "caller"
    /\ cliOpen' = cliOpen \ {sock}
    /\ sock' = NoConn
    /\ UNCHANGED <<listening, srvOpen, backlog, toServer, toClient, dest, callsLeft, tpc, rpc, rsock>>

\* After the sleep of 50 ms; the connect thread does the rest.
ConnectLeave ==
    /\ lock = "caller"
    /\ dest' = TRUE
    /\ callsLeft' = callsLeft - 1
    /\ lock' = "free"
    /\ UNCHANGED <<tcpVars, sock, tpc, rpc, rsock>>

-----------------------------------------------------------------------------
(* ConnectThreadProc. *)

\* The handle is in m_socketConn before ::connect is called.  Which of the
\* fresh connections it names makes no difference.
ConnectorOpens(fresh) ==
    /\ tpc = "poll"
    /\ lock = "free"
    /\ sock = NoConn
    /\ dest
    /\ fresh # {}
    /\ sock' = CHOOSE c \in fresh : TRUE
    /\ OpenSocket(sock')
    /\ lock' = "connector"
    /\ tpc' = "connect"
    /\ UNCHANGED <<dest, callsLeft, rpc, rsock>>

\* m_eventConnected is invoked after the lock is released.
ConnectorConnects ==
    /\ tpc = "connect"
    /\ CanConnect(sock)
    /\ backlog' = Append(backlog, sock)
    /\ lock' = "free"
    /\ tpc' = "announce"
    /\ UNCHANGED <<listening, cliOpen, srvOpen, toServer, toClient, sock, dest, callsLeft, rpc, rsock>>

\* A mutation of ConnectorFails: m_socketConn keeps what socket() returned.
ConnectorFailsInvalid ==
    /\ tpc = "connect"
    /\ ~CanConnect(sock)
    /\ cliOpen' = cliOpen \ {sock}
    /\ sock' = "INVALID_SOCKET"
    /\ lock' = "free"
    /\ tpc' = "poll"
    /\ UNCHANGED <<listening, srvOpen, backlog, toServer, toClient, dest, callsLeft, rpc, rsock>>

\* Nobody listens, or the receive thread has closed or cleared m_socketConn.
ConnectorFails ==
    /\ tpc = "connect"
    /\ ~CanConnect(sock)
    /\ cliOpen' = cliOpen \ {sock}
    /\ sock' = NoConn
    /\ lock' = "free"
    /\ tpc' = "poll"
    /\ UNCHANGED <<listening, srvOpen, backlog, toServer, toClient, dest, callsLeft, rpc, rsock>>

-----------------------------------------------------------------------------
(* ReceiveThreadProc. *)

ReceivePick ==
    /\ rpc = "poll"
    /\ lock = "free"
    /\ sock # NoConn
    /\ rsock' = sock
    /\ rpc' = "recv"
    /\ UNCHANGED <<tcpVars, lock, sock, dest, callsLeft, tpc>>

ReceiveFails ==
    /\ rpc = "recv"
    /\ ClientRecvFails(rsock)
    /\ rpc' = "test"
    /\ rsock' = NoConn
    /\ UNCHANGED <<tcpVars, lock, sock, dest, callsLeft, tpc>>

\* _do_close without the lock, on whatever socket is current by now.
ReceiveTest ==
    /\ rpc = "test"
    /\ rpc' = IF sock = NoConn THEN "clear" ELSE "close"
    /\ UNCHANGED <<tcpVars, lock, sock, dest, callsLeft, tpc, rsock>>

ReceiveClose ==
    /\ rpc = "close"
    /\ cliOpen' = cliOpen \ {sock}
    /\ rpc' = "clear"
    /\ UNCHANGED <<listening, srvOpen, backlog, toServer, toClient, lock, sock, dest, callsLeft, tpc, rsock>>

\* A mutation of ReceiveClear: m_socketConn is left set.
ReceiveKeep ==
    /\ rpc = "clear"
    /\ rpc' = "poll"
    /\ UNCHANGED <<tcpVars, lock, sock, dest, callsLeft, tpc, rsock>>

ReceiveClear ==
    /\ rpc = "clear"
    /\ sock' = NoConn
    /\ rpc' = "poll"
    /\ UNCHANGED <<tcpVars, lock, dest, callsLeft, tpc, rsock>>
=============================================================================
