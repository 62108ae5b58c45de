--------------------------- MODULE RenderSession ----------------------------
(***************************************************************************)
(* How a pull comes about: the render connection of dk_pd_proxy_4_render   *)
(* with the play device's server, the ASIO interface that dk_asio_root and *)
(* dk_pcm_engine attach and detach, and the NEW_INSTANCE package that one  *)
(* or the other must send for the device to ask for its first block.       *)
(*                                                                         *)
(* The device may crash and be started again at most MaxCrashes times.     *)
(***************************************************************************)
EXTENDS SocketClient, SocketServer

CONSTANT MaxCrashes

ASSUME MaxCrashesAssumption == MaxCrashes \in Nat

VARIABLES
    hpc,       \* the host: "none", "notify", "store", "attached", "unstore"
    engIntf,   \* dk_pcm_engine has an interface
    rootIntf,  \* dk_asio_root has an interface
    wantedOn,  \* connection of the last request the interface was given
    newInst,   \* the device's m_hEventNewInstance
    crashes    \* crashes of the device so far

sessionVars == <<hpc, engIntf, rootIntf, wantedOn, newInst, crashes>>
vars == <<tcpVars, clientVars, serverVars, sessionVars>>

TypeOK ==
    /\ TcpTypeOK /\ ClientTypeOK /\ ServerTypeOK
    /\ hpc \in {"none", "notify", "store", "attached", "unstore"}
    /\ engIntf \in BOOLEAN
    /\ rootIntf \in BOOLEAN
    /\ wantedOn \in Conns \cup {NoConn}
    /\ newInst \in BOOLEAN
    /\ crashes \in 0 .. MaxCrashes

Init ==
    /\ TcpInit /\ ClientInit /\ ServerInit
    /\ hpc = "none"
    /\ engIntf = FALSE
    /\ rootIntf = FALSE
    /\ wantedOn = NoConn
    /\ newInst = FALSE
    /\ crashes = 0

\* Connections no variable of either side refers to.
Fresh == Conns \ ({sock, rsock, srvSock, srvRecv, wantedOn} \cup ToSet(backlog))

-----------------------------------------------------------------------------
(* dk_pd_proxy_4_render on the client's events. *)

\* A mutation of OnConnected: only an interface that is attached later is
\* announced.
OnConnectedSilent ==
    /\ tpc = "announce"
    /\ tpc' = "poll"
    /\ UNCHANGED <<tcpVars, lock, sock, dest, callsLeft, rpc, rsock, serverVars, sessionVars>>

\* _on_connected reads m_pIntfCur of the root.
OnConnected ==
    /\ tpc = "announce"
    /\ tpc' = IF rootIntf THEN "send" ELSE "poll"
    /\ UNCHANGED <<tcpVars, lock, sock, dest, callsLeft, rpc, rsock, serverVars, sessionVars>>

\* sendNewInstance: on the socket that is current by then.
OnConnectedSends ==
    /\ tpc = "send"
    /\ lock = "free"
    /\ ClientSends(sock)
    /\ tpc' = "poll"
    /\ UNCHANGED <<listening, cliOpen, srvOpen, backlog, toClient>>
    /\ UNCHANGED <<lock, sock, dest, callsLeft, rpc, rsock, serverVars, sessionVars>>

\* _on_recv: the engine hands the request to its interface.  It waits while
\* _on_event_IntfChange is inside the engine's lock.
OnWantData ==
    /\ rpc = "recv"
    /\ rsock \in toClient
    /\ rsock \in cliOpen
    /\ hpc # "notify"
    /\ toClient' = toClient \ {rsock}
    /\ wantedOn' = IF engIntf THEN rsock ELSE wantedOn
    /\ rpc' = "poll"
    /\ rsock' = NoConn
    /\ UNCHANGED <<listening, cliOpen, srvOpen, backlog, toServer>>
    /\ UNCHANGED <<lock, sock, dest, callsLeft, tpc, serverVars>>
    /\ UNCHANGED <<hpc, engIntf, rootIntf, newInst, crashes>>

-----------------------------------------------------------------------------
(* setASIOInterface, called by the constructor and destructor of DKASIOUser. *)

AttachEngine ==
    /\ hpc = "none"
    /\ engIntf' = TRUE
    /\ hpc' = "notify"
    /\ UNCHANGED <<tcpVars, clientVars, serverVars, rootIntf, wantedOn, newInst, crashes>>

\* Without a connection the package is dropped.
AttachSends ==
    /\ hpc = "notify"
    /\ lock = "free"
    /\ ClientSends(sock)
    /\ hpc' = "store"
    /\ UNCHANGED <<listening, cliOpen, srvOpen, backlog, toClient>>
    /\ UNCHANGED <<clientVars, serverVars, engIntf, rootIntf, wantedOn, newInst, crashes>>

\* m_pIntfCur is assigned after the listeners of m_eventIntfChange have run.
AttachStore ==
    /\ hpc = "store"
    /\ rootIntf' = TRUE
    /\ hpc' = "attached"
    /\ UNCHANGED <<tcpVars, clientVars, serverVars, engIntf, wantedOn, newInst, crashes>>

DetachEngine ==
    /\ hpc = "attached"
    /\ engIntf' = FALSE
    /\ hpc' = "unstore"
    /\ UNCHANGED <<tcpVars, clientVars, serverVars, rootIntf, wantedOn, newInst, crashes>>

DetachStore ==
    /\ hpc = "unstore"
    /\ rootIntf' = FALSE
    /\ wantedOn' = NoConn
    /\ hpc' = "none"
    /\ UNCHANGED <<tcpVars, clientVars, serverVars, engIntf, newInst, crashes>>

-----------------------------------------------------------------------------
(* The play device. *)

DeviceReads ==
    /\ ServerReads
    /\ newInst' = TRUE
    /\ UNCHANGED <<clientVars, hpc, engIntf, rootIntf, wantedOn, crashes>>

\* The render thread asks on the connection that is current.
DeviceAsks ==
    /\ newInst
    /\ newInst' = FALSE
    /\ ServerSends(srvSock)
    /\ UNCHANGED <<listening, cliOpen, srvOpen, backlog, toServer>>
    /\ UNCHANGED <<clientVars, serverVars, hpc, engIntf, rootIntf, wantedOn, crashes>>

\* What was on its way to the client may be lost with the connection.
DeviceCrashes ==
    /\ listening
    /\ crashes < MaxCrashes
    /\ crashes' = crashes + 1
    /\ listening' = FALSE
    /\ srvOpen' = {}
    /\ backlog' = << >>
    /\ toServer' = {}
    /\ toClient' \in {toClient, {}}
    /\ srvSock' = NoConn
    /\ srvRecv' = NoConn
    /\ spc' = "poll"
    /\ newInst' = FALSE
    /\ UNCHANGED <<cliOpen, clientVars, hpc, engIntf, rootIntf, wantedOn>>

DeviceRestarts ==
    /\ ~listening
    /\ listening' = TRUE
    /\ UNCHANGED <<cliOpen, srvOpen, backlog, toServer, toClient>>
    /\ UNCHANGED <<clientVars, serverVars, sessionVars>>

-----------------------------------------------------------------------------

Caller == (ConnectEnter \/ ConnectLeave) /\ UNCHANGED <<serverVars, sessionVars>>

Connector ==
    \/ /\ ConnectorOpens(Fresh) \/ ConnectorConnects \/ ConnectorFails
       /\ UNCHANGED <<serverVars, sessionVars>>
    \/ OnConnected
    \/ OnConnectedSends

Receiver ==
    \/ /\ ReceivePick \/ ReceiveFails \/ ReceiveTest \/ ReceiveClose \/ ReceiveClear
       /\ UNCHANGED <<serverVars, sessionVars>>
    \/ OnWantData

Attach == AttachEngine \/ AttachSends \/ AttachStore
Detach == DetachEngine \/ DetachStore

Acceptor == Accept /\ UNCHANGED <<clientVars, sessionVars>>

DeviceReceiver ==
    \/ (ServerPick \/ ServerEnds) /\ UNCHANGED <<clientVars, sessionVars>>
    \/ DeviceReads

Next ==
    \/ Caller
    \/ Connector
    \/ Receiver
    \/ Attach
    \/ Detach
    \/ Acceptor
    \/ DeviceReceiver
    \/ DeviceAsks
    \/ DeviceCrashes
    \/ DeviceRestarts

\* Every thread runs.  connect() returns once it was called, and so does
\* setASIOInterface; nobody has to call them, to crash or to restart.
Fairness ==
    /\ WF_vars(ConnectLeave /\ UNCHANGED <<serverVars, sessionVars>>)
    /\ WF_vars(Connector)
    /\ SF_vars(Receiver)
    /\ WF_vars(AttachSends)
    /\ WF_vars(AttachStore)
    /\ WF_vars(DetachStore)
    /\ WF_vars(Acceptor)
    /\ WF_vars(DeviceReceiver)
    /\ WF_vars(DeviceAsks)

Spec == Init /\ [][Next]_vars
FairSpec == Spec /\ Fairness

-----------------------------------------------------------------------------

\* From now on the device runs, the destination is known and nobody calls
\* connect().
Quiet == listening /\ dest /\ lock # "caller"

\* After the last connect() and the last crash the client gets a connection
\* and keeps it, and it is the one the device sends on, whatever the receive
\* thread has closed without the lock on the way.
Reconnects ==
    <>[]Quiet /\ <>[][~ConnectEnter]_vars
      => <>[](sock # NoConn /\ sock \in cliOpen /\ sock = srvSock)

\* With an interface attached and a connection that stays, the device asks the
\* interface for its first block on that connection.
Asked ==
    <>[](Quiet /\ hpc = "attached") /\ <>[][~ConnectEnter]_vars
      => <>[](wantedOn # NoConn /\ wantedOn = sock)

\* An interface is being attached, its NEW_INSTANCE has been sent or dropped,
\* and the connect thread asks the root whether there is an interface.
Overlap == hpc = "store" /\ tpc = "announce"

\* The receive thread, which has closed one socket, is about to clear another
\* that is connected: nobody will ever close that one.
Leak == rpc = "clear" /\ sock \in cliOpen /\ ServerEnd(sock)

\* These two races are the only ways to lose the NEW_INSTANCE package a pull
\* begins with: no other order of connecting, closing, crashing, attaching and
\* detaching does.
AskedUnlessRaced == []~(Overlap \/ Leak) => Asked

-----------------------------------------------------------------------------
(* What the doc promises, and the two races break. *)

\* Step 10 of the doc: after Connect the source is in contact with the device,
\* that is, what it sends on its connection is read.
ContactMade ==
    <>[]Quiet /\ <>[][~ConnectEnter]_vars => []<>(sock # NoConn /\ sock \notin toServer)
=============================================================================
