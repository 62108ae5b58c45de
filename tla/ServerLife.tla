----------------------------- MODULE ServerLife -----------------------------
(***************************************************************************)
(* The life of a dk_socket_server: its accept thread and its receive       *)
(* thread, the lock LLXTSHelper that guards m_sockConn, send(), and the    *)
(* destructor, which closes the sockets, cancels the lock and waits for    *)
(* both threads without a limit.  SocketServer models what the render      *)
(* link makes of the connections while the server lives.                   *)
(*                                                                         *)
(* Peers connect, send and close as they like, or do nothing at all.       *)
(***************************************************************************)
EXTENDS LLXTSHelper

CONSTANTS
    Conns,   \* the connections peers make, each of them once
    NoConn   \* m_sockConn = NULL

ASSUME ServerAssumption == NoConn \notin Conns

\* The threads that use the lock.
Users == {"receive", "accept", "send"}

VARIABLES
    life,      \* the owner: "new", "running", a step of the destructor, "gone"
    needExit,  \* m_hEventNeedExit is set, and later closed: a wait does not time out
    listening, \* m_socketListen is open
    cur,       \* m_sockConn
    open,      \* accepted sockets that are not closed
    unused,    \* connections not yet made
    pending,   \* connections not yet accepted
    data,      \* connections with bytes to read
    ended,     \* connections the peer has closed
    pc,        \* pc[u]: where thread u is
    sock,      \* sock[u]: its local variable socketConn
    raced      \* what makes the destructor wait: "replaced", "late"

peerVars == <<unused, pending, data, ended>>
serverVars == <<life, lockVars, needExit, listening, cur, open, peerVars, pc, sock, raced>>

ServerInit ==
    /\ life = "new"
    /\ LockInit
    /\ needExit = FALSE
    /\ listening = FALSE
    /\ cur = NoConn
    /\ open = {}
    /\ unused = Conns
    /\ pending = {}
    /\ data = {}
    /\ ended = {}
    /\ pc = [u \in Users |-> "none"]
    /\ sock = [u \in Users |-> NoConn]
    /\ raced = {}

\* closesocket: what the peer of c has done no longer matters.
Close(c) == open' = open \ {c} /\ data' = data \ {c} /\ ended' = ended \ {c}

-----------------------------------------------------------------------------
(* The peers. *)

Connects(c) ==
    /\ listening
    /\ c \in unused
    /\ unused' = unused \ {c}
    /\ pending' = pending \cup {c}
    /\ UNCHANGED <<life, lockVars, needExit, listening, cur, open, data, ended, pc, sock, raced>>

PeerSends(c) ==
    /\ c \in open \ (data \cup ended)
    /\ data' = data \cup {c}
    /\ UNCHANGED <<life, lockVars, needExit, listening, cur, open, unused, pending, ended, pc, sock, raced>>

PeerCloses(c) ==
    /\ c \in open \ ended
    /\ ended' = ended \cup {c}
    /\ UNCHANGED <<life, lockVars, needExit, listening, cur, open, unused, pending, data, pc, sock, raced>>

-----------------------------------------------------------------------------
(* AcceptThreadProc. *)

Goes(u, from, to) == pc[u] = from /\ pc' = [pc EXCEPT ![u] = to]

\* Both threads begin each round with the event that ends them.
WaitEnds(u) ==
    /\ needExit
    /\ Goes(u, "wait", "ended")
    /\ UNCHANGED <<life, lockVars, needExit, listening, cur, open, peerVars, sock, raced>>

WaitTimesOut(u, to) ==
    /\ ~needExit
    /\ Goes(u, "wait", to)
    /\ UNCHANGED <<life, lockVars, needExit, listening, cur, open, peerVars, sock, raced>>

AcceptFails ==
    /\ ~listening
    /\ Goes("accept", "accept", "wait")
    /\ UNCHANGED <<life, lockVars, needExit, listening, cur, open, peerVars, sock, raced>>

Accepted(c) ==
    /\ listening
    /\ c \in pending
    /\ Goes("accept", "accept", "enter")
    /\ pending' = pending \ {c}
    /\ open' = open \cup {c}
    /\ sock' = [sock EXCEPT !["accept"] = c]
    /\ UNCHANGED <<life, lockVars, needExit, listening, cur, unused, data, ended, raced>>

\* The thread goes on whether or not it is inside.
AcceptEnters ==
    /\ Goes("accept", "enter", "store")
    /\ SafeEnter("accept") \/ SafeEnterFails
    /\ UNCHANGED <<life, needExit, listening, cur, open, peerVars, sock, raced>>

\* The socket that is replaced stays open, and the receive thread stays in
\* recv on it.  After the destructor has closed m_sockConn it does not look again.
Stored ==
    /\ Goes("accept", "store", "leave")
    /\ cur' = sock["accept"]
    /\ raced' = IF life \in {"running", "listen closed"} THEN raced ELSE raced \cup {"late"}
    /\ UNCHANGED <<life, lockVars, needExit, listening, open, peerVars, sock>>

AcceptLeaves ==
    /\ Goes("accept", "leave", "wait")
    /\ SafeExit("accept")
    /\ sock' = [sock EXCEPT !["accept"] = NoConn]
    /\ UNCHANGED <<life, needExit, listening, cur, open, peerVars, raced>>

-----------------------------------------------------------------------------
(* ReceiveThreadProc. *)

ReceiveEnters ==
    /\ \/ Goes("receive", "enter", "read") /\ SafeEnter("receive")
       \/ Goes("receive", "enter", "ended") /\ SafeEnterFails
    /\ UNCHANGED <<life, needExit, listening, cur, open, peerVars, sock, raced>>

\* m_sockConn is copied, and without a connection the round is over.
ReceiveReads ==
    /\ Goes("receive", "read", IF cur = NoConn THEN "wait" ELSE "recv")
    /\ SafeExit("receive")
    /\ sock' = [sock EXCEPT !["receive"] = cur]
    /\ UNCHANGED <<life, needExit, listening, cur, open, peerVars, raced>>

\* recv returns bytes, and m_eventRecvData is invoked with them.
Received ==
    /\ sock["receive"] \in open \cap data
    /\ Goes("receive", "recv", "callback")
    /\ data' = data \ {sock["receive"]}
    /\ UNCHANGED <<life, lockVars, needExit, listening, cur, open, unused, pending, ended, sock, raced>>

CallbackReturns ==
    /\ Goes("receive", "callback", "wait")
    /\ sock' = [sock EXCEPT !["receive"] = NoConn]
    /\ UNCHANGED <<life, lockVars, needExit, listening, cur, open, peerVars, raced>>

\* recv fails, the peer having closed or the socket being closed under it, and
\* m_eventDisConnected is invoked.
ReceiveFails ==
    /\ sock["receive"] \in ended \ data \/ sock["receive"] \notin open
    /\ Goes("receive", "recv", "lost")
    /\ UNCHANGED <<life, lockVars, needExit, listening, cur, open, peerVars, sock, raced>>

LostEnters ==
    /\ Goes("receive", "lost", "compare")
    /\ SafeEnter("receive") \/ SafeEnterFails
    /\ UNCHANGED <<life, needExit, listening, cur, open, peerVars, sock, raced>>

\* A mutation of Compares: any current connection is taken for the lost one.
ComparesNothing ==
    /\ Goes("receive", "compare", IF cur # NoConn THEN "close" ELSE "leave")
    /\ UNCHANGED <<life, lockVars, needExit, listening, cur, open, peerVars, sock, raced>>

Compares ==
    /\ Goes("receive", "compare", IF cur = sock["receive"] THEN "close" ELSE "leave")
    /\ UNCHANGED <<life, lockVars, needExit, listening, cur, open, peerVars, sock, raced>>

Closes ==
    /\ Goes("receive", "close", "forget")
    /\ Close(cur)
    /\ UNCHANGED <<life, lockVars, needExit, listening, cur, unused, pending, sock, raced>>

Forgets ==
    /\ Goes("receive", "forget", "leave")
    /\ cur' = NoConn
    /\ UNCHANGED <<life, lockVars, needExit, listening, open, peerVars, sock, raced>>

LostLeaves ==
    /\ Goes("receive", "leave", "wait")
    /\ SafeExit("receive")
    /\ sock' = [sock EXCEPT !["receive"] = NoConn]
    /\ UNCHANGED <<life, needExit, listening, cur, open, peerVars, raced>>

-----------------------------------------------------------------------------
(* send(), called by a thread of the owner while the server lives. *)

SendEnters ==
    /\ life = "running"
    /\ Goes("send", "none", "read")
    /\ SafeEnter("send")
    /\ UNCHANGED <<life, needExit, listening, cur, open, peerVars, sock, raced>>

\* The socket is used after the lock has been left.
SendReads ==
    /\ Goes("send", "read", IF cur = NoConn THEN "none" ELSE "sending")
    /\ SafeExit("send")
    /\ sock' = [sock EXCEPT !["send"] = cur]
    /\ UNCHANGED <<life, needExit, listening, cur, open, peerVars, raced>>

SendReturns ==
    /\ Goes("send", "sending", "none")
    /\ sock' = [sock EXCEPT !["send"] = NoConn]
    /\ UNCHANGED <<life, lockVars, needExit, listening, cur, open, peerVars, raced>>

-----------------------------------------------------------------------------
(* start() and the destructor. *)

Start ==
    /\ life = "new"
    /\ life' = "running"
    /\ listening' = TRUE
    /\ pc' = [pc EXCEPT !["accept"] = "wait", !["receive"] = "wait"]
    /\ UNCHANGED <<lockVars, needExit, cur, open, peerVars, sock, raced>>

LifeGoes(from, to) == life = from /\ life' = to

\* closesocket( m_socketListen ); no other thread of the owner is in send().
Destroy ==
    /\ LifeGoes("running", "listen closed")
    /\ pc["send"] = "none"
    /\ listening' = FALSE
    /\ pending' = {}
    /\ UNCHANGED <<lockVars, needExit, cur, open, unused, data, ended, pc, sock, raced>>

\* m_sockConn is closed outside the lock; a receive thread that has picked a
\* connection since replaced is left in recv.
ConnClosed ==
    /\ LifeGoes("listen closed", "closed")
    /\ Close(cur)
    /\ cur' = NoConn
    /\ raced' = IF pc["receive"] = "recv" /\ sock["receive"] # cur THEN {"replaced"} ELSE {}
    /\ UNCHANGED <<lockVars, needExit, listening, unused, pending, pc, sock>>

\* A mutation of ExitSet: the threads are not told.
ExitNotSet ==
    /\ LifeGoes("closed", "exit set")
    /\ UNCHANGED <<lockVars, needExit, listening, cur, open, peerVars, pc, sock, raced>>

ExitSet ==
    /\ LifeGoes("closed", "exit set")
    /\ needExit' = TRUE
    /\ UNCHANGED <<lockVars, listening, cur, open, peerVars, pc, sock, raced>>

AccessCancelled ==
    /\ LifeGoes("exit set", "cancelled")
    /\ CancelAllAccess
    /\ UNCHANGED <<needExit, listening, cur, open, peerVars, pc, sock, raced>>

\* Both threads have ended, and m_pBufRecv is freed.
Joined ==
    /\ LifeGoes("cancelled", "gone")
    /\ pc["receive"] = "ended"
    /\ pc["accept"] = "ended"
    /\ UNCHANGED <<lockVars, needExit, listening, cur, open, peerVars, pc, sock, raced>>

-----------------------------------------------------------------------------

Peers == \E c \in Conns : Connects(c) \/ PeerSends(c) \/ PeerCloses(c)

AcceptThread ==
    \/ WaitEnds("accept") \/ WaitTimesOut("accept", "accept")
    \/ AcceptFails
    \/ \E c \in Conns : Accepted(c)
    \/ AcceptEnters \/ Stored \/ AcceptLeaves

ReceiveThread ==
    \/ WaitEnds("receive") \/ WaitTimesOut("receive", "enter")
    \/ ReceiveEnters \/ ReceiveReads \/ Received \/ CallbackReturns \/ ReceiveFails
    \/ LostEnters \/ Compares \/ Closes \/ Forgets \/ LostLeaves

Sender == SendEnters \/ SendReads \/ SendReturns

Destructor == ConnClosed \/ ExitSet \/ AccessCancelled \/ Joined

ServerNext ==
    \/ Peers \/ AcceptThread \/ ReceiveThread \/ Sender
    \/ Start \/ Destroy \/ Destructor

\* Threads run, callbacks and ::send return, and a thread that waits for the
\* lock while others use it gets it.  No peer has to do anything.
ServerFairness ==
    /\ SF_serverVars(ReceiveThread) /\ SF_serverVars(AcceptThread)
    /\ WF_serverVars(SendReads \/ SendReturns) /\ WF_serverVars(Destructor)

ServerSpec == ServerInit /\ [][ServerNext]_serverVars
ServerFairSpec == ServerSpec /\ ServerFairness

-----------------------------------------------------------------------------

ServerTypeOK ==
    /\ life \in {"new", "running", "listen closed", "closed", "exit set", "cancelled", "gone"}
    /\ LockOK /\ {needExit, listening} \subseteq BOOLEAN
    /\ cur \in Conns \cup {NoConn}
    /\ {open, unused, pending, data, ended} \subseteq SUBSET Conns
    /\ pc \in [Users -> {"none", "wait", "enter", "accept", "store", "leave", "read", "recv",
                         "callback", "lost", "compare", "close", "forget", "sending", "ended"}]
    /\ sock \in [Users -> Conns \cup {NoConn}]
    /\ inside \in SUBSET Users
    /\ raced \in SUBSET {"replaced", "late"}

\* While the server lives the receive thread closes the socket whose recv
\* failed and no other, and none twice: never a connection that was accepted
\* while it was told of the loss.
ClosesItsOwn ==
    [][life = "running" /\ open' # open /\ pc["receive"] = "close" /\ pc'["receive"] # "close"
          => open \ open' = {sock["receive"]}]_serverVars

\* The destructor returns, whatever the peers do, unless the receive thread was
\* left in recv on a connection that another had replaced, or a connection was
\* stored after the destructor had closed the current one.
DestructorReturns == life \notin {"new", "running"} ~> life = "gone" \/ raced # {}
=============================================================================
