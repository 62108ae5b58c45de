----------------------------- MODULE ClientLife -----------------------------
(***************************************************************************)
(* The life of a dk_socket_client: the calls of its owner, the connect     *)
(* thread, the receive thread, their callbacks, which send, and the        *)
(* destructor.  All of them go through the lock LLXTSHelper but for the    *)
(* receive thread when it closes m_socketConn.  SocketClient models what   *)
(* the render link makes of the connections while the client lives.        *)
(*                                                                         *)
(* Peers answer, send and close as they like, or do nothing at all.        *)
(***************************************************************************)
EXTENDS LLXTSHelper

CONSTANTS
    Conns,   \* the sockets the connect thread opens, each of them once
    NoConn   \* m_socketConn = NULL

\* What the constants have to be; the module that instantiates this one assumes it.
ClientAssumption == NoConn \notin Conns

\* The threads that use the lock.
Users == {"receive", "connect", "owner"}

VARIABLES
    life,      \* "new", "running", "told", "cancelled", "gone"
    needExit,  \* m_hEventNeedExit is set, and later closed
    dest,      \* the destination address has been set
    cur,       \* m_socketConn
    unused,    \* sockets not yet opened
    open,      \* sockets that are not closed
    data,      \* connections with bytes to read
    ended,     \* connections the peer has closed
    pc,        \* pc[u]: where thread u is
    sock       \* sConnect of the receive thread while it is in recv

vars == <<life, lockVars, needExit, dest, cur, unused, open, data, ended, pc, sock>>

Init ==
    /\ life = "new"
    /\ LockInit
    /\ needExit = FALSE
    /\ dest = FALSE
    /\ cur = NoConn
    /\ unused = Conns
    /\ open = {} /\ data = {} /\ ended = {}
    /\ pc = [u \in Users |-> "none"]
    /\ sock = NoConn

Goes(u, from, to) == pc[u] = from /\ pc' = [pc EXCEPT ![u] = to]

\* What a step of a thread leaves alone that touches the lock at most.
Rest == <<life, needExit, dest, cur, unused, open, data, ended, sock>>

\* A thread enters, or is turned away.
Enters(u, from, to, refused) ==
    /\ \/ Goes(u, from, to) /\ SafeEnter(u)
       \/ Goes(u, from, refused) /\ SafeEnterFails
    /\ UNCHANGED Rest

Leaves(u, from, to) == Goes(u, from, to) /\ SafeExit(u) /\ UNCHANGED Rest

\* closesocket: what the peer of c has done no longer matters.
Close(c) == open' = open \ {c} /\ data' = data \ {c} /\ ended' = ended \ {c}

-----------------------------------------------------------------------------
(* The peers. *)

PeerSends(c) ==
    /\ c \in open \ (data \cup ended)
    /\ data' = data \cup {c}
    /\ UNCHANGED <<life, lockVars, needExit, dest, cur, unused, open, ended, pc, sock>>

PeerCloses(c) ==
    /\ c \in open \ ended
    /\ ended' = ended \cup {c}
    /\ UNCHANGED <<life, lockVars, needExit, dest, cur, unused, open, data, pc, sock>>

-----------------------------------------------------------------------------
(* The calls of the owner: connect, closeConnect, send and isConnected. *)

OwnerCalls ==
    /\ life = "running"
    /\ Goes("owner", "none", "enter")
    /\ UNCHANGED <<Rest, lockVars>>

OwnerEnters == Enters("owner", "enter", "inside", "none")

\* connect closes the connection and stores the address; the connect thread
\* does the rest.
Connect ==
    /\ Goes("owner", "inside", "leave")
    /\ Close(cur)
    /\ cur' = NoConn
    /\ dest' = TRUE
    /\ UNCHANGED <<life, lockVars, needExit, unused, sock>>

CloseConnect ==
    /\ Goes("owner", "inside", "leave")
    /\ Close(cur)
    /\ cur' = NoConn
    /\ UNCHANGED <<life, lockVars, needExit, dest, unused, sock>>

\* send and isConnected only look at m_socketConn.
SendOrAsk ==
    /\ Goes("owner", "inside", "leave")
    /\ UNCHANGED <<Rest, lockVars>>

OwnerLeaves == Leaves("owner", "leave", "none")

-----------------------------------------------------------------------------
(* Both threads begin each round with the event that ends them, and enter. *)

WaitEnds(u) ==
    /\ needExit
    /\ Goes(u, "wait", "ended")
    /\ UNCHANGED <<Rest, lockVars>>

WaitTimesOut(u) ==
    /\ ~needExit
    /\ Goes(u, "wait", "enter")
    /\ UNCHANGED <<Rest, lockVars>>

RoundEnters(u) == Enters(u, "enter", "look", "ended")

\* A callback sends to the peer, which needs the lock again.
CallbackEnters(u) == Enters(u, "callback", "sending", "wait")

CallbackReturns(u) == Leaves(u, "sending", "wait")

-----------------------------------------------------------------------------
(* ConnectThreadProc.  Nobody waits for it: what it does in an object that *)
(* is gone is undefined, and it does no more here.                         *)

NothingToDo ==
    /\ cur # NoConn \/ ~dest \/ unused = {}
    /\ Leaves("connect", "look", "wait")

\* socket(), stored in m_socketConn before ::connect is called.
Opens ==
    /\ cur = NoConn
    /\ dest
    /\ unused # {}
    /\ Goes("connect", "look", "connecting")
    /\ cur' = CHOOSE c \in unused : TRUE
    /\ open' = open \cup {cur'}
    /\ unused' = unused \ {cur'}
    /\ UNCHANGED <<life, lockVars, needExit, dest, data, ended, sock>>

\* A mutation of Connected: the lock is kept while m_eventConnected is invoked.
ConnectedLocked ==
    /\ cur \in open
    /\ Goes("connect", "connecting", "callback")
    /\ UNCHANGED <<Rest, lockVars>>

\* The lock is left before m_eventConnected is invoked.
Connected ==
    /\ cur \in open
    /\ Leaves("connect", "connecting", "callback")

\* Nobody listens, or the receive thread has closed or cleared m_socketConn.
ConnectFails ==
    /\ Goes("connect", "connecting", "wait")
    /\ SafeExit("connect")
    /\ Close(cur)
    /\ cur' = NoConn
    /\ UNCHANGED <<life, needExit, dest, unused, sock>>

-----------------------------------------------------------------------------
(* ReceiveThreadProc. *)

NotConnected ==
    /\ cur = NoConn
    /\ Leaves("receive", "look", "wait")

\* The lock is left before recv is called.
Picks ==
    /\ cur # NoConn
    /\ Goes("receive", "look", "recv")
    /\ SafeExit("receive")
    /\ sock' = cur
    /\ UNCHANGED <<life, needExit, dest, cur, unused, open, data, ended>>

\* m_eventRecvData is invoked with what was received.
Received ==
    /\ sock \in open \cap data
    /\ Goes("receive", "recv", "callback")
    /\ data' = data \ {sock}
    /\ sock' = NoConn
    /\ UNCHANGED <<life, lockVars, needExit, dest, cur, unused, open, ended>>

\* The peer has closed, or the socket was closed under recv.
ReceiveFails ==
    /\ sock \in ended \ data \/ sock \notin open
    /\ Goes("receive", "recv", "test")
    /\ sock' = NoConn
    /\ UNCHANGED <<life, lockVars, needExit, dest, cur, unused, open, data, ended>>

\* _do_close without the lock, on whatever socket is current by now.
Tests ==
    /\ Goes("receive", "test", IF cur = NoConn THEN "clear" ELSE "close")
    /\ UNCHANGED <<Rest, lockVars>>

Closes ==
    /\ Goes("receive", "close", "clear")
    /\ Close(cur)
    /\ UNCHANGED <<life, lockVars, needExit, dest, cur, unused, sock>>

\* Then m_eventDisConnect is invoked, which sends nothing to this peer.
Clears ==
    /\ Goes("receive", "clear", "wait")
    /\ cur' = NoConn
    /\ UNCHANGED <<life, lockVars, needExit, dest, unused, open, data, ended, sock>>

-----------------------------------------------------------------------------
(* The constructor and the destructor. *)

\* Both threads run from the constructor on.
Construct ==
    /\ life = "new"
    /\ life' = "running"
    /\ pc' = [pc EXCEPT !["connect"] = "wait", !["receive"] = "wait"]
    /\ UNCHANGED <<lockVars, needExit, dest, cur, unused, open, data, ended, sock>>

LifeGoes(from, to) == life = from /\ life' = to

\* SetEvent( m_hEventNeedExit ); no other thread of the owner is in a call.
Destroy ==
    /\ LifeGoes("running", "told")
    /\ pc["owner"] = "none"
    /\ needExit' = TRUE
    /\ UNCHANGED <<lockVars, dest, cur, unused, open, data, ended, pc, sock>>

AccessCancelled ==
    /\ LifeGoes("told", "cancelled")
    /\ CancelAllAccess
    /\ UNCHANGED <<needExit, dest, cur, unused, open, data, ended, pc, sock>>

\* The receive thread has ended, and m_pBufRecv is freed.  m_socketConn has not
\* been closed, and never is.
Joined ==
    /\ LifeGoes("cancelled", "gone")
    /\ pc["receive"] = "ended"
    /\ UNCHANGED <<lockVars, needExit, dest, cur, unused, open, data, ended, pc, sock>>

-----------------------------------------------------------------------------

Peers == \E c \in Conns : PeerSends(c) \/ PeerCloses(c)

Owner == OwnerCalls \/ OwnerEnters \/ Connect \/ CloseConnect \/ SendOrAsk \/ OwnerLeaves

OwnerReturns == OwnerEnters \/ Connect \/ CloseConnect \/ SendOrAsk \/ OwnerLeaves

Rounds(u) ==
    WaitEnds(u) \/ WaitTimesOut(u) \/ RoundEnters(u) \/ CallbackEnters(u) \/ CallbackReturns(u)

ConnectThread ==
    /\ life # "gone"
    /\ \/ Rounds("connect")
       \/ NothingToDo \/ Opens \/ Connected \/ ConnectFails

ReceiveThread ==
    \/ Rounds("receive")
    \/ NotConnected \/ Picks \/ Received \/ ReceiveFails \/ Tests \/ Closes \/ Clears

Destructor == AccessCancelled \/ Joined

Next == Peers \/ Owner \/ ConnectThread \/ ReceiveThread \/ Construct \/ Destroy \/ Destructor

\* Threads run, ::connect and ::send return, and a thread that waits for the
\* lock while others use it gets it.  No peer has to do anything.
Fairness ==
    /\ SF_vars(ReceiveThread) /\ SF_vars(ConnectThread)
    /\ SF_vars(OwnerReturns) /\ WF_vars(Destructor)

Spec == Init /\ [][Next]_vars
FairSpec == Spec /\ Fairness

-----------------------------------------------------------------------------

TypeOK ==
    /\ life \in {"new", "running", "told", "cancelled", "gone"}
    /\ LockOK /\ {needExit, dest} \subseteq BOOLEAN
    /\ {cur, sock} \subseteq Conns \cup {NoConn}
    /\ {unused, open, data, ended} \subseteq SUBSET Conns
    /\ pc \in [Users -> {"none", "wait", "enter", "look", "inside", "leave", "connecting",
                         "callback", "sending", "recv", "test", "close", "clear", "ended"}]

\* The receive thread waits for a peer that neither sends nor closes.
Silent == pc["receive"] = "recv" /\ sock \in open \ (data \cup ended)

\* A call of the owner returns while the receive thread waits for a peer that
\* is silent, or a callback sends, and so does what a callback sends; the
\* destructor returns as well, unless such a peer stays silent for good.
CallsReturn ==
    /\ pc["owner"] = "enter" ~> pc["owner"] = "none"
    /\ \A u \in {"receive", "connect"} : pc[u] = "callback" ~> pc[u] # "callback" \/ life = "gone"
    /\ life = "told" ~> (life = "gone" \/ []Silent)
=============================================================================
