-------------------------- MODULE RenderSessionProofs -------------------------
(***************************************************************************)
(* The types of RenderSession, for any number of connections, calls of     *)
(* connect() and crashes: every socket either side refers to is a          *)
(* connection or none, whatever the receive thread closes without the lock *)
(* while another thread opens the next.                                    *)
(*                                                                         *)
(* What has to be said in addition: connect() is under way only if it was  *)
(* still to be called, and the connections that wait to be accepted are a  *)
(* sequence.                                                               *)
(***************************************************************************)
EXTENDS RenderSession, SequenceTheorems, TLAPS

TcpTypes ==
    /\ listening \in BOOLEAN
    /\ cliOpen \in SUBSET Conns /\ srvOpen \in SUBSET Conns
    /\ backlog \in Seq(Conns)
    /\ toServer \in SUBSET Conns /\ toClient \in SUBSET Conns

ClientTypes ==
    /\ ClientTypeOK
    /\ lock = "caller" => callsLeft > 0

SessionTypes ==
    /\ hpc \in {"none", "notify", "store", "attached", "unstore"}
    /\ engIntf \in BOOLEAN /\ rootIntf \in BOOLEAN
    /\ wantedOn \in Conns \cup {NoConn}
    /\ newInst \in BOOLEAN
    /\ crashes \in 0 .. MaxCrashes

\* The inductive invariant.
Types == TcpTypes /\ ClientTypes /\ ServerTypeOK /\ SessionTypes

-----------------------------------------------------------------------------

\* The first of the connections that wait, and the others.
LEMMA Waiting ==
    ASSUME backlog \in Seq(Conns), backlog # << >>
    PROVE  Head(backlog) \in Conns /\ Tail(backlog) \in Seq(Conns)
BY HeadTailProperties

\* What is sent goes to a connection.
LEMMA Sent ==
    ASSUME TcpTypes, NEW c
    PROVE  /\ ClientSends(c) => toServer' \in SUBSET Conns
           /\ ServerSends(c) => toClient' \in SUBSET Conns
BY DEF TcpTypes, ClientSends, ServerSends

\* connect(), and the connect thread of the client.
LEMMA CallerKeeps ==
    ASSUME Types, Caller \/ Connector
    PROVE  Types'
<1> USE DEF Types, ClientTypes, ClientTypeOK
<1>1. CASE Caller
  <2>1. UNCHANGED <<serverVars, sessionVars>> /\ (ConnectEnter \/ ConnectLeave)
    BY <1>1 DEF Caller
  <2>2. ServerTypeOK' /\ SessionTypes'
    BY <2>1 DEF serverVars, sessionVars, ServerTypeOK, SessionTypes
  <2>3. TcpTypes'
    BY <2>1 DEF ConnectEnter, ConnectLeave, tcpVars, TcpTypes
  <2>4. ClientTypes'
    <3>1. callsLeft' \in 0 .. MaxCalls /\ (lock' = "caller" => callsLeft' > 0)
      <4>1. CASE ConnectEnter
        BY <4>1 DEF ConnectEnter
      <4>2. CASE ConnectLeave
        BY <4>2, MaxCallsAssumption DEF ConnectLeave
      <4> QED
        BY <2>1, <4>1, <4>2
    <3>2. /\ lock' \in {"free", "caller", "connector"} /\ dest' \in BOOLEAN
          /\ sock' \in Conns \cup {NoConn} /\ rsock' = rsock /\ tpc' = tpc /\ rpc' = rpc
      BY <2>1, Zenon DEF ConnectEnter, ConnectLeave
    <3> QED
      BY <3>1, <3>2
  <2> QED
    BY <2>2, <2>3, <2>4
<1>2. CASE ConnectorOpens(Fresh) /\ UNCHANGED <<serverVars, sessionVars>>
  <2>1. ServerTypeOK' /\ SessionTypes'
    BY <1>2 DEF serverVars, sessionVars, ServerTypeOK, SessionTypes
  <2>2. sock' \in Conns
    BY <1>2 DEF ConnectorOpens, Fresh
  <2>3. TcpTypes'
    BY <1>2, <2>2 DEF ConnectorOpens, OpenSocket, TcpTypes
  <2>4. ClientTypes'
    BY <1>2, <2>2 DEF ConnectorOpens
  <2> QED
    BY <2>1, <2>3, <2>4
<1>3. CASE ConnectorConnects /\ UNCHANGED <<serverVars, sessionVars>>
  <2>1. ServerTypeOK' /\ SessionTypes'
    BY <1>3 DEF serverVars, sessionVars, ServerTypeOK, SessionTypes
  <2>2. sock \in Conns /\ backlog' = Append(backlog, sock)
    BY <1>3 DEF ConnectorConnects, CanConnect, TcpTypes
  <2>3. backlog' \in Seq(Conns)
    BY <2>2, AppendProperties DEF TcpTypes
  <2>4. TcpTypes'
    BY <1>3, <2>3 DEF ConnectorConnects, TcpTypes
  <2>5. ClientTypes'
    BY <1>3 DEF ConnectorConnects
  <2> QED
    BY <2>1, <2>4, <2>5
<1>4. CASE ConnectorFails /\ UNCHANGED <<serverVars, sessionVars>>
  <2>1. ServerTypeOK' /\ SessionTypes'
    BY <1>4 DEF serverVars, sessionVars, ServerTypeOK, SessionTypes
  <2>2. TcpTypes'
    BY <1>4 DEF ConnectorFails, TcpTypes
  <2>3. ClientTypes'
    BY <1>4 DEF ConnectorFails
  <2> QED
    BY <2>1, <2>2, <2>3
<1>5. CASE OnConnected
  BY <1>5 DEF OnConnected, tcpVars, serverVars, sessionVars, TcpTypes, ServerTypeOK, SessionTypes
<1>6. CASE OnConnectedSends
  <2>1. TcpTypes'
    BY <1>6, Sent DEF OnConnectedSends, TcpTypes
  <2>2. ClientTypes' /\ ServerTypeOK' /\ SessionTypes'
    BY <1>6 DEF OnConnectedSends, serverVars, sessionVars, ServerTypeOK, SessionTypes
  <2> QED
    BY <2>1, <2>2
<1> QED
  BY <1>1, <1>2, <1>3, <1>4, <1>5, <1>6 DEF Connector

\* The receive thread of the client.
LEMMA ReceiverKeeps ==
    ASSUME Types, Receiver
    PROVE  Types'
<1> USE DEF Types, ClientTypes, ClientTypeOK
<1>1. CASE /\ ReceivePick \/ ReceiveFails \/ ReceiveTest \/ ReceiveClose \/ ReceiveClear
           /\ UNCHANGED <<serverVars, sessionVars>>
  <2>1. ServerTypeOK' /\ SessionTypes'
    BY <1>1 DEF serverVars, sessionVars, ServerTypeOK, SessionTypes
  <2>2. TcpTypes'
    BY <1>1 DEF ReceivePick, ReceiveFails, ReceiveTest, ReceiveClose, ReceiveClear, tcpVars, TcpTypes
  <2>3. ClientTypes'
    BY <1>1 DEF ReceivePick, ReceiveFails, ReceiveTest, ReceiveClose, ReceiveClear
  <2> QED
    BY <2>1, <2>2, <2>3
<1>2. CASE OnWantData
  <2>1. TcpTypes' /\ ServerTypeOK'
    BY <1>2 DEF OnWantData, serverVars, TcpTypes, ServerTypeOK
  <2>2. ClientTypes' /\ SessionTypes'
    BY <1>2 DEF OnWantData, SessionTypes
  <2> QED
    BY <2>1, <2>2
<1> QED
  BY <1>1, <1>2 DEF Receiver

\* setASIOInterface.
LEMMA InterfaceKeeps ==
    ASSUME Types, Attach \/ Detach
    PROVE  Types'
<1> USE DEF Types, ClientTypes, ClientTypeOK
<1>1. CASE AttachSends
  <2>1. TcpTypes'
    BY <1>1, Sent DEF AttachSends, TcpTypes
  <2>2. ClientTypes' /\ ServerTypeOK' /\ SessionTypes'
    BY <1>1 DEF AttachSends, clientVars, serverVars, ServerTypeOK, SessionTypes
  <2> QED
    BY <2>1, <2>2
<1>2. CASE AttachEngine \/ AttachStore \/ DetachEngine \/ DetachStore
  <2>1. TcpTypes' /\ ClientTypes' /\ ServerTypeOK'
    BY <1>2 DEF AttachEngine, AttachStore, DetachEngine, DetachStore,
                tcpVars, clientVars, serverVars, TcpTypes, ServerTypeOK
  <2>2. SessionTypes'
    BY <1>2 DEF AttachEngine, AttachStore, DetachEngine, DetachStore, SessionTypes
  <2> QED
    BY <2>1, <2>2
<1> QED
  BY <1>1, <1>2 DEF Attach, Detach

\* The play device, its crash and its restart included.
LEMMA DeviceKeeps ==
    ASSUME Types, Acceptor \/ DeviceReceiver \/ DeviceAsks \/ DeviceCrashes \/ DeviceRestarts
    PROVE  Types'
<1> USE DEF Types, ClientTypes, ClientTypeOK
<1>1. CASE Acceptor
  <2>1. Head(backlog) \in Conns /\ Tail(backlog) \in Seq(Conns)
    BY <1>1, Waiting DEF Acceptor, Accept, TcpTypes
  <2>2. TcpTypes' /\ ServerTypeOK'
    BY <1>1, <2>1 DEF Acceptor, Accept, TcpTypes, ServerTypeOK
  <2>3. ClientTypes' /\ SessionTypes'
    BY <1>1 DEF Acceptor, clientVars, sessionVars, SessionTypes
  <2> QED
    BY <2>2, <2>3
<1>2. CASE (ServerPick \/ ServerEnds) /\ UNCHANGED <<clientVars, sessionVars>>
  <2>1. TcpTypes' /\ ServerTypeOK'
    BY <1>2 DEF ServerPick, ServerEnds, tcpVars, TcpTypes, ServerTypeOK
  <2>2. ClientTypes' /\ SessionTypes'
    BY <1>2 DEF clientVars, sessionVars, SessionTypes
  <2> QED
    BY <2>1, <2>2
<1>3. CASE DeviceReads
  <2>1. TcpTypes' /\ ServerTypeOK'
    BY <1>3 DEF DeviceReads, ServerReads, TcpTypes, ServerTypeOK
  <2>2. ClientTypes' /\ SessionTypes'
    BY <1>3 DEF DeviceReads, clientVars, SessionTypes
  <2> QED
    BY <2>1, <2>2
<1>4. CASE DeviceAsks
  <2>1. TcpTypes'
    BY <1>4, Sent DEF DeviceAsks, TcpTypes
  <2>2. ClientTypes' /\ ServerTypeOK'
    BY <1>4 DEF DeviceAsks, clientVars, serverVars, ServerTypeOK
  <2>3. SessionTypes'
    BY <1>4, Zenon DEF DeviceAsks, SessionTypes
  <2> QED
    BY <2>1, <2>2, <2>3
<1>5. CASE DeviceCrashes
  <2>1. << >> \in Seq(Conns)
    OBVIOUS
  <2>2. TcpTypes' /\ ServerTypeOK'
    BY <1>5, <2>1 DEF DeviceCrashes, TcpTypes, ServerTypeOK
  <2>3. ClientTypes'
    BY <1>5 DEF DeviceCrashes, clientVars
  <2>4. SessionTypes'
    <3>1. crashes' \in 0 .. MaxCrashes
      BY <1>5, MaxCrashesAssumption DEF DeviceCrashes, SessionTypes
    <3> QED
      BY <1>5, <3>1, Zenon DEF DeviceCrashes, SessionTypes
  <2> QED
    BY <2>2, <2>3, <2>4
<1>6. CASE DeviceRestarts
  BY <1>6 DEF DeviceRestarts, clientVars, serverVars, sessionVars, TcpTypes, ServerTypeOK, SessionTypes
<1> QED
  BY <1>1, <1>2, <1>3, <1>4, <1>5, <1>6 DEF DeviceReceiver

\* What the invariant says of the sequence is what TypeOK says of its elements.
LEMMA TypesSuffice == Types => TypeOK
<1> SUFFICES ASSUME Types PROVE TypeOK
  OBVIOUS
<1>1. ToSet(backlog) \subseteq Conns
  <2>1. \A i \in DOMAIN backlog : backlog[i] \in Conns
    BY LenProperties, ElementOfSeq DEF Types, TcpTypes
  <2> QED
    BY <2>1 DEF ToSet
<1> QED
  BY <1>1 DEF Types, TcpTypes, ClientTypes, SessionTypes, TypeOK, TcpTypeOK

\* Every socket either program refers to is a connection or none, in every state.
THEOREM TypeCorrect == Spec => []TypeOK
<1>1. Init => Types
  <2>1. << >> \in Seq(Conns)
    OBVIOUS
  <2>2. 0 \in 0 .. MaxCrashes /\ MaxCalls \in 0 .. MaxCalls
    BY MaxCallsAssumption, MaxCrashesAssumption
  <2>3. Init => TcpTypes /\ ServerTypeOK
    BY <2>1 DEF Init, TcpInit, ServerInit, TcpTypes, ServerTypeOK
  <2>4. Init => ClientTypes
    BY <2>2 DEF Init, ClientInit, ClientTypes, ClientTypeOK
  <2>5. Init => SessionTypes
    BY <2>2 DEF Init, SessionTypes
  <2> QED
    BY <2>3, <2>4, <2>5 DEF Types
<1>2. Types /\ [Next]_vars => Types'
  <2> SUFFICES ASSUME Types, [Next]_vars PROVE Types'
    OBVIOUS
  <2>1. CASE UNCHANGED vars
    BY <2>1 DEF vars, tcpVars, clientVars, serverVars, sessionVars, Types, TcpTypes,
                ClientTypes, ClientTypeOK, ServerTypeOK, SessionTypes
  <2> QED
    BY <2>1, CallerKeeps, ReceiverKeeps, InterfaceKeeps, DeviceKeeps DEF Next
<1> QED
  BY <1>1, <1>2, TypesSuffice, PTL DEF Spec
=============================================================================
