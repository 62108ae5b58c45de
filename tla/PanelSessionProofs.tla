-------------------------- MODULE PanelSessionProofs --------------------------
(***************************************************************************)
(* The types of PanelSession, for any number of connections, clicks, exits *)
(* of the panel, starts of the source and crashes of the device: what a    *)
(* side refers to is a connection or none, whichever program has ended,    *)
(* and a connection carries only packages its receiver knows.              *)
(***************************************************************************)
EXTENDS PanelSession, SequenceTheorems, TLAPS

PanelTypes ==
    /\ ppc \in {"off", "listening", "serving", "ready"}
    /\ click \in {"none", "notify", "send"}
    /\ status \in Statuses /\ text \in Statuses /\ pend \in Statuses
    /\ shown \in BOOLEAN
    /\ psock \in Conns \cup {NoConn} /\ rcur \in Conns \cup {NoConn}
    /\ rpc \in {"pick", "recv", "registered", "notify", "show", "lost", "lostText", "close"}

SourceTypes ==
    /\ sconn \in Conns \cup {NoConn}
    /\ spc \in {"poll", "register"}
    /\ lpc \in {"recv", "again"}
    /\ dest \in BOOLEAN
    /\ render \in {"none", "up", "broken"}
    /\ tpc \in {"poll", "announce"}
    /\ wpc \in {"poll", "recv", "report"}
    /\ ended \in BOOLEAN

NetTypes ==
    /\ pEnd \in SUBSET Conns /\ sEnd \in SUBSET Conns
    /\ backlog \in Seq(Conns)
    /\ toPanel \in [Conns -> Seq(ToPanelPackages)]
    /\ toSource \in [Conns -> Seq(ToSourcePackages)]

Budgets ==
    [clicks : 0 .. MaxClicks, exits : 0 .. MaxExits,
     starts : 0 .. MaxSourceStarts, faults : 0 .. MaxFaults]

\* The inductive invariant.
Types == PanelTypes /\ SourceTypes /\ NetTypes /\ device \in BOOLEAN /\ budget \in Budgets

-----------------------------------------------------------------------------
(* Queues of packages, and the budget. *)

\* Appending a package to one connection.
LEMMA Queued ==
    ASSUME NEW P, NEW q \in [Conns -> Seq(P)], NEW c, NEW package \in P
    PROVE  [q EXCEPT ![c] = Append(@, package)] \in [Conns -> Seq(P)]
<1>1. c \in Conns => Append(q[c], package) \in Seq(P)
  BY AppendProperties
<1> QED
  BY <1>1

\* Taking the first package of one connection.
LEMMA Unqueued ==
    ASSUME NEW P, NEW q \in [Conns -> Seq(P)], NEW c, q[c] # << >>
    PROVE  [q EXCEPT ![c] = Tail(@)] \in [Conns -> Seq(P)]
<1>1. c \in Conns => Tail(q[c]) \in Seq(P)
  BY HeadTailProperties
<1> QED
  BY <1>1

\* Forgetting what a connection carried.
LEMMA Emptied ==
    ASSUME NEW P, NEW q \in [Conns -> Seq(P)], NEW c
    PROVE  /\ [q EXCEPT ![c] = << >>] \in [Conns -> Seq(P)]
           /\ [d \in Conns |-> << >>] \in [Conns -> Seq(P)]
<1>1. << >> \in Seq(P)
  OBVIOUS
<1> QED
  BY <1>1

\* What is told of a limited budget stays in it.
LEMMA Spent ==
    ASSUME budget \in Budgets
    PROVE  /\ Spend("clicks", MaxClicks) => budget' \in Budgets
           /\ Spend("exits", MaxExits) => budget' \in Budgets
           /\ Spend("starts", MaxSourceStarts) => budget' \in Budgets
           /\ Spend("faults", MaxFaults) => budget' \in Budgets
<1>0. {MaxClicks, MaxExits, MaxSourceStarts, MaxFaults} \subseteq Nat
  BY BoundsAssumption
<1>1. /\ budget.clicks \in 0 .. MaxClicks /\ budget.exits \in 0 .. MaxExits
      /\ budget.starts \in 0 .. MaxSourceStarts /\ budget.faults \in 0 .. MaxFaults
      /\ budget = [clicks |-> budget.clicks, exits |-> budget.exits,
                   starts |-> budget.starts, faults |-> budget.faults]
  BY DEF Budgets
<1>2. ASSUME Spend("clicks", MaxClicks) PROVE budget' \in Budgets
  BY <1>0, <1>1, <1>2 DEF Spend, Budgets
<1>3. ASSUME Spend("exits", MaxExits) PROVE budget' \in Budgets
  BY <1>0, <1>1, <1>3 DEF Spend, Budgets
<1>4. ASSUME Spend("starts", MaxSourceStarts) PROVE budget' \in Budgets
  BY <1>0, <1>1, <1>4 DEF Spend, Budgets
<1>5. ASSUME Spend("faults", MaxFaults) PROVE budget' \in Budgets
  BY <1>0, <1>1, <1>5 DEF Spend, Budgets
<1> QED
  BY <1>2, <1>3, <1>4, <1>5

\* What the source tells the panel.
LEMMA Told ==
    ASSUME NetTypes, NEW package \in ToPanelPackages, Tell(package)
    PROVE  toPanel' \in [Conns -> Seq(ToPanelPackages)]
BY Queued DEF NetTypes, Tell

\* What a click asks the source for.
LEMMA Requested ==
    ASSUME NetTypes, Request
    PROVE  toSource' \in [Conns -> Seq(ToSourcePackages)]
<1>1. "CONNECT_PD" \in ToSourcePackages
  BY DEF ToSourcePackages
<1> QED
  BY <1>1, Queued DEF NetTypes, Request

-----------------------------------------------------------------------------
(* The steps. *)

\* The link of the source to the panel.
LEMMA LinkKeeps ==
    ASSUME Types, SourceLink \/ SourceReceiver
    PROVE  Types'
<1>1. CASE SourceConnects
  <2> DEFINE c == CHOOSE free \in Fresh : TRUE
  <2>1. c \in Conns
    BY <1>1 DEF SourceConnects, Fresh
  <2>2. /\ sconn' = c /\ pEnd' = pEnd \cup {c} /\ sEnd' = sEnd \cup {c}
        /\ backlog' = Append(backlog, c)
        /\ toPanel' = [toPanel EXCEPT ![c] = << >>]
        /\ toSource' = [toSource EXCEPT ![c] = << >>]
        /\ spc' = "register" /\ lpc' = lpc
        /\ UNCHANGED <<panelVars, renderVars, envVars>>
    BY <1>1 DEF SourceConnects
  <2> HIDE DEF c
  <2>3. backlog' \in Seq(Conns)
    BY <2>1, <2>2, AppendProperties DEF Types, NetTypes
  <2>4. /\ toPanel' \in [Conns -> Seq(ToPanelPackages)]
        /\ toSource' \in [Conns -> Seq(ToSourcePackages)]
    BY <2>2, Emptied DEF Types, NetTypes
  <2>5. NetTypes'
    BY <2>1, <2>2, <2>3, <2>4 DEF Types, NetTypes
  <2>6. PanelTypes' /\ SourceTypes' /\ device' = device /\ budget' = budget
    BY <2>1, <2>2 DEF panelVars, renderVars, envVars, Types, PanelTypes, SourceTypes
  <2> QED
    BY <2>5, <2>6 DEF Types
<1>2. CASE SourceRegisters
  <2>1. toPanel' \in [Conns -> Seq(ToPanelPackages)]
    BY <1>2, Told DEF SourceRegisters, Types, ToPanelPackages
  <2> QED
    BY <1>2, <2>1 DEF SourceRegisters, panelVars, renderVars, envVars,
                      Types, PanelTypes, SourceTypes, NetTypes
<1>3. CASE SourceToldToConnect
  <2>1. toSource' \in [Conns -> Seq(ToSourcePackages)]
    BY <1>3, Unqueued DEF SourceToldToConnect, Types, NetTypes
  <2>2. ended' \in BOOLEAN
    BY <1>3, Zenon DEF SourceToldToConnect, ClosesRender
  <2> QED
    BY <1>3, <2>1, <2>2 DEF SourceToldToConnect, ClosesRender, panelVars, envVars,
                            Types, PanelTypes, SourceTypes, NetTypes
<1>4. CASE SourceConnectsAgain
  <2>1. ended' \in BOOLEAN
    BY <1>4, Zenon DEF SourceConnectsAgain, ClosesRender
  <2> QED
    BY <1>4, <2>1 DEF SourceConnectsAgain, ClosesRender, panelVars, netVars, envVars,
                      Types, PanelTypes, SourceTypes, NetTypes
<1>5. CASE SourceLosesPanel
  <2>1. SourceTypes'
    BY <1>5, Zenon DEF SourceLosesPanel, renderVars, Types, SourceTypes
  <2>2. PanelTypes' /\ NetTypes' /\ device' = device /\ budget' = budget
    BY <1>5 DEF SourceLosesPanel, panelVars, envVars, Types, PanelTypes, NetTypes
  <2> QED
    BY <2>1, <2>2 DEF Types
<1> QED
  BY <1>1, <1>2, <1>3, <1>4, <1>5 DEF SourceLink, SourceReceiver

\* The render link, and what the panel is told of it.
LEMMA RenderKeeps ==
    ASSUME Types, RenderConnector \/ RenderReceiver
    PROVE  Types'
<1>1. CASE RenderConnects
  BY <1>1 DEF RenderConnects, panelVars, linkVars, netVars, envVars,
              Types, PanelTypes, SourceTypes, NetTypes
<1>2. CASE RenderAnnounces
  <2>1. toPanel' \in [Conns -> Seq(ToPanelPackages)]
    BY <1>2, Told DEF RenderAnnounces, Types, ToPanelPackages
  <2> QED
    BY <1>2, <2>1 DEF RenderAnnounces, panelVars, linkVars, envVars,
                      Types, PanelTypes, SourceTypes, NetTypes
<1>3. CASE RenderReceives
  <2>1. ended' \in BOOLEAN
    BY <1>3, Zenon DEF RenderReceives
  <2> QED
    BY <1>3, <2>1 DEF RenderReceives, panelVars, linkVars, netVars, envVars,
                      Types, PanelTypes, SourceTypes, NetTypes
<1>4. CASE RenderFails
  <2>1. /\ render' = "none" /\ wpc' = "report" /\ ended' = FALSE
        /\ UNCHANGED <<panelVars, linkVars, dest, tpc, netVars, envVars>>
    BY <1>4 DEF RenderFails
  <2>2. SourceTypes'
    BY <2>1, Zenon DEF linkVars, Types, SourceTypes
  <2>3. PanelTypes' /\ NetTypes' /\ device' = device /\ budget' = budget
    BY <2>1 DEF panelVars, netVars, envVars, Types, PanelTypes, NetTypes
  <2> QED
    BY <2>2, <2>3 DEF Types
<1>5. CASE RenderReports
  <2>1. toPanel' \in [Conns -> Seq(ToPanelPackages)]
    BY <1>5, Told DEF RenderReports, Types, ToPanelPackages
  <2> QED
    BY <1>5, <2>1 DEF RenderReports, panelVars, linkVars, envVars,
                      Types, PanelTypes, SourceTypes, NetTypes
<1> QED
  BY <1>1, <1>2, <1>3, <1>4, <1>5 DEF RenderConnector, RenderReceiver

\* The main thread of the panel, and its accept thread.
LEMMA PanelMainKeeps ==
    ASSUME Types, PanelMain \/ PanelStarts \/ Click \/ PanelAccepts
    PROVE  Types'
<1>1. CASE PanelStarts \/ PanelServes \/ PanelShows \/ ClickNotifies
  BY <1>1 DEF PanelStarts, PanelServes, PanelShows, ClickNotifies,
              linkVars, renderVars, netVars, envVars, Types, PanelTypes, SourceTypes, NetTypes
<1>2. CASE ClickSends
  <2>1. toSource' \in [Conns -> Seq(ToSourcePackages)]
    BY <1>2, Requested DEF ClickSends, Types
  <2> QED
    BY <1>2, <2>1 DEF ClickSends, linkVars, renderVars, envVars,
                      Types, PanelTypes, SourceTypes, NetTypes
<1>3. CASE Click
  <2>1. budget' \in Budgets
    BY <1>3, Spent DEF Click, Types
  <2>2. status' \in Statuses
    BY <1>3 DEF Click, Statuses
  <2> QED
    BY <1>3, <2>1, <2>2 DEF Click, linkVars, renderVars, netVars,
                            Types, PanelTypes, SourceTypes, NetTypes
<1>4. CASE PanelAccepts
  <2>1. Head(backlog) \in Conns /\ Tail(backlog) \in Seq(Conns)
    BY <1>4, HeadTailProperties DEF PanelAccepts, Types, NetTypes
  <2> QED
    BY <1>4, <2>1 DEF PanelAccepts, linkVars, renderVars, envVars,
                      Types, PanelTypes, SourceTypes, NetTypes
<1> QED
  BY <1>1, <1>2, <1>3, <1>4 DEF PanelMain

\* The receive thread of the panel.
LEMMA PanelReceiverKeeps ==
    ASSUME Types, PanelReceiver
    PROVE  Types'
<1>1. CASE PanelReads
  <2>1. toPanel' \in [Conns -> Seq(ToPanelPackages)]
    BY <1>1, Unqueued DEF PanelReads, Types, NetTypes
  <2>2. /\ status' \in Statuses /\ rcur' \in {rcur, NoConn}
        /\ rpc' \in {"pick", "registered", "notify"}
    BY <1>1 DEF PanelReads, Idle, Types, PanelTypes, Statuses
  <2> QED
    BY <1>1, <2>1, <2>2 DEF PanelReads, linkVars, renderVars, envVars,
                            Types, PanelTypes, SourceTypes, NetTypes
<1>2. CASE PanelPicks \/ PanelReadsEnd \/ PanelNotifies \/ PanelShowsStatus \/ PanelShowsASID
  BY <1>2 DEF PanelPicks, PanelReadsEnd, PanelNotifies, PanelShowsStatus, PanelShowsASID, Idle,
              linkVars, renderVars, netVars, envVars,
              Types, PanelTypes, SourceTypes, NetTypes, Statuses
<1>3. CASE PanelHidesASID \/ PanelHidesStatus \/ PanelCloses
  BY <1>3 DEF PanelHidesASID, PanelHidesStatus, PanelCloses, Idle,
              linkVars, renderVars, netVars, envVars,
              Types, PanelTypes, SourceTypes, NetTypes, Statuses
<1> QED
  BY <1>1, <1>2, <1>3 DEF PanelReceiver

\* The ends and starts of the programs.
LEMMA ProgramsKeep ==
    ASSUME Types, PanelExits \/ SourceRestarts \/ DeviceStarts \/ DeviceCrashes
    PROVE  Types'
<1>1. CASE PanelExits
  <2>1. budget' \in Budgets
    BY <1>1, Spent DEF PanelExits, Types
  <2>2. toPanel' \in [Conns -> Seq(ToPanelPackages)] /\ << >> \in Seq(Conns)
    BY <1>1, Emptied DEF PanelExits, Types, NetTypes
  <2>3. PanelTypes'
    BY <1>1 DEF PanelExits, Idle, Types, PanelTypes, Statuses
  <2>4. SourceTypes' /\ device' = device
    BY <1>1 DEF PanelExits, linkVars, renderVars, Types, SourceTypes
  <2>5. NetTypes'
    BY <1>1, <2>2 DEF PanelExits, Types, NetTypes
  <2> QED
    BY <2>1, <2>3, <2>4, <2>5 DEF Types
<1>2. CASE SourceRestarts
  <2>1. budget' \in Budgets
    BY <1>2, Spent DEF SourceRestarts, Types
  <2>2. SourceTypes'
    BY <1>2, Zenon DEF SourceRestarts, SourceTypes
  <2>3. toSource' \in [Conns -> Seq(ToSourcePackages)]
    BY <1>2, Emptied DEF SourceRestarts, Types, NetTypes
  <2>4. PanelTypes' /\ NetTypes' /\ device' = device
    BY <1>2, <2>3 DEF SourceRestarts, panelVars, Types, PanelTypes, NetTypes
  <2> QED
    BY <2>1, <2>2, <2>4 DEF Types
<1>3. CASE DeviceStarts
  BY <1>3 DEF DeviceStarts, panelVars, linkVars, renderVars, netVars,
              Types, PanelTypes, SourceTypes, NetTypes
<1>4. CASE DeviceCrashes
  <2>1. budget' \in Budgets
    BY <1>4, Spent DEF DeviceCrashes, Types
  <2>2. ended' \in BOOLEAN
    BY <1>4, Zenon DEF DeviceCrashes
  <2>3. PanelTypes' /\ NetTypes' /\ device' = FALSE
    BY <1>4 DEF DeviceCrashes, panelVars, netVars, Types, PanelTypes, NetTypes
  <2>4. SourceTypes'
    <3>1. /\ sconn' = sconn /\ spc' = spc /\ lpc' = lpc
          /\ dest' = dest /\ tpc' = tpc /\ wpc' = wpc
          /\ render' \in {"none", "up", "broken"}
      BY <1>4 DEF DeviceCrashes, linkVars, Types, SourceTypes
    <3> QED
      BY <2>2, <3>1 DEF Types, SourceTypes
  <2> QED
    BY <2>1, <2>3, <2>4 DEF Types
<1> QED
  BY <1>1, <1>2, <1>3, <1>4

\* What the invariant says of the sequence is what TypeOK says of its elements.
LEMMA TypesSuffice == Types => TypeOK
<1> SUFFICES ASSUME Types PROVE TypeOK
  OBVIOUS
<1>1. ToSet(backlog) \subseteq Conns
  <2>1. \A i \in DOMAIN backlog : backlog[i] \in Conns
    BY LenProperties, ElementOfSeq DEF Types, NetTypes
  <2> QED
    BY <2>1 DEF ToSet
<1> QED
  BY <1>1 DEF Types, PanelTypes, SourceTypes, NetTypes, Budgets, TypeOK

\* Every socket the panel or the source refers to is a connection or none, and
\* every package on its way is one its receiver handles, in every state.
THEOREM TypeCorrect == Spec => []TypeOK
<1>1. Init => Types
  <2> SUFFICES ASSUME Init PROVE Types
    OBVIOUS
  <2>1. /\ << >> \in Seq(Conns) /\ << >> \in Seq(ToPanelPackages)
        /\ << >> \in Seq(ToSourcePackages)
    OBVIOUS
  <2>2. NetTypes
    BY <2>1 DEF Init, NetTypes
  <2>3. PanelTypes /\ SourceTypes /\ device \in BOOLEAN
    BY DEF Init, PanelTypes, SourceTypes, Statuses
  <2>4. budget \in Budgets
    BY BoundsAssumption DEF Init, Budgets
  <2> QED
    BY <2>2, <2>3, <2>4 DEF Types
<1>2. Types /\ [Next]_vars => Types'
  <2> SUFFICES ASSUME Types, [Next]_vars PROVE Types'
    OBVIOUS
  <2>1. CASE UNCHANGED vars
    BY <2>1 DEF vars, panelVars, linkVars, renderVars, netVars, envVars,
                Types, PanelTypes, SourceTypes, NetTypes
  <2> QED
    BY <2>1, LinkKeeps, RenderKeeps, PanelMainKeeps, PanelReceiverKeeps, ProgramsKeep
       DEF Next, Environment
<1> QED
  BY <1>1, <1>2, TypesSuffice, PTL DEF Spec
=============================================================================
