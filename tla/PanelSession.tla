---------------------------- MODULE PanelSession -----------------------------
(***************************************************************************)
(* The control panel dk_acp and the source's side of it, dk_acp_proxy: how *)
(* a source registers, how the user's Connect reaches it, and how what     *)
(* happens to the render link gets into the panel's window.                *)
(*                                                                         *)
(* A connection is a queue of packages in each direction.  The receive     *)
(* threads of both sides are here; the races inside dk_socket_client are   *)
(* in RenderSession and left out.  REGIST_AS2ACP_ACK, which the source     *)
(* ignores, is left out too.                                               *)
(***************************************************************************)
EXTENDS Naturals, Sequences, SequencesExt, FiniteSets

CONSTANTS
    Conns,           \* connections, used again when nobody knows them any more
    NoConn,          \* m_sockConn = NULL
    NetCap,          \* packages on their way to the panel when ::send blocks
    MaxClicks,       \* clicks on Connect
    MaxExits,        \* times the panel is closed
    MaxSourceStarts, \* times the source is started again
    MaxFaults        \* crashes of the play device

ASSUME NoConnAssumption == NoConn \notin Conns
ASSUME BoundsAssumption == {MaxClicks, MaxExits, MaxSourceStarts, MaxFaults} \subseteq Nat

VARIABLES
    \* the panel
    ppc,      \* main thread: "off", "listening", "serving", "ready"
    click,    \* main thread in onBtnConnect: "none", "notify", "send"
    status,   \* m_eAS2PDStatus
    text,     \* what the window says of the status
    shown,    \* the window shows the ASID of a source
    psock,    \* m_sockConn
    rpc,      \* receive thread, see PanelTypeOK
    rcur,     \* socketConn of the receive thread
    pend,     \* the status the receive thread has told the window
    \* the source
    sconn,    \* m_socketConn of the link to the panel
    spc,      \* its connect thread: "poll", "register"
    lpc,      \* its receive thread: "recv", or "again": between the connect()
              \* calls of one CONNECT_PD
    dest,     \* the render client knows an address
    render,   \* the render link: "none", "up", "broken"
    tpc,      \* its connect thread: "poll", "announce"
    wpc,      \* its receive thread: "poll", "recv", "report"
    ended,    \* the connection that thread receives from has ended
    \* what is between them
    pEnd,     \* connections whose panel end is open
    sEnd,     \* connections whose source end is open
    backlog,  \* connections the panel has not accepted yet
    toPanel,  \* toPanel[c]: packages not yet received by the panel
    toSource, \* toSource[c]: CONNECT_PD packages not yet received
    \* the environment
    device,   \* the play device runs
    budget    \* clicks, exits, starts and faults there have been

panelVars == <<ppc, click, status, text, shown, psock, rpc, rcur, pend>>
linkVars == <<sconn, spc, lpc>>
renderVars == <<dest, render, tpc, wpc, ended>>
netVars == <<pEnd, sEnd, backlog, toPanel, toSource>>
envVars == <<device, budget>>
vars == <<panelVars, linkVars, renderVars, netVars, envVars>>

Statuses == {"disconnected", "connecting", "connected"}

\* What the source sends to the panel: its registration, the answer to the
\* request, and the loss of the device.
ToPanelPackages == {"REGIST", "ACK", "DISCONNECT"}
\* What the panel sends to the source: the request to connect to the device.
ToSourcePackages == {"CONNECT_PD"}

TypeOK ==
    /\ ppc \in {"off", "listening", "serving", "ready"}
    /\ click \in {"none", "notify", "send"}
    /\ {status, text, pend} \subseteq Statuses
    /\ shown \in BOOLEAN
    /\ {psock, rcur, sconn} \subseteq Conns \cup {NoConn}
    /\ rpc \in {"pick", "recv", "registered", "notify", "show", "lost", "lostText", "close"}
    /\ spc \in {"poll", "register"}
    /\ lpc \in {"recv", "again"}
    /\ dest \in BOOLEAN
    /\ render \in {"none", "up", "broken"}
    /\ tpc \in {"poll", "announce"}
    /\ wpc \in {"poll", "recv", "report"}
    /\ ended \in BOOLEAN
    /\ pEnd \cup sEnd \cup ToSet(backlog) \subseteq Conns
    /\ toPanel \in [Conns -> Seq(ToPanelPackages)]
    /\ toSource \in [Conns -> Seq(ToSourcePackages)]
    /\ device \in BOOLEAN
    /\ budget \in [clicks : 0 .. MaxClicks, exits : 0 .. MaxExits,
                   starts : 0 .. MaxSourceStarts, faults : 0 .. MaxFaults]

-----------------------------------------------------------------------------

\* The source runs: the music program has loaded the driver.
Init ==
    /\ ppc = "off"
    /\ click = "none"
    /\ status = "disconnected"
    /\ text = "disconnected"
    /\ pend = "disconnected"
    /\ shown = FALSE
    /\ psock = NoConn
    /\ rcur = NoConn
    /\ sconn = NoConn
    /\ rpc = "pick"
    /\ spc = "poll"
    /\ lpc = "recv"
    /\ dest = FALSE
    /\ render = "none"
    /\ tpc = "poll"
    /\ wpc = "poll"
    /\ ended = FALSE
    /\ pEnd = {}
    /\ sEnd = {}
    /\ backlog = << >>
    /\ toPanel = [c \in Conns |-> << >>]
    /\ toSource = [c \in Conns |-> << >>]
    /\ device = FALSE
    /\ budget = [clicks |-> 0, exits |-> 0, starts |-> 0, faults |-> 0]

\* Connections neither side knows.
Fresh == Conns \ ({psock, rcur, sconn} \cup ToSet(backlog))

Spend(what, most) ==
    /\ budget[what] < most
    /\ budget' = [budget EXCEPT ![what] = @ + 1]

-----------------------------------------------------------------------------
(* The source: the link to the panel. *)

\* ::send on the link; nothing is sent without a connection, and what is sent
\* to a panel that has ended is lost.
Tell(package) ==
    /\ sconn \in pEnd => Len(toPanel[sconn]) < NetCap
    /\ toPanel' = IF sconn \in pEnd THEN [toPanel EXCEPT ![sconn] = Append(@, package)]
                                    ELSE toPanel

SourceConnects ==
    /\ spc = "poll"
    /\ sconn = NoConn
    /\ ppc # "off"
    /\ Fresh # {}
    /\ LET c == CHOOSE free \in Fresh : TRUE IN
        /\ sconn' = c
        /\ pEnd' = pEnd \cup {c}
        /\ sEnd' = sEnd \cup {c}
        /\ backlog' = Append(backlog, c)
        /\ toPanel' = [toPanel EXCEPT ![c] = << >>]
        /\ toSource' = [toSource EXCEPT ![c] = << >>]
    /\ spc' = "register"
    /\ UNCHANGED <<panelVars, lpc, renderVars, envVars>>

\* _on_connected of dk_acp_proxy.
SourceRegisters ==
    /\ spc = "register"
    /\ Tell("REGIST")
    /\ spc' = "poll"
    /\ UNCHANGED <<panelVars, sconn, lpc, renderVars, pEnd, sEnd, backlog, toSource, envVars>>

\* connect() of the render client closes the socket it has, and leaves the rest
\* to its connect thread.
ClosesRender ==
    /\ render' = "none"
    /\ ended' = (wpc = "recv")

\* CONNECT_PD reaches connect(), which gives the client the address.
SourceToldToConnect ==
    /\ lpc = "recv"
    /\ sconn # NoConn
    /\ toSource[sconn] # << >>
    /\ toSource' = [toSource EXCEPT ![sconn] = Tail(@)]
    /\ dest' = TRUE
    /\ ClosesRender
    /\ lpc' = "again"
    /\ UNCHANGED <<panelVars, sconn, spc, tpc, wpc, pEnd, sEnd, backlog, toPanel, envVars>>

\* m_eventConnect2PDReq is bound to the same handler twice: connect() once more,
\* with its lock released in between.
SourceConnectsAgain ==
    /\ lpc = "again"
    /\ ClosesRender
    /\ lpc' = "recv"
    /\ UNCHANGED <<panelVars, sconn, spc, dest, tpc, wpc, netVars, envVars>>

SourceLosesPanel ==
    /\ lpc = "recv"
    /\ sconn # NoConn
    /\ sconn \notin pEnd
    /\ toSource[sconn] = << >>
    /\ sEnd' = sEnd \ {sconn}
    /\ sconn' = NoConn
    /\ UNCHANGED <<panelVars, spc, lpc, renderVars, pEnd, backlog, toPanel, toSource, envVars>>

-----------------------------------------------------------------------------
(* The source: the render link, and what the panel is told of it. *)

RenderConnects ==
    /\ tpc = "poll"
    /\ dest
    /\ render = "none"
    /\ device
    /\ render' = "up"
    /\ tpc' = "announce"
    /\ UNCHANGED <<panelVars, linkVars, dest, wpc, ended, netVars, envVars>>

\* _on_connected, and _on_event_Connect2PD4RenderSuccess of dk_acp_proxy.
RenderAnnounces ==
    /\ tpc = "announce"
    /\ Tell("ACK")
    /\ tpc' = "poll"
    /\ UNCHANGED <<panelVars, linkVars, dest, render, wpc, ended>>
    /\ UNCHANGED <<pEnd, sEnd, backlog, toSource, envVars>>

RenderReceives ==
    /\ wpc = "poll"
    /\ render # "none"
    /\ wpc' = "recv"
    /\ ended' = (render = "broken")
    /\ UNCHANGED <<panelVars, linkVars, dest, render, tpc, netVars, envVars>>

\* _do_close closes whatever connection there is by now.
RenderFails ==
    /\ wpc = "recv"
    /\ ended
    /\ render' = "none"
    /\ wpc' = "report"
    /\ ended' = FALSE
    /\ UNCHANGED <<panelVars, linkVars, dest, tpc, netVars, envVars>>

\* _on_disconnected, and _on_event_DisConnect2PD4Render of dk_acp_proxy.
RenderReports ==
    /\ wpc = "report"
    /\ Tell("DISCONNECT")
    /\ wpc' = "poll"
    /\ UNCHANGED <<panelVars, linkVars, dest, render, tpc, ended>>
    /\ UNCHANGED <<pEnd, sEnd, backlog, toSource, envVars>>

-----------------------------------------------------------------------------
(* The panel's main thread. *)

\* dk_as_module starts its server before it binds the server's events.
PanelStarts ==
    /\ ppc = "off"
    /\ ppc' = "listening"
    /\ UNCHANGED <<click, status, text, shown, psock, rpc, rcur, pend>>
    /\ UNCHANGED <<linkVars, renderVars, netVars, envVars>>

PanelServes ==
    /\ ppc = "listening"
    /\ ppc' = "serving"
    /\ UNCHANGED <<click, status, text, shown, psock, rpc, rcur, pend>>
    /\ UNCHANGED <<linkVars, renderVars, netVars, envVars>>

\* InitInstance: the windows, and the handlers that write to them.
PanelShows ==
    /\ ppc = "serving"
    /\ ppc' = "ready"
    /\ UNCHANGED <<click, status, text, shown, psock, rpc, rcur, pend>>
    /\ UNCHANGED <<linkVars, renderVars, netVars, envVars>>

\* onBtnConnect and _setAS2PDStatus( EAS2PD_STATUS_CONNECTING ).
Click ==
    /\ ppc = "ready"
    /\ click = "none"
    /\ Spend("clicks", MaxClicks)
    /\ status' = "connecting"
    /\ click' = IF status = "connecting" THEN "send" ELSE "notify"
    /\ UNCHANGED <<ppc, text, shown, psock, rpc, rcur, pend>>
    /\ UNCHANGED <<linkVars, renderVars, netVars, device>>

ClickNotifies ==
    /\ click = "notify"
    /\ text' = status
    /\ click' = "send"
    /\ UNCHANGED <<ppc, status, shown, psock, rpc, rcur, pend>>
    /\ UNCHANGED <<linkVars, renderVars, netVars, envVars>>

\* What ::send does with CONNECT_PD on m_sockConn.
Request ==
    toSource' = IF psock \in sEnd THEN [toSource EXCEPT ![psock] = Append(@, "CONNECT_PD")]
                                  ELSE toSource

\* A mutation of ClickSends: it takes m_tsAccess, as the handlers do.
ClickSendsLocked ==
    /\ click = "send"
    /\ rpc \notin {"registered", "notify", "show"}
    /\ Request
    /\ click' = "none"
    /\ UNCHANGED <<ppc, status, text, shown, psock, rpc, rcur, pend>>
    /\ UNCHANGED <<linkVars, renderVars, pEnd, sEnd, backlog, toPanel, envVars>>

ClickSends ==
    /\ click = "send"
    /\ Request
    /\ click' = "none"
    /\ UNCHANGED <<ppc, status, text, shown, psock, rpc, rcur, pend>>
    /\ UNCHANGED <<linkVars, renderVars, pEnd, sEnd, backlog, toPanel, envVars>>

-----------------------------------------------------------------------------
(* The panel's server and its receive thread. *)

PanelAccepts ==
    /\ ppc # "off"
    /\ backlog # << >>
    /\ psock' = Head(backlog)
    /\ backlog' = Tail(backlog)
    /\ UNCHANGED <<ppc, click, status, text, shown, rpc, rcur, pend>>
    /\ UNCHANGED <<linkVars, renderVars, pEnd, sEnd, toPanel, toSource, envVars>>

PanelPicks ==
    /\ rpc = "pick"
    /\ psock # NoConn
    /\ rcur' = psock
    /\ rpc' = "recv"
    /\ UNCHANGED <<ppc, click, status, text, shown, psock, pend>>
    /\ UNCHANGED <<linkVars, renderVars, netVars, envVars>>

\* The receive thread goes back to the head of its loop.
Idle == rpc' = "pick" /\ rcur' = NoConn

\* _on_recv and _handle_package.  m_tsAccess is held until the thread is back at
\* "pick".  The handlers of the window run only if they are bound by now.
PanelReads ==
    /\ rpc = "recv"
    /\ toPanel[rcur] # << >>
    /\ LET package == Head(toPanel[rcur])
           new     == IF package = "ACK" THEN "connected" ELSE "connecting"
       IN  \/ /\ ppc = "listening" \/ (package = "REGIST" /\ ppc # "ready")
              /\ Idle
              /\ UNCHANGED status
           \/ /\ package = "REGIST" /\ ppc = "ready"
              /\ rpc' = "registered"
              /\ UNCHANGED <<status, rcur>>
           \/ /\ package # "REGIST" /\ ppc # "listening"
              /\ status' = new
              /\ IF status = new \/ ppc # "ready"
                   THEN Idle
                   ELSE rpc' = "notify" /\ UNCHANGED rcur
    /\ toPanel' = [toPanel EXCEPT ![rcur] = Tail(@)]
    /\ UNCHANGED <<ppc, click, text, shown, psock, pend>>
    /\ UNCHANGED <<linkVars, renderVars, pEnd, sEnd, backlog, toSource, envVars>>

\* invoke() takes the status as it is now.
PanelNotifies ==
    /\ rpc = "notify"
    /\ pend' = status
    /\ rpc' = "show"
    /\ UNCHANGED <<ppc, click, status, text, shown, psock, rcur>>
    /\ UNCHANGED <<linkVars, renderVars, netVars, envVars>>

\* SetWindowText of another thread returns when the main thread has handled it.
Pumped == click = "none"

PanelShowsStatus ==
    /\ rpc = "show"
    /\ Pumped
    /\ text' = pend
    /\ pend' = "disconnected"
    /\ Idle
    /\ UNCHANGED <<ppc, click, status, shown, psock>>
    /\ UNCHANGED <<linkVars, renderVars, netVars, envVars>>

PanelShowsASID ==
    /\ rpc = "registered"
    /\ Pumped
    /\ shown' = TRUE
    /\ Idle
    /\ UNCHANGED <<ppc, click, status, text, psock, pend>>
    /\ UNCHANGED <<linkVars, renderVars, netVars, envVars>>

\* The end of the stream: _on_disconnected, if it is bound, and then the close.
PanelReadsEnd ==
    /\ rpc = "recv"
    /\ toPanel[rcur] = << >>
    /\ rcur \notin sEnd
    /\ rpc' = IF ppc = "ready" THEN "lost" ELSE "close"
    /\ UNCHANGED <<ppc, click, status, text, shown, psock, rcur, pend>>
    /\ UNCHANGED <<linkVars, renderVars, netVars, envVars>>

PanelHidesASID ==
    /\ rpc = "lost"
    /\ Pumped
    /\ shown' = FALSE
    /\ rpc' = "lostText"
    /\ UNCHANGED <<ppc, click, status, text, psock, rcur, pend>>
    /\ UNCHANGED <<linkVars, renderVars, netVars, envVars>>

\* A mutation of PanelHidesStatus: the window keeps the old status.
PanelKeepsStatus ==
    /\ rpc = "lostText"
    /\ Pumped
    /\ rpc' = "close"
    /\ UNCHANGED <<ppc, click, status, text, shown, psock, rcur, pend>>
    /\ UNCHANGED <<linkVars, renderVars, netVars, envVars>>

\* onASRegStatusChange writes the window and leaves m_eAS2PDStatus as it is.
PanelHidesStatus ==
    /\ rpc = "lostText"
    /\ Pumped
    /\ text' = "disconnected"
    /\ rpc' = "close"
    /\ UNCHANGED <<ppc, click, status, shown, psock, rcur, pend>>
    /\ UNCHANGED <<linkVars, renderVars, netVars, envVars>>

\* A mutation of PanelCloses: m_sockConn is left invalid, not NULL.
PanelClosesInvalid ==
    /\ rpc = "close"
    /\ psock' = IF psock = rcur THEN "INVALID_SOCKET" ELSE psock
    /\ pEnd' = pEnd \ {rcur}
    /\ Idle
    /\ UNCHANGED <<ppc, click, status, text, shown, pend>>
    /\ UNCHANGED <<linkVars, renderVars, sEnd, backlog, toPanel, toSource, envVars>>

\* A mutation of PanelCloses: whatever connection there is by now is dropped.
PanelClosesAny ==
    /\ rpc = "close"
    /\ psock' = NoConn
    /\ pEnd' = pEnd \ {rcur}
    /\ Idle
    /\ UNCHANGED <<ppc, click, status, text, shown, pend>>
    /\ UNCHANGED <<linkVars, renderVars, sEnd, backlog, toPanel, toSource, envVars>>

PanelCloses ==
    /\ rpc = "close"
    /\ psock' = IF psock = rcur THEN NoConn ELSE psock
    /\ pEnd' = pEnd \ {rcur}
    /\ Idle
    /\ UNCHANGED <<ppc, click, status, text, shown, pend>>
    /\ UNCHANGED <<linkVars, renderVars, sEnd, backlog, toPanel, toSource, envVars>>

-----------------------------------------------------------------------------
(* What happens to the three programs. *)

PanelExits ==
    /\ ppc = "ready"
    /\ click = "none"
    /\ Spend("exits", MaxExits)
    /\ ppc' = "off"
    /\ status' = "disconnected"
    /\ text' = "disconnected"
    /\ pend' = "disconnected"
    /\ shown' = FALSE
    /\ psock' = NoConn
    /\ Idle
    /\ pEnd' = {}
    /\ backlog' = << >>
    /\ toPanel' = [c \in Conns |-> << >>]
    /\ UNCHANGED <<click, linkVars, renderVars, sEnd, toSource, device>>

SourceRestarts ==
    /\ Spend("starts", MaxSourceStarts)
    /\ sEnd' = {}
    /\ sconn' = NoConn
    /\ spc' = "poll"
    /\ lpc' = "recv"
    /\ dest' = FALSE
    /\ render' = "none"
    /\ tpc' = "poll"
    /\ wpc' = "poll"
    /\ ended' = FALSE
    /\ toSource' = [c \in Conns |-> << >>]
    /\ UNCHANGED <<panelVars, pEnd, backlog, toPanel, device>>

DeviceStarts ==
    /\ ~device
    /\ device' = TRUE
    /\ UNCHANGED <<panelVars, linkVars, renderVars, netVars, budget>>

DeviceCrashes ==
    /\ device
    /\ Spend("faults", MaxFaults)
    /\ device' = FALSE
    /\ render' = IF render = "up" THEN "broken" ELSE render
    /\ ended' = (wpc = "recv")
    /\ UNCHANGED <<panelVars, linkVars, dest, tpc, wpc, netVars>>

-----------------------------------------------------------------------------

PanelMain == PanelServes \/ PanelShows \/ ClickNotifies \/ ClickSends

PanelReceiver ==
    \/ PanelPicks \/ PanelReads \/ PanelReadsEnd
    \/ PanelNotifies \/ PanelShowsStatus \/ PanelShowsASID
    \/ PanelHidesASID \/ PanelHidesStatus \/ PanelCloses

SourceLink == SourceConnects \/ SourceRegisters
SourceReceiver == SourceToldToConnect \/ SourceConnectsAgain \/ SourceLosesPanel
RenderConnector == RenderConnects \/ RenderAnnounces
RenderReceiver == RenderReceives \/ RenderFails \/ RenderReports

Environment ==
    PanelStarts \/ PanelExits \/ Click \/ SourceRestarts \/ DeviceStarts \/ DeviceCrashes

Next ==
    \/ PanelMain \/ PanelAccepts \/ PanelReceiver
    \/ SourceLink \/ SourceReceiver
    \/ RenderConnector \/ RenderReceiver
    \/ Environment

\* Every thread runs.  Nobody has to start or close the panel, to click, or to
\* start the device.  The receive thread of the panel competes with the clicks.
Fairness ==
    /\ WF_vars(PanelMain)
    /\ WF_vars(PanelAccepts)
    /\ WF_vars(PanelReceiver)
    /\ WF_vars(SourceLink)
    /\ WF_vars(SourceReceiver)
    /\ WF_vars(RenderConnector)
    /\ WF_vars(RenderReceiver)

Spec == Init /\ [][Next]_vars
FairSpec == Spec /\ Fairness

-----------------------------------------------------------------------------

\* Step 8 of the doc: once the panel runs, its window shows the ASID.
GuidShown == <>[](ppc = "ready") => <>[]shown

\* A package arrives before the panel's window can show what it says.
Early == rpc = "recv" /\ ppc # "ready" /\ toPanel[rcur] # << >>

\* Unless a package arrives that early, a source that runs is shown in the
\* end, whatever is restarted and in whatever order connections are replaced.
ShownUnlessEarly == []~Early => GuidShown

\* A click never hangs the window: the main thread takes no lock a handler may
\* hold while it waits for the main thread.
ClickEnds == []<>(click = "none")

\* The window says so exactly if there is a connection to the play device.
StatusTrue == text = "connected" <=> render = "up"

\* The two threads of the render client tell the panel in the wrong order: a
\* break after the connection that followed it, or a connection after its break.
Misordered ==
    \/ wpc = "report" /\ render = "up"
    \/ tpc = "announce" /\ render # "up"

\* There is a render link while there is no panel to be told.
Untold == render # "none" /\ (sconn \notin pEnd \/ ppc # "ready")

\* A new source is connected before the panel has noticed the end of the old one.
Overtaken ==
    /\ sconn # NoConn
    /\ ({psock, rcur} \cup ToSet(backlog)) \ {sconn, NoConn} # {}

\* connect() is about to close a connection the receive thread has not begun to
\* receive from: nobody will report that it ended.
Unwatched ==
    /\ render # "none" /\ wpc # "recv"
    /\ lpc = "again" \/ (sconn # NoConn /\ toSource[sconn] # << >>)

\* The receive thread is about to write a status that a click has changed.
Stale == rpc = "show" /\ pend # status

\* Apart from these races the window ends up telling the truth about the render
\* link, whatever is clicked, breaks, or is restarted.
TrueUnlessRaced ==
    /\ []~(Misordered \/ Untold \/ Overtaken \/ Unwatched \/ Stale)
    /\ <>[](ppc = "ready")
    => <>[]StatusTrue
=============================================================================
