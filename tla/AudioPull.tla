----------------------------- MODULE AudioPull ------------------------------
(***************************************************************************)
(* The audio path from the host's callback to the channel files, while one *)
(* connection stays up and one ASIO interface stays attached: the driver   *)
(* of AsioDriver and the device of PlayDevice on the link of AsioLink.     *)
(***************************************************************************)
EXTENDS AsioDriver, PlayDevice

vars == <<driverVars, deviceVars, linkVars>>

TypeOK == LinkTypeOK /\ DriverTypeOK /\ DeviceTypeOK

Init == LinkInit /\ DriverInit /\ DeviceInit

Next ==
    \/ DriverNext /\ UNCHANGED deviceVars
    \/ DeviceNext /\ UNCHANGED driverVars

\* Each thread runs, and stop() returns once the ASIO thread has ended.  The
\* host may stop calling at any time.
Fairness ==
    /\ WF_vars(AsioThread /\ UNCHANGED deviceVars)
    /\ WF_vars(ReceiveWant /\ UNCHANGED deviceVars)
    /\ WF_vars(StopReturns /\ UNCHANGED deviceVars)
    /\ WF_vars(ReceiveThread /\ UNCHANGED driverVars)
    /\ WF_vars(RenderThread /\ UNCHANGED driverVars)

Spec == Init /\ [][Next]_vars
FairSpec == Spec /\ Fairness

-----------------------------------------------------------------------------
(* The right to move: one request, answer or event at a time. *)

B(p) == IF p THEN 1 ELSE 0

\* The ASIO thread has taken a request and has not sent the package that
\* answers it.
ThreadHolds ==
    \/ tpc = "switch"
    \/ tpc = "send" /\ idx < active /\ idx < PDChannels

NetHolds == \E i \in DOMAIN toPD : Signals(toPD[i])
NetHoldsNew == \E i \in DOMAIN toPD : toPD[i].cmd = "NEW_INSTANCE"
RxHolds == rxpc # "recv" /\ Signals(rx)
RenderHolds == rpc \in {"new", "request"}

TokenCount ==
    B(NetHoldsNew) + B(newInst) + B(RenderHolds) + Len(toAS)
      + B(evBuf[0]) + B(evBuf[1]) + B(ThreadHolds)
      + B(NetHolds) + B(RxHolds) + B(ready[0]) + B(ready[1])

\* There is never more than one request, or answer to a request, in the whole
\* system: the events of both sides never coalesce two signals into one, and
\* a half is never asked for twice.  With an output to answer for, the request
\* is never lost either, whatever the host does between start and stop.
OneToken ==
    /\ TokenCount <= 1
    /\ 0 \notin OutputCounts => TokenCount = 1

\* The receive thread never copies into the half that is being rendered,
\* though no lock protects the channel buffers.
NoTornRender == rpc = "render" /\ rxpc = "copy" => rx.half # rhalf

-----------------------------------------------------------------------------
(* What reaches the channel files. *)

\* The channels that every createBuffers call gives an output.
CommonChannels == {c \in Channels : \A n \in OutputCounts : c < n}

\* When a half is rendered its common channels hold the same block: the one
\* the host filled them with in one callback.
ChannelsAligned ==
    rpc = "render" =>
        \A c, d \in CommonChannels : buf[rhalf][c] = buf[rhalf][d]

\* Every file of a common channel holds every block the host has filled, once
\* and in order, and the host is at most two blocks, one double buffer, ahead.
Next1(b) == IF b = NoBlock THEN 0 ELSE (b + 1) % BlockMod

Pipe ==
    INSTANCE BlockPipe
      WITH Mod <- BlockMod, Depth <- 2, PipeChannels <- CommonChannels,
           made <- filled, played <- [c \in CommonChannels |-> Next1(file[c])]

EveryBlockOnceInOrder == Pipe!PipeSpec

\* A channel file never gets the same block twice in a row: what the doc says
\* of channel_0.pcm and channel_1.pcm, that they hold the channel's PCM data.
NoBlockTwice ==
    [][\A c \in Channels :
         rpc = "render" /\ rch = c /\ rch' = c + 1 /\ buf[rhalf][c] # NoBlock
           => buf[rhalf][c] # file[c]]_vars

-----------------------------------------------------------------------------
(* Liveness. *)

\* While the driver stays started the device keeps rendering.
KeepsPlaying == <>[](host = "running") => []<>(rpc = "render") /\ []<>(rpc # "render")

\* stop() always returns: nothing the ASIO thread waits for can be withheld.
StopEnds == host = "stopping" ~> host = "prepared"
=============================================================================
