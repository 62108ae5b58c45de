----------------------------- MODULE PlayDevice -----------------------------
(***************************************************************************)
(* The play device's render side (dk_pd_mock): the receive thread that     *)
(* copies PCMDATA packages into the double buffers of the channels, and    *)
(* the render thread _pd_thread_4_render that asks for the other half and  *)
(* writes the half that is ready to the channel files.                     *)
(*                                                                         *)
(* The two threads share the channel buffers without a lock; the events    *)
(* m_hEventBuf0Ready and m_hEventBuf1Ready are all that orders them.       *)
(***************************************************************************)
EXTENDS AsioLink

VARIABLES
    rxpc,      \* receive thread: "recv", "copy", "signal"
    rx,        \* the PCMDATA package it handles
    ready,     \* m_hEventBuf0Ready and m_hEventBuf1Ready, auto-reset
    newInst,   \* m_hEventNewInstance, auto-reset
    buf,       \* buf[h][c]: m_pBuf0/1 of channel c, with its valid length
    rpc,       \* render thread: "wait", "new", "request", "render"
    rhalf,     \* the half it renders
    rch,       \* the loop variable uIdx of _do_render
    file       \* file[c]: the last block written to channel_<c>.pcm

rxVars == <<rxpc, rx, buf>>
renderVars == <<rpc, rhalf, rch, file>>
deviceVars == <<rxpc, rx, ready, newInst, buf, rpc, rhalf, rch, file>>

Channels == 0 .. (PDChannels - 1)

\* No package is being handled.
NoPackage == [cmd |-> "NONE"]

DeviceTypeOK ==
    /\ rxpc \in {"recv", "copy", "signal"}
    /\ rx \in IF rxpc = "recv" THEN {NoPackage} ELSE PCMPackage
    /\ ready \in [Halves -> BOOLEAN]
    /\ newInst \in BOOLEAN
    /\ buf \in [Halves -> [Channels -> Blocks \cup {NoBlock}]]
    /\ rpc \in {"wait", "new", "request", "render"}
    /\ rhalf \in Halves
    /\ rch \in 0 .. PDChannels
    /\ file \in [Channels -> Blocks \cup {NoBlock}]

DeviceInit ==
    /\ rxpc = "recv"
    /\ rx = NoPackage
    /\ ready = [h \in Halves |-> FALSE]
    /\ newInst = FALSE
    /\ buf = [h \in Halves |-> [c \in Channels |-> NoBlock]]
    /\ rpc = "wait"
    /\ rhalf = 0
    /\ rch = 0
    /\ file = [c \in Channels |-> NoBlock]

-----------------------------------------------------------------------------
(* The receive thread. *)

\* A package of samples the device keeps: a channel it has.
Useful(p) == p.cmd = "PCMDATA" /\ p.channel < PDChannels

\* A mutation of Signals: every kept package signals its half.
SignalsAlways(p) == Useful(p)

\* A mutation of Signals: only the last channel of the device signals.
SignalsFullOnly(p) == Useful(p) /\ p.channel + 1 = PDChannels

\* The package that completes a half: the device's last channel, or the last
\* one the source sends.
Signals(p) ==
    /\ Useful(p)
    /\ \/ p.channel + 1 = PDChannels
       \/ p.channel + 1 = p.count

ReceiveNewInstance ==
    /\ rxpc = "recv"
    /\ toPD # << >>
    /\ Head(toPD).cmd = "NEW_INSTANCE"
    /\ newInst' = TRUE
    /\ toPD' = Tail(toPD)
    /\ UNCHANGED <<rxVars, ready, renderVars, toAS>>

DropPackage ==
    /\ rxpc = "recv"
    /\ toPD # << >>
    /\ Head(toPD).cmd = "PCMDATA"
    /\ ~Useful(Head(toPD))
    /\ toPD' = Tail(toPD)
    /\ UNCHANGED <<deviceVars, toAS>>

ReceivePackage ==
    /\ rxpc = "recv"
    /\ toPD # << >>
    /\ Useful(Head(toPD))
    /\ rx' = Head(toPD)
    /\ rxpc' = "copy"
    /\ toPD' = Tail(toPD)
    /\ UNCHANGED <<ready, newInst, buf, renderVars, toAS>>

\* memcpy_s and the assignment of the valid length.
CopyPackage ==
    /\ rxpc = "copy"
    /\ buf' = [buf EXCEPT ![rx.half][rx.channel] = rx.block]
    /\ rxpc' = "signal"
    /\ UNCHANGED <<rx, ready, newInst, renderVars, linkVars>>

PackageDone ==
    /\ rxpc = "signal"
    /\ ready' = IF Signals(rx) THEN [ready EXCEPT ![rx.half] = TRUE] ELSE ready
    /\ rx' = NoPackage
    /\ rxpc' = "recv"
    /\ UNCHANGED <<newInst, buf, renderVars, linkVars>>

-----------------------------------------------------------------------------
(* The render thread. *)

WakeOnReady(h) ==
    /\ rpc = "wait"
    /\ ready[h]
    /\ h = 1 => ~ready[0]
    /\ ready' = [ready EXCEPT ![h] = FALSE]
    /\ rhalf' = h
    /\ rpc' = "request"
    /\ UNCHANGED <<rxVars, newInst, rch, file, linkVars>>

WakeOnNewInstance ==
    /\ rpc = "wait"
    /\ newInst
    /\ \A h \in Halves : ~ready[h]
    /\ newInst' = FALSE
    /\ rpc' = "new"
    /\ UNCHANGED <<rxVars, ready, rhalf, rch, file, linkVars>>

\* _req_pcmdata( pInst, 1 ) for a new instance.
RequestFirst ==
    /\ rpc = "new"
    /\ SendToAS(0)
    /\ rpc' = "wait"
    /\ UNCHANGED <<rxVars, ready, newInst, rhalf, rch, file, toPD>>

\* A mutation of RequestNext: asks for the half that is about to be rendered.
RequestSame ==
    /\ rpc = "request"
    /\ SendToAS(rhalf)
    /\ rpc' = "render"
    /\ UNCHANGED <<rxVars, ready, newInst, rhalf, rch, file, toPD>>

\* _req_pcmdata of the other half, before rendering this one.
RequestNext ==
    /\ rpc = "request"
    /\ SendToAS(Other(rhalf))
    /\ rpc' = "render"
    /\ UNCHANGED <<rxVars, ready, newInst, rhalf, rch, file, toPD>>

\* WriteFile of one channel; a buffer that is still empty writes no byte.
WriteChannel ==
    /\ rpc = "render"
    /\ rch < PDChannels
    /\ LET b == buf[rhalf][rch] IN
         file' = IF b = NoBlock THEN file ELSE [file EXCEPT ![rch] = b]
    /\ rch' = rch + 1
    /\ UNCHANGED <<rxVars, ready, newInst, rpc, rhalf, linkVars>>

RenderDone ==
    /\ rpc = "render"
    /\ rch = PDChannels
    /\ rpc' = "wait"
    /\ rch' = 0
    /\ rhalf' = 0
    /\ UNCHANGED <<rxVars, ready, newInst, file, linkVars>>

-----------------------------------------------------------------------------

ReceiveThread ==
    \/ ReceiveNewInstance
    \/ DropPackage
    \/ ReceivePackage
    \/ CopyPackage
    \/ PackageDone

RenderThread ==
    \/ \E h \in Halves : WakeOnReady(h)
    \/ WakeOnNewInstance
    \/ RequestFirst
    \/ RequestNext
    \/ WriteChannel
    \/ RenderDone

DeviceNext == ReceiveThread \/ RenderThread
=============================================================================
