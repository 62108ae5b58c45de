----------------------------- MODULE AsioDriver -----------------------------
(***************************************************************************)
(* The audio source: class DKASIOUser, its ASIO thread, the dk_pcm_engine  *)
(* that turns a WANTDATA package into an event, and the host application   *)
(* that drives the ASIO interface.                                         *)
(*                                                                         *)
(* The host keeps to the ASIO state machine (loaded, prepared by           *)
(* createBuffers, running after start) and calls from one thread.  One     *)
(* interface stays attached to the engine.  stop() waits for the ASIO      *)
(* thread; the wait is modelled as ending when the thread has ended, that  *)
(* is, a callback and its sends take less than the 1000 ms stop() allows.  *)
(***************************************************************************)
EXTENDS AsioLink

VARIABLES
    host,      \* where the host is: "loaded", "prepared", "running", "stopping"
    active,    \* m_uActiveOutputs
    stopEvt,   \* m_hEventStop, manual-reset
    evBuf,     \* m_hEventBuf0 and m_hEventBuf1, auto-reset
    started,   \* DKASIOUSER_FLAG_STARTED
    tpc,       \* ASIO thread: "none", "begin", "wait", "switch", "send", "exit"
    toggle,    \* the half _bufferSwitch works on
    idx,       \* the loop variable uIdx of _bufferSwitch
    hostBuf,   \* hostBuf[h]: the block the host last filled half h with
    filled     \* number of the next block the host will produce

hostVars == <<host, active, stopEvt>>
threadVars == <<started, tpc, toggle, idx, hostBuf, filled>>
driverVars == <<host, active, stopEvt, evBuf, started, tpc, toggle, idx, hostBuf, filled>>

DriverTypeOK ==
    /\ host \in {"loaded", "prepared", "running", "stopping"}
    /\ active \in OutputCounts \cup {0}
    /\ stopEvt \in BOOLEAN
    /\ evBuf \in [Halves -> BOOLEAN]
    /\ started \in BOOLEAN
    /\ tpc \in {"none", "begin", "wait", "switch", "send", "exit"}
    /\ toggle \in Halves
    /\ idx \in Nat
    /\ hostBuf \in [Halves -> Blocks]
    /\ filled \in Blocks

\* The constructor has run and attached itself; the host has no buffers yet.
DriverInit ==
    /\ host = "loaded"
    /\ active = 0
    /\ stopEvt = FALSE
    /\ evBuf = [h \in Halves |-> FALSE]
    /\ started = FALSE
    /\ tpc = "none"
    /\ toggle = 0
    /\ idx = 0
    /\ hostBuf = [h \in Halves |-> 0]
    /\ filled = 0

-----------------------------------------------------------------------------
(* The host's calls. *)

CreateBuffers ==
    /\ host = "loaded"
    /\ \E n \in OutputCounts : active' = n
    /\ host' = "prepared"
    /\ UNCHANGED <<stopEvt, evBuf, threadVars, linkVars>>

DisposeBuffers ==
    /\ host = "prepared"
    /\ active' = 0
    /\ host' = "loaded"
    /\ UNCHANGED <<stopEvt, evBuf, threadVars, linkVars>>

\* The thread, not start(), sets STARTED.  The buffer events are not reset:
\* a request that arrived while the driver was stopped is still signalled.
Start ==
    /\ host = "prepared"
    /\ host' = "running"
    /\ IF started
         THEN UNCHANGED <<stopEvt, tpc>>
         ELSE stopEvt' = FALSE /\ tpc' = "begin"
    /\ UNCHANGED <<active, evBuf, started, toggle, idx, hostBuf, filled, linkVars>>

\* A mutation of Stop: the event that ends the thread is not set.
StopWithoutEvent ==
    /\ host = "running"
    /\ host' = "stopping"
    /\ UNCHANGED <<active, stopEvt, evBuf, threadVars, linkVars>>

Stop ==
    /\ host = "running"
    /\ stopEvt' = TRUE
    /\ host' = "stopping"
    /\ UNCHANGED <<active, evBuf, threadVars, linkVars>>

StopReturns ==
    /\ host = "stopping"
    /\ tpc = "none"
    /\ host' = "prepared"
    /\ UNCHANGED <<active, stopEvt, evBuf, threadVars, linkVars>>

-----------------------------------------------------------------------------
(* The receive thread: WANTDATA_BUFn reaches wantDataBufn, which signals.  *)

ReceiveWant ==
    /\ toAS # << >>
    /\ evBuf' = [evBuf EXCEPT ![Head(toAS)] = TRUE]
    /\ toAS' = Tail(toAS)
    /\ UNCHANGED <<hostVars, threadVars, toPD>>

-----------------------------------------------------------------------------
(* The ASIO thread, DKASIOThreadProc. *)

ThreadBegin ==
    /\ tpc = "begin"
    /\ started' = TRUE
    /\ tpc' = "wait"
    /\ UNCHANGED <<hostVars, evBuf, toggle, idx, hostBuf, filled, linkVars>>

\* WaitForMultipleObjects returns the lowest index that is signalled.
WakeOnStop ==
    /\ tpc = "wait"
    /\ stopEvt
    /\ tpc' = "exit"
    /\ UNCHANGED <<hostVars, evBuf, started, toggle, idx, hostBuf, filled, linkVars>>

WakeOnBuf(h) ==
    /\ tpc = "wait"
    /\ ~stopEvt
    /\ evBuf[h]
    /\ h = 1 => ~evBuf[0]
    /\ evBuf' = [evBuf EXCEPT ![h] = FALSE]
    /\ toggle' = h
    /\ tpc' = "switch"
    /\ UNCHANGED <<hostVars, started, idx, hostBuf, filled, linkVars>>

\* _bufferSwitch: the host fills the half of every active output with its
\* next block.  Without STARTED the request is dropped.
FillHalf(h, next) ==
    IF started
      THEN /\ hostBuf' = [hostBuf EXCEPT ![h] = filled]
           /\ filled' = next
           /\ tpc' = "send"
           /\ UNCHANGED toggle
      ELSE /\ tpc' = "wait"
           /\ toggle' = 0
           /\ UNCHANGED <<hostBuf, filled>>

\* A mutation of BufferSwitch: the block number is not reduced.
BufferSwitchUnreduced ==
    /\ tpc = "switch"
    /\ FillHalf(toggle, filled + 1)
    /\ UNCHANGED <<hostVars, evBuf, started, idx, linkVars>>

\* A mutation of BufferSwitch: the host is told to fill the other half.
BufferSwitchWrongHalf ==
    /\ tpc = "switch"
    /\ FillHalf(Other(toggle), (filled + 1) % BlockMod)
    /\ UNCHANGED <<hostVars, evBuf, started, idx, linkVars>>

BufferSwitch ==
    /\ tpc = "switch"
    /\ FillHalf(toggle, (filled + 1) % BlockMod)
    /\ UNCHANGED <<hostVars, evBuf, started, idx, linkVars>>

SendChannel ==
    /\ tpc = "send"
    /\ idx < active
    /\ SendToPD(PCMData(toggle, idx, active, hostBuf[toggle]))
    /\ idx' = idx + 1
    /\ UNCHANGED <<hostVars, evBuf, started, tpc, toggle, hostBuf, filled, toAS>>

SwitchDone ==
    /\ tpc = "send"
    /\ idx >= active
    /\ tpc' = "wait"
    /\ idx' = 0
    /\ toggle' = 0
    /\ UNCHANGED <<hostVars, evBuf, started, hostBuf, filled, linkVars>>

ThreadExit ==
    /\ tpc = "exit"
    /\ started' = FALSE
    /\ tpc' = "none"
    /\ UNCHANGED <<hostVars, evBuf, toggle, idx, hostBuf, filled, linkVars>>

-----------------------------------------------------------------------------

HostStep == CreateBuffers \/ DisposeBuffers \/ Start \/ Stop \/ StopReturns

AsioThread ==
    \/ ThreadBegin
    \/ WakeOnStop
    \/ \E h \in Halves : WakeOnBuf(h)
    \/ BufferSwitch
    \/ SendChannel
    \/ SwitchDone
    \/ ThreadExit

DriverNext == HostStep \/ ReceiveWant \/ AsioThread
=============================================================================
