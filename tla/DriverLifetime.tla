--------------------------- MODULE DriverLifetime ----------------------------
(***************************************************************************)
(* The lifetime of DKASIOUser objects, of their ASIO threads and of their  *)
(* buffers: what AsioDriver takes for granted.  The waits of stop() and of *)
(* the destructor may time out, start() may be called twice, m_uFlag is    *)
(* changed by two threads without a lock, a host may hold two objects, and *)
(* the render link's receive thread signals whatever object the engine has *)
(* attached at that moment.                                                *)
(*                                                                         *)
(* The host calls from one thread and in the order of the ASIO state       *)
(* machine, except that it may call start() again, future() at any time,   *)
(* and release an object without having stopped it.  The two halves of the *)
(* double buffer make no difference here: there is one event per object.   *)
(***************************************************************************)
EXTENDS Naturals, FiniteSets

CONSTANTS
    Objects,   \* the DKASIOUser objects the host creates, each of them once
    NoObject,  \* m_pIntfCur = NULL
    Threads,   \* thread slots of an object: at most this many run at a time
    NoThread   \* m_hThreadASIO = NULL

ASSUME ObjectAssumption == NoObject \notin Objects
ASSUME ThreadAssumption == NoThread \notin Threads

\* The bits of m_uFlag the model has: TCREAD stands for every bit the host's
\* calls change.
Flags == {"STARTED", "TCREAD"}

\* What may go wrong with an object: a wait for its thread timed out, start()
\* was called before the thread of the last start() ran, a change of m_uFlag
\* was overwritten by another thread's.
Races == {"late", "twice", "flag"}

VARIABLES
    life,      \* life[o]: "none", "loaded", "prepared", "running", "gone"
    call,      \* the call the host thread is in: "none", "stop", "release", "future"
    callee,    \* the object it calls
    attached,  \* m_pIntfCur of the engine and of the root
    target,    \* the object the receive thread is signalling, with the engine's lock
    buffers,   \* buffers[o]: m_aryBufOutput[] are allocated
    flag,      \* flag[o]: m_uFlag
    stopEvt,   \* stopEvt[o]: m_hEventStop
    bufEvt,    \* bufEvt[o]: m_hEventBuf0 or m_hEventBuf1
    handle,    \* handle[o]: the thread m_hThreadASIO names
    pc,        \* pc[o][t]: where DKASIOThreadProc is, "none" if t does not run
    seen,      \* seen[o][x]: m_uFlag as thread x, or the host, has last read it
    races      \* races[o]: what has gone wrong with o

objectVars == <<life, call, callee, attached, buffers, handle>>
vars == <<objectVars, target, flag, stopEvt, bufEvt, pc, seen, races>>

Host == NoThread   \* the host's place in seen

Running(o) == {t \in Threads : pc[o][t] # "none"}

-----------------------------------------------------------------------------

Init ==
    /\ life = [o \in Objects |-> "none"]
    /\ call = "none"
    /\ callee = NoObject
    /\ attached = NoObject
    /\ target = NoObject
    /\ buffers = [o \in Objects |-> FALSE]
    /\ flag = [o \in Objects |-> {}]
    /\ stopEvt = [o \in Objects |-> FALSE]
    /\ bufEvt = [o \in Objects |-> FALSE]
    /\ handle = [o \in Objects |-> NoThread]
    /\ pc = [o \in Objects |-> [t \in Threads |-> "none"]]
    /\ seen = [o \in Objects |-> [x \in Threads \cup {Host} |-> {}]]
    /\ races = [o \in Objects |-> {}]

\* A read-modify-write of m_uFlag is two steps: Peek reads, Poke writes.
Peek(o, x) == seen' = [seen EXCEPT ![o][x] = flag[o]]

Poke(o, x, new) ==
    /\ flag' = [flag EXCEPT ![o] = new]
    /\ seen' = [seen EXCEPT ![o][x] = {}]
    /\ races' = [races EXCEPT ![o] = IF flag[o] = seen[o][x] THEN @ ELSE @ \cup {"flag"}]

-----------------------------------------------------------------------------
(* The host's calls. *)

\* The constructor and setASIOInterface( this ), which takes the engine's lock.
Create(o) ==
    /\ call = "none"
    /\ life[o] = "none"
    /\ target = NoObject
    /\ life' = [life EXCEPT ![o] = "loaded"]
    /\ attached' = o
    /\ UNCHANGED <<call, callee, target, buffers, flag, stopEvt, bufEvt, handle, pc, seen, races>>

\* createBuffers answers ASE_OK even when it has disposed of everything again.
CreateBuffers(o) ==
    /\ call = "none"
    /\ life[o] = "loaded"
    /\ life' = [life EXCEPT ![o] = "prepared"]
    /\ \E allocated \in BOOLEAN : buffers' = [buffers EXCEPT ![o] = allocated]
    /\ UNCHANGED <<call, callee, attached, target, flag, stopEvt, bufEvt, handle, pc, seen, races>>

DisposeBuffers(o) ==
    /\ call = "none"
    /\ life[o] = "prepared"
    /\ life' = [life EXCEPT ![o] = "loaded"]
    /\ buffers' = [buffers EXCEPT ![o] = FALSE]
    /\ UNCHANGED <<call, callee, attached, target, flag, stopEvt, bufEvt, handle, pc, seen, races>>

\* What start() does for an object whose m_uFlag shows no thread.
CreateThread(o) ==
    \E t \in Threads :
        /\ pc[o][t] = "none"
        /\ pc' = [pc EXCEPT ![o][t] = "begin"]
        /\ handle' = [handle EXCEPT ![o] = t]
        /\ races' = [races EXCEPT ![o] = IF life[o] = "running" THEN @ \cup {"twice"} ELSE @]

Startable(o) == call = "none" /\ life[o] \in {"prepared", "running"}

\* A mutation of Start: the flag is not looked at.
StartUnchecked(o) ==
    /\ Startable(o)
    /\ life' = [life EXCEPT ![o] = "running"]
    /\ stopEvt' = [stopEvt EXCEPT ![o] = FALSE]
    /\ \E t \in Threads :
        /\ pc[o][t] = "none"
        /\ pc' = [pc EXCEPT ![o][t] = "begin"]
        /\ handle' = [handle EXCEPT ![o] = t]
    /\ UNCHANGED <<call, callee, attached, target, buffers, flag, bufEvt, seen, races>>

\* A mutation of Start: the event that ended the last thread is not reset.
StartStopped(o) ==
    /\ Startable(o)
    /\ life' = [life EXCEPT ![o] = "running"]
    /\ IF "STARTED" \in flag[o] THEN UNCHANGED <<pc, handle, races>> ELSE CreateThread(o)
    /\ UNCHANGED <<call, callee, attached, target, buffers, flag, stopEvt, bufEvt, seen>>

Start(o) ==
    /\ Startable(o)
    /\ life' = [life EXCEPT ![o] = "running"]
    /\ IF "STARTED" \in flag[o]
         THEN UNCHANGED <<stopEvt, pc, handle, races>>
         ELSE stopEvt' = [stopEvt EXCEPT ![o] = FALSE] /\ CreateThread(o)
    /\ UNCHANGED <<call, callee, attached, target, buffers, flag, bufEvt, seen>>

Stop(o) ==
    /\ call = "none"
    /\ life[o] = "running"
    /\ call' = "stop"
    /\ callee' = o
    /\ stopEvt' = [stopEvt EXCEPT ![o] = TRUE]
    /\ UNCHANGED <<life, attached, target, buffers, flag, bufEvt, handle, pc, seen, races>>

\* A mutation of Release: the destructor leaves the object attached.
ReleaseAttached(o) ==
    /\ call = "none"
    /\ life[o] \in {"loaded", "prepared", "running"}
    /\ target = NoObject
    /\ call' = "release"
    /\ callee' = o
    /\ stopEvt' = [stopEvt EXCEPT ![o] = TRUE]
    /\ UNCHANGED <<life, attached, target, buffers, flag, bufEvt, handle, pc, seen, races>>

\* The destructor detaches the object, or whatever object is attached, waits
\* 100 ms and begins to wait for its thread.
Release(o) ==
    /\ call = "none"
    /\ life[o] \in {"loaded", "prepared", "running"}
    /\ target = NoObject
    /\ attached' = NoObject
    /\ call' = "release"
    /\ callee' = o
    /\ stopEvt' = [stopEvt EXCEPT ![o] = TRUE]
    /\ UNCHANGED <<life, target, buffers, flag, bufEvt, handle, pc, seen, races>>

\* A mutation of Waited: nobody waits for the thread.
WaitedNot(late) ==
    LET o     == callee
        ended == handle[o] \notin Running(o)
    IN  /\ call \in {"stop", "release"}
        /\ life' = [life EXCEPT ![o] = IF call = "stop" THEN "prepared" ELSE "gone"]
        /\ handle' = [handle EXCEPT ![o] = NoThread]
        /\ call' = "none"
        /\ callee' = NoObject
        /\ IF late
             THEN ~ended /\ races' = [races EXCEPT ![o] = @ \cup {"late"}]
             ELSE UNCHANGED races
        /\ UNCHANGED <<attached, target, buffers, flag, stopEvt, bufEvt, pc, seen>>

\* The wait of stop() or of the destructor has ended, or has lasted too long.
Waited(late) ==
    LET o     == callee
        ended == handle[o] \notin Running(o)
    IN  /\ call \in {"stop", "release"}
        /\ life' = [life EXCEPT ![o] = IF call = "stop" THEN "prepared" ELSE "gone"]
        /\ handle' = [handle EXCEPT ![o] = NoThread]
        /\ call' = "none"
        /\ callee' = NoObject
        /\ IF late
             THEN ~ended /\ races' = [races EXCEPT ![o] = @ \cup {"late"}]
             ELSE ended /\ UNCHANGED races
        /\ UNCHANGED <<attached, target, buffers, flag, stopEvt, bufEvt, pc, seen>>

\* future(), which changes TCREAD; createBuffers changes another bit.
FutureReads(o) ==
    /\ call = "none"
    /\ life[o] \notin {"none", "gone"}
    /\ call' = "future"
    /\ callee' = o
    /\ Peek(o, Host)
    /\ UNCHANGED <<life, attached, target, buffers, flag, stopEvt, bufEvt, handle, pc, races>>

FutureWrites ==
    /\ call = "future"
    /\ \E new \in {seen[callee][Host] \cup {"TCREAD"}, seen[callee][Host] \ {"TCREAD"}} :
            Poke(callee, Host, new)
    /\ call' = "none"
    /\ callee' = NoObject
    /\ UNCHANGED <<life, attached, target, buffers, stopEvt, bufEvt, handle, pc>>

-----------------------------------------------------------------------------
(* The receive thread of the render link, in dk_pcm_engine. *)

\* _on_event_WantDataBufn: enters the lock and reads m_pIntfCur.
WantEnters ==
    /\ target = NoObject
    /\ attached # NoObject
    /\ target' = attached
    /\ UNCHANGED <<objectVars, flag, stopEvt, bufEvt, pc, seen, races>>

\* wantDataBufn, and out of the lock.
WantSignals ==
    /\ target # NoObject
    /\ bufEvt' = [bufEvt EXCEPT ![target] = TRUE]
    /\ target' = NoObject
    /\ UNCHANGED <<objectVars, flag, stopEvt, pc, seen, races>>

-----------------------------------------------------------------------------
(* DKASIOThreadProc. *)

Goes(o, t, from, to) == pc[o][t] = from /\ pc' = [pc EXCEPT ![o][t] = to]

Begins(o, t) ==
    /\ Goes(o, t, "begin", "set")
    /\ Peek(o, t)
    /\ UNCHANGED <<objectVars, target, flag, stopEvt, bufEvt, races>>

\* A mutation of SetsStarted: m_uFlag is left as it was.
SetsNothing(o, t) ==
    /\ Goes(o, t, "set", "wait")
    /\ Poke(o, t, seen[o][t])
    /\ UNCHANGED <<objectVars, target, stopEvt, bufEvt>>

SetsStarted(o, t) ==
    /\ Goes(o, t, "set", "wait")
    /\ Poke(o, t, seen[o][t] \cup {"STARTED"})
    /\ UNCHANGED <<objectVars, target, stopEvt, bufEvt>>

WakesOnBuf(o, t) ==
    /\ life[o] # "gone"
    /\ ~stopEvt[o]
    /\ bufEvt[o]
    /\ Goes(o, t, "wait", "switch")
    /\ bufEvt' = [bufEvt EXCEPT ![o] = FALSE]
    /\ UNCHANGED <<objectVars, target, flag, stopEvt, seen, races>>

\* The stop event comes first; a wait for events that are closed fails.
WakesToEnd(o, t) ==
    /\ stopEvt[o] \/ life[o] = "gone"
    /\ Goes(o, t, "wait", "exit")
    /\ UNCHANGED <<objectVars, target, flag, stopEvt, bufEvt, seen, races>>

\* _bufferSwitch: without STARTED the request is dropped.
Switches(o, t) ==
    /\ Goes(o, t, "switch", IF "STARTED" \in flag[o] THEN "fill" ELSE "wait")
    /\ UNCHANGED <<objectVars, target, flag, stopEvt, bufEvt, seen, races>>

\* bufferSwitch of the host has filled the buffers.
Filled(o, t) ==
    /\ Goes(o, t, "fill", "send")
    /\ UNCHANGED <<objectVars, target, flag, stopEvt, bufEvt, seen, races>>

\* Every channel has been sent.
Sent(o, t) ==
    /\ Goes(o, t, "send", "wait")
    /\ UNCHANGED <<objectVars, target, flag, stopEvt, bufEvt, seen, races>>

Exits(o, t) ==
    /\ Goes(o, t, "exit", "clear")
    /\ Peek(o, t)
    /\ UNCHANGED <<objectVars, target, flag, stopEvt, bufEvt, races>>

ClearsStarted(o, t) ==
    /\ Goes(o, t, "clear", "none")
    /\ Poke(o, t, seen[o][t] \ {"STARTED"})
    /\ UNCHANGED <<objectVars, target, stopEvt, bufEvt>>

-----------------------------------------------------------------------------

HostCalls(o) ==
    \/ Create(o) \/ CreateBuffers(o) \/ DisposeBuffers(o)
    \/ Start(o) \/ Stop(o) \/ Release(o) \/ FutureReads(o)

CallReturns == FutureWrites \/ \E late \in BOOLEAN : Waited(late)

Wanted == WantEnters \/ WantSignals

AsioThread(o, t) ==
    \/ Begins(o, t) \/ SetsStarted(o, t)
    \/ WakesOnBuf(o, t) \/ WakesToEnd(o, t)
    \/ Switches(o, t) \/ Filled(o, t) \/ Sent(o, t)
    \/ Exits(o, t) \/ ClearsStarted(o, t)

Next ==
    \/ \E o \in Objects : HostCalls(o)
    \/ CallReturns
    \/ Wanted
    \/ \E o \in Objects, t \in Threads : AsioThread(o, t)

\* The host's calls and its bufferSwitch return; the threads run.  Nobody has
\* to call the driver, and the device need not ask for anything.
Fairness ==
    /\ WF_vars(CallReturns)
    /\ WF_vars(WantSignals)
    /\ \A o \in Objects, t \in Threads : WF_vars(AsioThread(o, t))

Spec == Init /\ [][Next]_vars
FairSpec == Spec /\ Fairness

-----------------------------------------------------------------------------

TypeOK ==
    /\ life \in [Objects -> {"none", "loaded", "prepared", "running", "gone"}]
    /\ call \in {"none", "stop", "release", "future"}
    /\ callee \in Objects \cup {NoObject}
    /\ attached \in Objects \cup {NoObject}
    /\ target \in Objects \cup {NoObject}
    /\ buffers \in [Objects -> BOOLEAN]
    /\ flag \in [Objects -> SUBSET Flags]
    /\ stopEvt \in [Objects -> BOOLEAN]
    /\ bufEvt \in [Objects -> BOOLEAN]
    /\ handle \in [Objects -> Threads \cup {NoThread}]
    /\ pc \in [Objects -> [Threads -> {"none", "begin", "set", "wait", "switch",
                                       "fill", "send", "exit", "clear"}]]
    /\ seen \in [Objects -> [Threads \cup {Host} -> SUBSET Flags]]
    /\ races \in [Objects -> SUBSET Races]

\* The object whose event the receive thread is about to set is alive: a
\* destructor that runs meanwhile waits for the engine's lock, and no race
\* breaks this.
SignalsLiveObject == target # NoObject => life[target] \notin {"none", "gone"}

\* The buffers are not freed while the host fills them or the thread sends
\* them, unless stop() gave up waiting or start() was called too early.
NeverFreedInUse ==
    [][\A o \in Objects :
          (buffers[o] /\ ~buffers'[o] /\ races[o] = {})
             => \A t \in Threads : pc[o][t] \notin {"fill", "send"}]_vars

\* An object has one thread at most, and none once stop() has returned or the
\* object is gone.
OneThread ==
    \A o \in Objects : races[o] = {} =>
        /\ Cardinality(Running(o)) <= 1
        /\ life[o] \in {"loaded", "prepared", "gone"} /\ callee # o => Running(o) = {}

\* A request the thread has taken is never dropped by _bufferSwitch.
NeverDropped ==
    \A o \in Objects, t \in Threads :
        pc[o][t] = "switch" /\ races[o] = {} => "STARTED" \in flag[o]

\* start() brings a thread to life that serves the device's requests.
Served ==
    \A o \in Objects :
        (life[o] = "running" /\ bufEvt[o])
            ~> (life[o] # "running" \/ callee = o \/ ~bufEvt[o] \/ races[o] # {})
=============================================================================
