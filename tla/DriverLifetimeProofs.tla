------------------------ MODULE DriverLifetimeProofs -------------------------
(***************************************************************************)
(* However many objects the host holds, whichever of them it releases and  *)
(* whenever the device asks for data, the receive thread never sets the    *)
(* event of an object that is gone.  No race is excepted: the waits may    *)
(* time out and start() may be called twice.                               *)
(*                                                                         *)
(* What makes it so is the engine's lock, which the destructor takes to    *)
(* detach the object, and that it does so before it waits: an object whose *)
(* destructor runs is neither attached nor a target.                       *)
(*                                                                         *)
(* Objects that no race has touched have one thread at most, it is the one *)
(* m_hThreadASIO names, and m_uFlag shows it from its first statement to   *)
(* its last: so disposeBuffers and the return of stop() find no thread.    *)
(***************************************************************************)
EXTENDS DriverLifetime, FiniteSetTheorems, TLAPS

\* o can be signalled: it is not gone and no destructor of it runs.
Signalable(o) ==
    /\ o \in Objects
    /\ life[o] \notin {"none", "gone"}
    /\ ~(call = "release" /\ callee = o)

\* The host is in a call of an object, and stops only one that is running.
CallsAnObject ==
    /\ call # "none" => callee \in Objects
    /\ call = "stop" => life[callee] = "running"

IInv ==
    /\ TypeOK
    /\ CallsAnObject
    /\ attached # NoObject => Signalable(attached)
    /\ target # NoObject => Signalable(target)

-----------------------------------------------------------------------------

\* At first there is no object.
LEMMA InitHolds == Init => IInv
<1> SUFFICES ASSUME Init PROVE IInv
  OBVIOUS
<1>1. TypeOK
  BY ThreadAssumption DEF Init, TypeOK, Host
<1>2. QED
  BY <1>1 DEF Init, IInv, CallsAnObject

\* The two halves of a change of m_uFlag keep its type.
LEMMA PeekKeepsType ==
    ASSUME TypeOK, NEW o \in Objects, NEW x \in Threads \cup {Host}, Peek(o, x)
    PROVE  seen' \in [Objects -> [Threads \cup {Host} -> SUBSET Flags]]
BY DEF TypeOK, Peek

\* The second half.
LEMMA PokeKeepsType ==
    ASSUME TypeOK, NEW o \in Objects, NEW x \in Threads \cup {Host},
           NEW new \in SUBSET Flags, Poke(o, x, new)
    PROVE  /\ seen' \in [Objects -> [Threads \cup {Host} -> SUBSET Flags]]
           /\ flag' \in [Objects -> SUBSET Flags]
           /\ races' \in [Objects -> SUBSET Races]
<1>1. seen' \in [Objects -> [Threads \cup {Host} -> SUBSET Flags]]
  BY DEF TypeOK, Poke
<1>2. flag' \in [Objects -> SUBSET Flags] /\ races' \in [Objects -> SUBSET Races]
  BY DEF TypeOK, Poke, Races
<1>3. QED
  BY <1>1, <1>2

\* A step that leaves the host's call, the engine and the lives of the objects
\* alone.
LEMMA ThreadKeeps ==
    ASSUME IInv, UNCHANGED <<life, call, callee, attached, target>>, TypeOK'
    PROVE  IInv'
BY DEF IInv, CallsAnObject, Signalable

-----------------------------------------------------------------------------
(* The host's calls. *)

\* A new object is attached; the one that was stays as it is.
LEMMA CreateKeeps ==
    ASSUME IInv, NEW o \in Objects, Create(o)
    PROVE  IInv'
<1>1. TypeOK'
  BY DEF IInv, TypeOK, Create
<1>2. /\ life' = [life EXCEPT ![o] = "loaded"] /\ attached' = o /\ target' = NoObject
      /\ call = "none" /\ call' = "none" /\ life'[o] = "loaded"
  BY DEF IInv, TypeOK, Create
<1>3. QED
  BY <1>1, <1>2 DEF IInv, CallsAnObject, Signalable

\* Calls that change the life of an object that stays alive.
LEMMA AliveKeeps ==
    ASSUME IInv, NEW o \in Objects,
           NEW l \in {"loaded", "prepared", "running"}, life' = [life EXCEPT ![o] = l],
           call = "none", UNCHANGED <<call, callee, attached, target>>, TypeOK'
    PROVE  IInv'
<1>1. \A p \in Objects : life[p] \notin {"none", "gone"} => life'[p] \notin {"none", "gone"}
  BY DEF IInv, TypeOK
<1>2. QED
  BY <1>1 DEF IInv, CallsAnObject, Signalable

\* createBuffers and disposeBuffers.
LEMMA BuffersKeep ==
    ASSUME IInv, NEW o \in Objects, CreateBuffers(o) \/ DisposeBuffers(o)
    PROVE  IInv'
<1>1. TypeOK'
  BY DEF IInv, TypeOK, CreateBuffers, DisposeBuffers
<1>2. QED
  BY <1>1, AliveKeeps DEF CreateBuffers, DisposeBuffers

\* start()
LEMMA StartKeeps ==
    ASSUME IInv, NEW o \in Objects, Start(o)
    PROVE  IInv'
<1>1. /\ pc' \in [Objects -> [Threads -> {"none", "begin", "set", "wait", "switch",
                                          "fill", "send", "exit", "clear"}]]
      /\ handle' \in [Objects -> Threads \cup {NoThread}]
      /\ races' \in [Objects -> SUBSET Races]
  <2>1. CASE UNCHANGED <<pc, handle, races>>
    BY <2>1 DEF IInv, TypeOK
  <2>2. CASE CreateThread(o)
    <3>1. PICK t \in Threads :
            /\ pc' = [pc EXCEPT ![o][t] = "begin"]
            /\ handle' = [handle EXCEPT ![o] = t]
            /\ races' = [races EXCEPT ![o] = IF life[o] = "running" THEN @ \cup {"twice"} ELSE @]
      BY <2>2 DEF CreateThread
    <3>2. pc' \in [Objects -> [Threads -> {"none", "begin", "set", "wait", "switch",
                                           "fill", "send", "exit", "clear"}]]
      BY <3>1 DEF IInv, TypeOK
    <3>3. races' \in [Objects -> SUBSET Races]
      BY <3>1 DEF IInv, TypeOK, Races
    <3>4. handle' \in [Objects -> Threads \cup {NoThread}]
      BY <3>1 DEF IInv, TypeOK
    <3>5. QED
      BY <3>2, <3>3, <3>4
  <2>3. QED
    BY <2>1, <2>2 DEF Start
<1>2. TypeOK'
  BY <1>1 DEF IInv, TypeOK, Start
<1>3. QED
  BY <1>2, AliveKeeps DEF Start, Startable

\* stop() begins, and future().
LEMMA StopKeeps ==
    ASSUME IInv, NEW o \in Objects, Stop(o) \/ FutureReads(o)
    PROVE  IInv'
<1>1. TypeOK'
  <2>1. CASE Stop(o)
    BY <2>1 DEF IInv, TypeOK, Stop
  <2>2. CASE FutureReads(o)
    BY <2>2, PeekKeepsType DEF IInv, TypeOK, FutureReads
  <2>3. QED
    BY <2>1, <2>2
<1>2. QED
  BY <1>1 DEF IInv, CallsAnObject, Signalable, Stop, FutureReads

\* The destructor begins: nothing is attached, and nobody is signalled.
LEMMA ReleaseKeeps ==
    ASSUME IInv, NEW o \in Objects, Release(o)
    PROVE  IInv'
<1>1. TypeOK'
  BY DEF IInv, TypeOK, Release
<1>2. QED
  BY <1>1 DEF IInv, CallsAnObject, Signalable, Release

\* stop() or the destructor returns: the object that is gone is not attached.
LEMMA WaitedKeeps ==
    ASSUME IInv, NEW late \in BOOLEAN, Waited(late)
    PROVE  IInv'
<1>1. PICK o \in Objects : o = callee
  BY DEF IInv, CallsAnObject, Waited
<1>2. /\ life' = [life EXCEPT ![o] = IF call = "stop" THEN "prepared" ELSE "gone"]
      /\ handle' = [handle EXCEPT ![o] = NoThread]
      /\ (races' = races \/ races' = [races EXCEPT ![o] = @ \cup {"late"}])
      /\ call \in {"stop", "release"} /\ call' = "none" /\ callee' = NoObject
      /\ UNCHANGED <<attached, target, buffers, flag, stopEvt, bufEvt, pc, seen>>
  BY <1>1 DEF Waited
<1>3. races' \in [Objects -> SUBSET Races]
  <2>1. CASE races' = races
    BY <2>1 DEF IInv, TypeOK
  <2>2. CASE races' = [races EXCEPT ![o] = @ \cup {"late"}]
    BY <2>2 DEF IInv, TypeOK, Races
  <2>3. QED
    BY <1>2, <2>1, <2>2
<1>4. TypeOK'
  BY <1>2, <1>3 DEF IInv, TypeOK
<1>5. \A p \in Objects : Signalable(p) => Signalable(p)'
  BY <1>1, <1>2 DEF IInv, TypeOK, Signalable
<1>6. QED
  BY <1>2, <1>4, <1>5 DEF IInv, CallsAnObject, Signalable

\* future() has written m_uFlag.
LEMMA FutureKeeps ==
    ASSUME IInv, FutureWrites
    PROVE  IInv'
<1>1. PICK o \in Objects : o = callee
  BY DEF IInv, CallsAnObject, FutureWrites
<1>2. PICK new \in {seen[o][Host] \cup {"TCREAD"}, seen[o][Host] \ {"TCREAD"}} :
        Poke(o, Host, new)
  BY <1>1 DEF FutureWrites
<1>3. new \in SUBSET Flags
  BY <1>2 DEF IInv, TypeOK, Flags
<1>4. TypeOK'
  BY <1>2, <1>3, PokeKeepsType DEF FutureWrites, IInv, TypeOK
<1>5. QED
  BY <1>4 DEF IInv, CallsAnObject, Signalable, FutureWrites

-----------------------------------------------------------------------------
(* The receive thread and the ASIO threads. *)

\* The receive thread takes the object that is attached.
LEMMA WantedKeeps ==
    ASSUME IInv, Wanted
    PROVE  IInv'
<1>1. TypeOK'
  BY DEF IInv, TypeOK, Wanted, WantEnters, WantSignals, objectVars
<1>2. UNCHANGED <<life, call, callee, attached>> /\ target' \in {NoObject, attached}
  BY DEF Wanted, WantEnters, WantSignals, objectVars
<1>3. QED
  BY <1>1, <1>2 DEF IInv, CallsAnObject, Signalable

\* DKASIOThreadProc.
LEMMA AsioThreadKeeps ==
    ASSUME IInv, NEW o \in Objects, NEW t \in Threads, AsioThread(o, t)
    PROVE  IInv'
<1>1. UNCHANGED <<objectVars, target>>
  BY DEF AsioThread, Begins, SetsStarted, WakesOnBuf, WakesToEnd, Switches, Filled, Sent,
         Exits, ClearsStarted
<1>2. /\ UNCHANGED stopEvt /\ bufEvt' \in [Objects -> BOOLEAN]
      /\ pc' \in [Objects -> [Threads -> {"none", "begin", "set", "wait", "switch",
                                          "fill", "send", "exit", "clear"}]]
  <2>1. UNCHANGED stopEvt /\ (UNCHANGED bufEvt \/ bufEvt' = [bufEvt EXCEPT ![o] = FALSE])
    BY DEF AsioThread, Begins, SetsStarted, WakesOnBuf, WakesToEnd, Switches, Filled, Sent,
           Exits, ClearsStarted
  <2>2. PICK l \in {"none", "set", "wait", "switch", "fill", "send", "exit", "clear"} :
          pc' = [pc EXCEPT ![o][t] = l]
    BY DEF AsioThread, Begins, SetsStarted, WakesOnBuf, WakesToEnd, Switches, Filled, Sent,
           Exits, ClearsStarted, Goes
  <2>3. bufEvt' \in [Objects -> BOOLEAN]
    BY <2>1 DEF IInv, TypeOK
  <2>4. QED
    BY <2>1, <2>2, <2>3 DEF IInv, TypeOK
<1>3. /\ seen' \in [Objects -> [Threads \cup {Host} -> SUBSET Flags]]
      /\ flag' \in [Objects -> SUBSET Flags] /\ races' \in [Objects -> SUBSET Races]
  <2>1. CASE Begins(o, t) \/ Exits(o, t)
    BY <2>1, PeekKeepsType DEF Begins, Exits, IInv, TypeOK
  <2>2. CASE SetsStarted(o, t) \/ ClearsStarted(o, t)
    <3>1. seen[o][t] \in SUBSET Flags
      BY DEF IInv, TypeOK
    <3>2. seen[o][t] \cup {"STARTED"} \in SUBSET Flags /\ seen[o][t] \ {"STARTED"} \in SUBSET Flags
      BY <3>1 DEF Flags
    <3>3. QED
      BY <2>2, <3>2, PokeKeepsType DEF SetsStarted, ClearsStarted, IInv
  <2>3. CASE WakesOnBuf(o, t) \/ WakesToEnd(o, t) \/ Switches(o, t) \/ Filled(o, t) \/ Sent(o, t)
    BY <2>3 DEF WakesOnBuf, WakesToEnd, Switches, Filled, Sent, IInv, TypeOK
  <2>4. QED
    BY <2>1, <2>2, <2>3 DEF AsioThread
<1>4. TypeOK'
  BY <1>1, <1>2, <1>3 DEF IInv, TypeOK, objectVars
<1>5. QED
  BY <1>1, <1>4, ThreadKeeps DEF objectVars

-----------------------------------------------------------------------------

\* Only objects that live, and are not about to go, can be signalled.
THEOREM Invariance == Spec => []IInv
<1>1. Init => IInv
  BY InitHolds
<1>2. IInv /\ [Next]_vars => IInv'
  <2> SUFFICES ASSUME IInv, [Next]_vars PROVE IInv'
    OBVIOUS
  <2>1. ASSUME NEW o \in Objects, HostCalls(o) PROVE IInv'
    BY <2>1, CreateKeeps, BuffersKeep, StartKeeps, StopKeeps, ReleaseKeeps DEF HostCalls
  <2>2. CASE CallReturns
    BY <2>2, WaitedKeeps, FutureKeeps DEF CallReturns
  <2>3. CASE Wanted
    BY <2>3, WantedKeeps
  <2>4. ASSUME NEW o \in Objects, NEW t \in Threads, AsioThread(o, t) PROVE IInv'
    BY <2>4, AsioThreadKeeps
  <2>5. CASE UNCHANGED vars
    <3>1. TypeOK'
      BY <2>5 DEF vars, objectVars, IInv, TypeOK
    <3>2. QED
      BY <2>5, <3>1, ThreadKeeps DEF vars, objectVars
  <2>6. QED
    BY <2>1, <2>2, <2>3, <2>4, <2>5 DEF Next
<1>3. QED
  BY <1>1, <1>2, PTL DEF Spec

\* Every variable keeps its type.
THEOREM TypeCorrect == Spec => []TypeOK
<1>1. IInv => TypeOK
  BY DEF IInv
<1>2. QED
  BY <1>1, Invariance, PTL

\* The object whose event the receive thread is about to set is alive.
THEOREM AlwaysSignalsLiveObject == Spec => []SignalsLiveObject
<1>1. IInv => SignalsLiveObject
  BY DEF IInv, Signalable, SignalsLiveObject
<1>2. QED
  BY <1>1, Invariance, PTL

-----------------------------------------------------------------------------
(* The thread of an object. *)

\* Where the thread is once it has set STARTED and has not cleared it.
Shown == {"wait", "switch", "fill", "send", "exit", "clear"}

\* Unless a race has touched o, its one thread is the one m_hThreadASIO names,
\* it runs only from start() to the return of stop() or of the destructor, and
\* m_uFlag shows it.
OwnThread(o) ==
    races[o] = {} =>
        \A t \in Threads :
            /\ pc[o][t] # "none" => t = handle[o] /\ life[o] = "running"
            /\ pc[o][t] \in Shown => "STARTED" \in flag[o]

TInv == IInv /\ \A o \in Objects : OwnThread(o)

\* A step that leaves the threads of an object, its life and its flag alone.
LEMMA ThreadUntouched ==
    ASSUME NEW o \in Objects, OwnThread(o),
           pc'[o] = pc[o], handle'[o] = handle[o], life'[o] = life[o], flag'[o] = flag[o],
           races'[o] = races[o]
    PROVE  OwnThread(o)'
BY DEF OwnThread

\* What goes wrong with an object is never forgotten, and a change of m_uFlag
\* that goes well has written over what it has read.
LEMMA PokeOfTheLast ==
    ASSUME TypeOK, NEW o \in Objects, NEW x, NEW new, Poke(o, x, new)
    PROVE  /\ flag'[o] = new
           /\ races'[o] = {} => races[o] = {} /\ flag[o] = seen[o][x]
           /\ \A p \in Objects \ {o} : flag'[p] = flag[p] /\ races'[p] = races[p]
BY DEF TypeOK, Poke

\* createBuffers, disposeBuffers and the constructor meet no thread and start
\* none.
LEMMA NoThreadYet ==
    ASSUME TInv, NEW o \in Objects, life[o] # "running", NEW l,
           life' = [life EXCEPT ![o] = l], UNCHANGED <<flag, handle, pc, races>>,
           NEW p \in Objects
    PROVE  OwnThread(p)'
<1>1. OwnThread(p) /\ OwnThread(o)
  BY DEF TInv
<1>2. CASE p = o
  BY <1>1, <1>2 DEF OwnThread, TInv, IInv, TypeOK, Shown
<1>3. CASE p # o
  <2>1. life'[p] = life[p]
    BY <1>3 DEF TInv, IInv, TypeOK
  <2>2. QED
    BY <1>1, <2>1, ThreadUntouched
<1>4. QED
  BY <1>2, <1>3

\* start() finds no thread of an object that is not running; a start() of one
\* that runs is a race, or creates nothing.
LEMMA StartThread ==
    ASSUME TInv, NEW o \in Objects, Start(o), NEW p \in Objects
    PROVE  OwnThread(p)'
<1>1. OwnThread(p) /\ TypeOK
  BY DEF TInv, IInv
<1>2. life' = [life EXCEPT ![o] = "running"] /\ UNCHANGED flag
  BY DEF Start
<1>3. CASE UNCHANGED <<pc, handle, races>>
  <2>1. life'[p] = life[p] \/ life'[p] = "running"
    BY <1>1, <1>2 DEF TypeOK
  <2>2. QED
    BY <1>1, <1>2, <1>3, <2>1 DEF OwnThread
<1>4. CASE CreateThread(o)
  <2>1. PICK t \in Threads :
          /\ pc' = [pc EXCEPT ![o][t] = "begin"]
          /\ handle' = [handle EXCEPT ![o] = t]
          /\ races' = [races EXCEPT ![o] = IF life[o] = "running" THEN @ \cup {"twice"} ELSE @]
    BY <1>4 DEF CreateThread
  <2>2. CASE p # o
    BY <1>1, <1>2, <2>1, <2>2, ThreadUntouched DEF TypeOK
  <2>3. CASE p = o
    <3>1. SUFFICES ASSUME races'[o] = {}, NEW u \in Threads
                   PROVE  /\ pc'[o][u] # "none" => u = handle'[o] /\ life'[o] = "running"
                          /\ pc'[o][u] \in Shown => "STARTED" \in flag'[o]
      BY <2>3 DEF OwnThread
    <3>2. races[o] = {} /\ life[o] # "running"
      BY <1>1, <2>1, <3>1 DEF TypeOK
    <3>3. pc[o][u] = "none"
      BY <1>1, <2>3, <3>2 DEF OwnThread
    <3>4. pc'[o][u] = IF u = t THEN "begin" ELSE "none"
      BY <1>1, <2>1, <3>3 DEF TypeOK
    <3>5. handle'[o] = t /\ life'[o] = "running"
      BY <1>1, <1>2, <2>1 DEF TypeOK
    <3>6. QED
      BY <3>4, <3>5 DEF Shown
  <2>4. QED
    BY <2>2, <2>3
<1>5. QED
  BY <1>3, <1>4 DEF Start

\* When stop() or the destructor returns in time, the thread m_hThreadASIO named
\* has ended, and there was no other; a wait that has lasted too long is a race.
LEMMA WaitedThread ==
    ASSUME TInv, NEW late \in BOOLEAN, Waited(late), NEW p \in Objects
    PROVE  OwnThread(p)'
<1>1. OwnThread(p) /\ TypeOK
  BY DEF TInv, IInv
<1>2. callee \in Objects
  BY DEF TInv, IInv, CallsAnObject, Waited
<1>3. CASE p # callee
  BY <1>1, <1>2, <1>3, ThreadUntouched DEF Waited, TypeOK
<1>4. CASE p = callee
  <2>1. SUFFICES ASSUME races'[p] = {} PROVE \A t \in Threads : pc'[p][t] = "none"
    BY DEF OwnThread, Shown
  <2>2. ~late
    BY <1>1, <1>4, <2>1, ZenonT(40) DEF Waited, TypeOK
  <2>3. races[p] = {} /\ handle[p] \notin Running(p) /\ pc' = pc
    BY <1>4, <2>1, <2>2 DEF Waited
  <2>4. QED
    BY <1>1, <2>3 DEF OwnThread, Running
<1>5. QED
  BY <1>3, <1>4

\* A call of the host that changes another bit of m_uFlag leaves STARTED as it
\* is, unless the thread has written in between.
LEMMA FutureThread ==
    ASSUME TInv, FutureWrites, NEW p \in Objects
    PROVE  OwnThread(p)'
<1>1. OwnThread(p) /\ TypeOK
  BY DEF TInv, IInv
<1>2. callee \in Objects
  BY DEF TInv, IInv, CallsAnObject, FutureWrites
<1>3. PICK new \in {seen[callee][Host] \cup {"TCREAD"}, seen[callee][Host] \ {"TCREAD"}} :
        Poke(callee, Host, new)
  BY DEF FutureWrites
<1>4. UNCHANGED <<life, handle, pc>>
  BY DEF FutureWrites
<1>5. CASE p # callee
  <2>1. flag'[p] = flag[p] /\ races'[p] = races[p]
    BY <1>1, <1>2, <1>3, <1>5, PokeOfTheLast
  <2>2. QED
    BY <1>1, <1>4, <2>1, ThreadUntouched
<1>6. CASE p = callee
  <2>1. races'[p] = {} => races[p] = {} /\ ("STARTED" \in flag[p] => "STARTED" \in flag'[p])
    BY <1>1, <1>2, <1>3, <1>6, PokeOfTheLast
  <2>2. QED
    BY <1>1, <1>4, <2>1 DEF OwnThread
<1>7. QED
  BY <1>5, <1>6

\* DKASIOThreadProc: the thread that sets STARTED is shown from then on, and the
\* one that clears it is the only one.
LEMMA AsioThreadOwn ==
    ASSUME TInv, NEW o \in Objects, NEW t \in Threads, AsioThread(o, t), NEW p \in Objects
    PROVE  OwnThread(p)'
<1>1. OwnThread(p) /\ TypeOK
  BY DEF TInv, IInv
<1>2. UNCHANGED <<life, handle>>
  BY DEF AsioThread, Begins, SetsStarted, WakesOnBuf, WakesToEnd, Switches, Filled, Sent,
         Exits, ClearsStarted, objectVars
<1>3. PICK l : /\ pc[o][t] # "none" /\ pc' = [pc EXCEPT ![o][t] = l]
               /\ l \in Shown \ {"clear"} => pc[o][t] = "set" \/ pc[o][t] \in Shown
               /\ l = "clear" => pc[o][t] \in Shown
               /\ l \notin Shown => l = "set" \/ (l = "none" /\ pc[o][t] = "clear")
  BY DEF AsioThread, Begins, SetsStarted, WakesOnBuf, WakesToEnd, Switches, Filled, Sent,
         Exits, ClearsStarted, Goes, Shown
<1>4. CASE UNCHANGED <<flag, races>> /\ pc[o][t] \notin {"set", "clear"}
  BY <1>1, <1>2, <1>3, <1>4 DEF OwnThread, TypeOK, Shown
<1>5. CASE SetsStarted(o, t) \/ ClearsStarted(o, t)
  <2>1. PICK new : Poke(o, t, new) /\ (SetsStarted(o, t) => "STARTED" \in new)
    BY <1>5 DEF SetsStarted, ClearsStarted
  <2>2. CASE p # o
    <3>1. flag'[p] = flag[p] /\ races'[p] = races[p] /\ pc'[p] = pc[p]
      BY <1>1, <1>3, <2>1, <2>2, PokeOfTheLast, ZenonT(40) DEF TypeOK
    <3>2. QED
      BY <1>1, <1>2, <3>1, ThreadUntouched
  <2>3. CASE p = o
    <3>1. races'[o] = {} => races[o] = {} /\ flag'[o] = new
      BY <1>1, <2>1, PokeOfTheLast
    <3>2. races[o] = {} => \A u \in Threads : pc[o][u] # "none" => u = t
      BY <1>1, <1>3, <2>3 DEF OwnThread
    <3>3. \A u \in Threads : pc'[o][u] = IF u = t THEN l ELSE pc[o][u]
      BY <1>1, <1>3 DEF TypeOK
    <3>4. ClearsStarted(o, t) => l = "none"
      BY <1>1, <3>3 DEF ClearsStarted, Goes, TypeOK
    <3>5. races'[o] = {} => \A u \in Threads :
            /\ pc'[o][u] # "none" => u = handle'[o] /\ life'[o] = "running"
            /\ pc'[o][u] \in Shown => "STARTED" \in flag'[o]
      BY <1>1, <1>2, <1>3, <1>5, <2>1, <2>3, <3>1, <3>2, <3>3, <3>4 DEF OwnThread, Shown
    <3>6. QED
      BY <2>3, <3>5 DEF OwnThread
  <2>4. QED
    BY <2>2, <2>3
<1>6. \/ UNCHANGED <<flag, races>> /\ pc[o][t] \notin {"set", "clear"}
      \/ SetsStarted(o, t) \/ ClearsStarted(o, t)
  BY DEF AsioThread, Begins, SetsStarted, WakesOnBuf, WakesToEnd, Switches, Filled, Sent,
         Exits, ClearsStarted, Goes, objectVars
<1>7. QED
  BY <1>4, <1>5, <1>6

\* The threads of an object are as OwnThread says, in every state.
THEOREM ThreadInvariance == Spec => []TInv
<1>1. Init => TInv
  <2> SUFFICES ASSUME Init PROVE \A o \in Objects : OwnThread(o)
    BY InitHolds DEF TInv
  <2>1. QED
    BY DEF Init, OwnThread, Shown
<1>2. IInv /\ IInv' /\ TInv /\ [Next]_vars => TInv'
  <2> SUFFICES ASSUME TInv, [Next]_vars, NEW p \in Objects PROVE OwnThread(p)'
    BY DEF TInv
  <2>0. OwnThread(p)
    BY DEF TInv
  <2>1. ASSUME NEW o \in Objects, HostCalls(o) PROVE OwnThread(p)'
    <3>1. CASE Create(o) \/ CreateBuffers(o) \/ DisposeBuffers(o)
      <4>1. PICK l : life' = [life EXCEPT ![o] = l]
        BY <3>1 DEF Create, CreateBuffers, DisposeBuffers
      <4>2. life[o] # "running" /\ UNCHANGED <<flag, handle, pc, races>>
        BY <3>1 DEF Create, CreateBuffers, DisposeBuffers
      <4>3. QED
        BY <4>1, <4>2, NoThreadYet
    <3>2. CASE Start(o)
      BY <3>2, StartThread
    <3>3. CASE Stop(o) \/ Release(o) \/ FutureReads(o)
      BY <3>3, <2>0, ThreadUntouched DEF Stop, Release, FutureReads
    <3>4. QED
      BY <2>1, <3>1, <3>2, <3>3 DEF HostCalls
  <2>2. CASE CallReturns
    BY <2>2, WaitedThread, FutureThread DEF CallReturns
  <2>3. CASE Wanted
    BY <2>3, <2>0, ThreadUntouched DEF Wanted, WantEnters, WantSignals, objectVars
  <2>4. ASSUME NEW o \in Objects, NEW t \in Threads, AsioThread(o, t) PROVE OwnThread(p)'
    BY <2>4, AsioThreadOwn
  <2>5. CASE UNCHANGED vars
    BY <2>5, <2>0, ThreadUntouched DEF vars, objectVars
  <2>6. QED
    BY <2>1, <2>2, <2>3, <2>4, <2>5 DEF Next
<1>3. QED
  BY <1>1, <1>2, Invariance, PTL DEF Spec

\* An object that no race has touched has one thread at most, and none once
\* stop() has returned or the object is gone.
THEOREM AlwaysOneThread == Spec => []OneThread
<1>1. TInv => OneThread
  <2> SUFFICES ASSUME TInv, NEW o \in Objects, races[o] = {}
               PROVE  /\ Cardinality(Running(o)) <= 1
                      /\ life[o] \in {"loaded", "prepared", "gone"} => Running(o) = {}
    BY DEF OneThread
  <2>1. \A t \in Running(o) : t = handle[o] /\ life[o] = "running"
    BY DEF TInv, OwnThread, Running
  <2>2. CASE Running(o) = {}
    BY <2>2, FS_EmptySet
  <2>3. CASE Running(o) # {}
    <3>1. Running(o) = {handle[o]} /\ life[o] = "running"
      BY <2>1, <2>3
    <3>2. QED
      BY <3>1, FS_Singleton
  <2>4. QED
    BY <2>2, <2>3
<1>2. QED
  BY <1>1, ThreadInvariance, PTL

\* A request the thread has taken is never dropped by _bufferSwitch, unless a
\* race has touched the object.
THEOREM RequestsAreServed == Spec => []NeverDropped
<1>1. TInv => NeverDropped
  BY DEF TInv, OwnThread, NeverDropped, Shown
<1>2. QED
  BY <1>1, ThreadInvariance, PTL

\* The buffers of an object that no race has touched are never freed while the
\* host fills them or the thread sends them.
THEOREM BuffersOutliveTheirUse == Spec => NeverFreedInUse
<1> DEFINE Safe == \A o \in Objects :
                      (buffers[o] /\ ~buffers'[o] /\ races[o] = {})
                         => \A t \in Threads : pc[o][t] \notin {"fill", "send"}
<1>1. TInv /\ [Next]_vars => [Safe]_vars
  <2> SUFFICES ASSUME TInv, Next, NEW o \in Objects, buffers[o], ~buffers'[o], races[o] = {}
               PROVE  \A t \in Threads : pc[o][t] \notin {"fill", "send"}
    OBVIOUS
  <2>1. CASE UNCHANGED buffers
    BY <2>1
  <2>2. ASSUME NEW p \in Objects, CreateBuffers(p) \/ DisposeBuffers(p)
        PROVE  \A t \in Threads : pc[o][t] \notin {"fill", "send"}
    <3>1. buffers \in [Objects -> BOOLEAN] /\ life[p] # "running"
      BY <2>2 DEF TInv, IInv, TypeOK, CreateBuffers, DisposeBuffers
    <3>2. PICK b \in BOOLEAN : buffers' = [buffers EXCEPT ![p] = b]
      BY <2>2 DEF CreateBuffers, DisposeBuffers
    <3>3. p = o
      BY <3>1, <3>2
    <3>4. QED
      BY <3>1, <3>3 DEF TInv, OwnThread
  <2>3. UNCHANGED buffers \/ \E p \in Objects : CreateBuffers(p) \/ DisposeBuffers(p)
    <3>1. ASSUME NEW p \in Objects, HostCalls(p)
          PROVE  UNCHANGED buffers \/ CreateBuffers(p) \/ DisposeBuffers(p)
      BY <3>1 DEF HostCalls, Create, Start, Stop, Release, FutureReads
    <3>2. CallReturns \/ Wanted => UNCHANGED buffers
      BY DEF CallReturns, FutureWrites, Waited, Wanted, WantEnters, WantSignals, objectVars
    <3>3. ASSUME NEW p \in Objects, NEW t \in Threads, AsioThread(p, t) PROVE UNCHANGED buffers
      BY <3>3 DEF AsioThread, Begins, SetsStarted, WakesOnBuf, WakesToEnd, Switches, Filled,
                  Sent, Exits, ClearsStarted, objectVars
    <3>4. QED
      BY <3>1, <3>2, <3>3 DEF Next
  <2>4. QED
    BY <2>1, <2>2, <2>3
<1>2. Safe <=> \A o \in Objects :
                  (buffers[o] /\ ~buffers'[o] /\ races[o] = {})
                     => \A t \in Threads : pc[o][t] \notin {"fill", "send"}
  OBVIOUS
<1>3. QED
  BY <1>1, ThreadInvariance, PTL DEF Spec, NeverFreedInUse
=============================================================================
