-------------------------- MODULE AudioPullProofs ---------------------------
(***************************************************************************)
(* Proofs about AudioPull, and about PullReconnect over connections that   *)
(* break, for every number of device channels, every set of output counts, *)
(* every block numbering and every network capacity.                       *)
(***************************************************************************)
EXTENDS PullReconnect, TLAPS

USE PDChannelsAssumption, OutputCountsAssumption, BlockModAssumption, NetCapAssumption

\* The start-up values of both programs have their types.
LEMMA InitTypeOK == Init => TypeOK
<1> SUFFICES ASSUME Init PROVE TypeOK
  OBVIOUS
<1>1. LinkTypeOK
  BY DEF Init, LinkInit, LinkTypeOK
<1>2. 0 \in Blocks /\ 0 \in Halves
  BY DEF Blocks, Halves
<1>3. DriverTypeOK
  BY <1>2 DEF Init, DriverInit, DriverTypeOK
<1>4. DeviceTypeOK
  <2>1. 0 \in 0 .. PDChannels
    OBVIOUS
  <2> QED
    BY <1>2, <2>1 DEF Init, DeviceInit, DeviceTypeOK
<1> QED
  BY <1>1, <1>3, <1>4 DEF TypeOK

\* No handler or thread step leaves the types.
LEMMA TypeOKStep == TypeOK /\ [Next]_vars => TypeOK'
<1> SUFFICES ASSUME TypeOK, [Next]_vars PROVE TypeOK'
  OBVIOUS
<1> USE DEF TypeOK, LinkTypeOK, DriverTypeOK, DeviceTypeOK, linkVars, hostVars, threadVars, driverVars,
            rxVars, renderVars, deviceVars
<1>1. CASE CreateBuffers /\ UNCHANGED deviceVars
  BY <1>1 DEF CreateBuffers
<1>2. CASE DisposeBuffers /\ UNCHANGED deviceVars
  BY <1>2 DEF DisposeBuffers
<1>3. CASE Start /\ UNCHANGED deviceVars
  BY <1>3 DEF Start
<1>4. CASE Stop /\ UNCHANGED deviceVars
  BY <1>4 DEF Stop
<1>5. CASE StopReturns /\ UNCHANGED deviceVars
  BY <1>5 DEF StopReturns
<1>6. CASE ReceiveWant /\ UNCHANGED deviceVars
  BY <1>6 DEF ReceiveWant
<1>7. CASE ThreadBegin /\ UNCHANGED deviceVars
  BY <1>7 DEF ThreadBegin
<1>8. CASE WakeOnStop /\ UNCHANGED deviceVars
  BY <1>8 DEF WakeOnStop
<1>9. ASSUME NEW h \in Halves, WakeOnBuf(h) /\ UNCHANGED deviceVars PROVE TypeOK'
  BY <1>9 DEF WakeOnBuf
<1>10. CASE BufferSwitch /\ UNCHANGED deviceVars
  BY <1>10 DEF BufferSwitch, FillHalf, Blocks, Halves
<1>11. CASE SendChannel /\ UNCHANGED deviceVars
  <2>1. PCMData(toggle, idx, active, hostBuf[toggle]) \in PCMPackage
    BY DEF PCMData, PCMPackage
  <2> QED
    BY <1>11, <2>1 DEF SendChannel, SendToPD
<1>12. CASE SwitchDone /\ UNCHANGED deviceVars
  BY <1>12 DEF SwitchDone, Halves
<1>13. CASE ThreadExit /\ UNCHANGED deviceVars
  BY <1>13 DEF ThreadExit
<1>14. CASE ReceiveNewInstance /\ UNCHANGED driverVars
  BY <1>14 DEF ReceiveNewInstance
<1>15. CASE DropPackage /\ UNCHANGED driverVars
  BY <1>15 DEF DropPackage
<1>16. CASE ReceivePackage /\ UNCHANGED driverVars
  <2>1. Head(toPD) \in PCMPackage
    BY <1>16 DEF ReceivePackage, Useful, NewInstance
  <2> QED
    BY <1>16, <2>1 DEF ReceivePackage
<1>17. CASE CopyPackage /\ UNCHANGED driverVars
  <2>1. rx \in PCMPackage
    BY <1>17 DEF CopyPackage
  <2>2. rx.half \in Halves /\ rx.block \in Blocks \cup {NoBlock}
    BY <2>1 DEF PCMPackage
  <2>3. buf' = [buf EXCEPT ![rx.half] = [buf[rx.half] EXCEPT ![rx.channel] = rx.block]]
    BY <1>17 DEF CopyPackage
  <2>4. buf' \in [Halves -> [Channels -> Blocks \cup {NoBlock}]]
    BY <2>2, <2>3
  <2> QED
    BY <1>17, <2>1, <2>4 DEF CopyPackage
<1>18. CASE PackageDone /\ UNCHANGED driverVars
  BY <1>18, ZenonT(40) DEF PackageDone
<1>19. ASSUME NEW h \in Halves, WakeOnReady(h) /\ UNCHANGED driverVars PROVE TypeOK'
  BY <1>19 DEF WakeOnReady
<1>20. CASE WakeOnNewInstance /\ UNCHANGED driverVars
  BY <1>20 DEF WakeOnNewInstance
<1>21. CASE RequestFirst /\ UNCHANGED driverVars
  BY <1>21 DEF RequestFirst, SendToAS, Halves
<1>22. CASE RequestNext /\ UNCHANGED driverVars
  BY <1>22 DEF RequestNext, SendToAS, Halves, Other
<1>23. CASE WriteChannel /\ UNCHANGED driverVars
  BY <1>23 DEF WriteChannel, Channels
<1>24. CASE RenderDone /\ UNCHANGED driverVars
  BY <1>24 DEF RenderDone, Halves
<1>25. CASE UNCHANGED vars
  BY <1>25 DEF vars
<1> QED
  BY <1>1, <1>2, <1>3, <1>4, <1>5, <1>6, <1>7, <1>8, <1>9, <1>10, <1>11, <1>12, <1>13,
     <1>14, <1>15, <1>16, <1>17, <1>18, <1>19, <1>20, <1>21, <1>22, <1>23, <1>24, <1>25
  DEF Next, DriverNext, HostStep, AsioThread, DeviceNext, ReceiveThread, RenderThread

\* Every variable keeps its type: the link's, the driver's and the device's.
THEOREM TypeCorrect == Spec => []TypeOK
  BY InitTypeOK, TypeOKStep, PTL DEF Spec

-----------------------------------------------------------------------------
(* The inductive invariant.                                                *)
(*                                                                         *)
(* OneToken alone is not inductive: an answer is several packages, of      *)
(* which only one signals, and the packages before it hold no token.       *)
(* Single says that nothing of an answer follows the package that          *)
(* completes it, Covered what must be under way while packages of an       *)
(* answer are, and Agreed that while a half is being rendered whatever is  *)
(* on its way concerns the other half.                                     *)
(*                                                                         *)
(* OnePull, these three with the bound on the tokens, is kept by every     *)
(* step of AudioPull whatever came before: it is used below from states in *)
(* which a broken connection has cost the token, or has cut an answer that *)
(* a new connection's NEW_INSTANCE now follows.                            *)

Lifecycle ==
    /\ host \in {"loaded", "prepared"} => tpc = "none"
    /\ tpc # "none" => active \in OutputCounts
    /\ host # "loaded" => active \in OutputCounts
    /\ started <=> tpc \in {"wait", "switch", "send", "exit"}
    /\ tpc \in {"begin", "wait"} => idx = 0
    /\ tpc \in {"none", "switch", "exit"} => idx = 0
    /\ rxpc # "recv" => Useful(rx)

\* The package that completes the answer is on the link, or still to be sent.
AnswerOpen == NetHolds \/ (tpc = "send" /\ ThreadHolds)

\* A NEW_INSTANCE package is on its way behind the i-th package.
NewBehind(i) == \E j \in DOMAIN toPD : i < j /\ toPD[j].cmd = "NEW_INSTANCE"

Single ==
    /\ \A i, j \in DOMAIN toPD : Signals(toPD[i]) /\ i < j => ~Useful(toPD[j])
    /\ \A i, j \in DOMAIN toPD :
         toPD[i].cmd = "NEW_INSTANCE" /\ toPD[j].cmd = "NEW_INSTANCE" => i = j

Covered ==
    /\ \A i \in DOMAIN toPD : Useful(toPD[i]) => AnswerOpen \/ TokenCount = 0 \/ NewBehind(i)
    /\ rxpc # "recv" /\ ~Signals(rx) => AnswerOpen \/ TokenCount = 0 \/ NewBehind(0)

Agreed ==
    rpc = "render" =>
        /\ ~evBuf[rhalf]
        /\ ~ready[rhalf]
        /\ \A i \in DOMAIN toAS : toAS[i] # rhalf
        /\ ThreadHolds => toggle # rhalf
        /\ \A i \in DOMAIN toPD : Useful(toPD[i]) => toPD[i].half # rhalf
        /\ rxpc # "recv" => rx.half # rhalf

OnePull == TokenCount <= 1 /\ Single /\ Covered /\ Agreed

IInv == TypeOK /\ Lifecycle /\ OnePull /\ OneToken

-----------------------------------------------------------------------------

\* Where each thread is agrees with the flags and the buffers it needs.
LEMMA LifecycleStep == TypeOK /\ Lifecycle /\ [Next]_vars => Lifecycle'
  <1> SUFFICES ASSUME TypeOK, Lifecycle, [Next]_vars PROVE Lifecycle'
    OBVIOUS
  <1> USE DEF Lifecycle, TypeOK, DriverTypeOK, DeviceTypeOK, linkVars, hostVars, threadVars,
              driverVars, rxVars, renderVars, deviceVars
  <1>1. CASE CreateBuffers /\ UNCHANGED deviceVars
    BY <1>1 DEF CreateBuffers
  <1>2. CASE DisposeBuffers /\ UNCHANGED deviceVars
    BY <1>2 DEF DisposeBuffers
  <1>3. CASE Start /\ UNCHANGED deviceVars
    BY <1>3 DEF Start
  <1>4. CASE Stop /\ UNCHANGED deviceVars
    BY <1>4 DEF Stop
  <1>5. CASE StopReturns /\ UNCHANGED deviceVars
    BY <1>5 DEF StopReturns
  <1>6. CASE ReceiveWant /\ UNCHANGED deviceVars
    BY <1>6 DEF ReceiveWant
  <1>7. CASE ThreadBegin /\ UNCHANGED deviceVars
    BY <1>7 DEF ThreadBegin
  <1>8. CASE WakeOnStop /\ UNCHANGED deviceVars
    BY <1>8 DEF WakeOnStop
  <1>9. ASSUME NEW h \in Halves, WakeOnBuf(h) /\ UNCHANGED deviceVars PROVE Lifecycle'
    BY <1>9 DEF WakeOnBuf
  <1>10. CASE BufferSwitch /\ UNCHANGED deviceVars
    BY <1>10 DEF BufferSwitch, FillHalf
  <1>11. CASE SendChannel /\ UNCHANGED deviceVars
    BY <1>11 DEF SendChannel, SendToPD
  <1>12. CASE SwitchDone /\ UNCHANGED deviceVars
    BY <1>12 DEF SwitchDone
  <1>13. CASE ThreadExit /\ UNCHANGED deviceVars
    BY <1>13 DEF ThreadExit
  <1>14. CASE ReceiveNewInstance /\ UNCHANGED driverVars
    BY <1>14 DEF ReceiveNewInstance
  <1>15. CASE DropPackage /\ UNCHANGED driverVars
    BY <1>15 DEF DropPackage
  <1>16. CASE ReceivePackage /\ UNCHANGED driverVars
    BY <1>16 DEF ReceivePackage
  <1>17. CASE CopyPackage /\ UNCHANGED driverVars
    BY <1>17 DEF CopyPackage
  <1>18. CASE PackageDone /\ UNCHANGED driverVars
    BY <1>18 DEF PackageDone
  <1>19. ASSUME NEW h \in Halves, WakeOnReady(h) /\ UNCHANGED driverVars PROVE Lifecycle'
    BY <1>19 DEF WakeOnReady
  <1>20. CASE WakeOnNewInstance /\ UNCHANGED driverVars
    BY <1>20 DEF WakeOnNewInstance
  <1>21. CASE RequestFirst /\ UNCHANGED driverVars
    BY <1>21 DEF RequestFirst, SendToAS
  <1>22. CASE RequestNext /\ UNCHANGED driverVars
    BY <1>22 DEF RequestNext, SendToAS, Other
  <1>23. CASE WriteChannel /\ UNCHANGED driverVars
    BY <1>23 DEF WriteChannel
  <1>24. CASE RenderDone /\ UNCHANGED driverVars
    BY <1>24 DEF RenderDone
  <1>25. CASE UNCHANGED vars
    BY <1>25 DEF vars
  <1> QED
    BY <1>1, <1>2, <1>3, <1>4, <1>5, <1>6, <1>7, <1>8, <1>9, <1>10, <1>11, <1>12, <1>13, <1>14, <1>15, <1>16, <1>17, <1>18, <1>19, <1>20, <1>21, <1>22, <1>23, <1>24, <1>25
    DEF Next, DriverNext, HostStep, AsioThread, DeviceNext, ReceiveThread, RenderThread

\* Sending a package adds it behind those on the link.
LEMMA PackageSent ==
  ASSUME TypeOK, Lifecycle, SendChannel
  PROVE  LET p == PCMData(toggle, idx, active, hostBuf[toggle]) IN
         /\ Signals(p) <=> ThreadHolds /\ ~ThreadHolds'
         /\ ThreadHolds' => ThreadHolds
         /\ Useful(p) <=> ThreadHolds
         /\ p.half = toggle /\ p.cmd = "PCMDATA"
         /\ Len(toPD') = Len(toPD) + 1
         /\ toPD'[Len(toPD) + 1] = p
         /\ \A i \in 1 .. Len(toPD) : toPD'[i] = toPD[i]
         /\ NetHolds' <=> NetHolds \/ Signals(p)
         /\ NetHoldsNew' <=> NetHoldsNew
<1> DEFINE p == PCMData(toggle, idx, active, hostBuf[toggle])
<1> USE DEF TypeOK, LinkTypeOK, DriverTypeOK
<1>1. /\ p.half = toggle /\ p.channel = idx /\ p.count = active
      /\ p.cmd = "PCMDATA"
  BY DEF PCMData
<1>2. /\ tpc = "send" /\ idx < active /\ idx' = idx + 1 /\ tpc' = "send" /\ active' = active
      /\ toPD' = Append(toPD, p)
  BY DEF SendChannel, SendToPD, hostVars
<1>3. active \in Nat /\ idx \in Nat
  BY OutputCountsAssumption
<1>4. Useful(p) <=> ThreadHolds
  BY <1>1, <1>2, <1>3 DEF Useful, ThreadHolds
<1>5. ThreadHolds' => ThreadHolds
  BY <1>2, <1>3 DEF ThreadHolds
<1>6. Signals(p) <=> ThreadHolds /\ ~ThreadHolds'
  BY <1>1, <1>2, <1>3 DEF Signals, Useful, ThreadHolds
<1>7. /\ Len(toPD') = Len(toPD) + 1
      /\ toPD'[Len(toPD) + 1] = p
      /\ \A i \in 1 .. Len(toPD) : toPD'[i] = toPD[i]
  BY <1>2
<1>8. DOMAIN toPD = 1 .. Len(toPD) /\ DOMAIN toPD' = 1 .. (Len(toPD) + 1) /\ Len(toPD) \in Nat
  BY <1>2
<1>9. NetHolds' <=> NetHolds \/ Signals(p)
  BY <1>7, <1>8 DEF NetHolds
<1>10. NetHoldsNew' <=> NetHoldsNew
  BY <1>7, <1>8, <1>1, SMTT(30) DEF NetHoldsNew
<1> QED
  BY <1>1, <1>4, <1>5, <1>6, <1>7, <1>9, <1>10

\* Receiving a package takes it off the front of the link.
LEMMA PackageTaken ==
  ASSUME LinkTypeOK, toPD # << >>, toPD' = Tail(toPD)
  PROVE  /\ Head(toPD) = toPD[1] /\ 1 \in DOMAIN toPD
         /\ \A i \in DOMAIN toPD' : i + 1 \in DOMAIN toPD /\ toPD'[i] = toPD[i + 1] /\ i \in Nat
         /\ NetHolds <=> Signals(toPD[1]) \/ NetHolds'
         /\ NetHoldsNew <=> toPD[1].cmd = "NEW_INSTANCE" \/ NetHoldsNew'
<1> USE DEF LinkTypeOK
<1>1. /\ Len(toPD) \in Nat \ {0} /\ Len(toPD') = Len(toPD) - 1
      /\ DOMAIN toPD = 1 .. Len(toPD) /\ DOMAIN toPD' = 1 .. (Len(toPD) - 1)
      /\ \A i \in 1 .. (Len(toPD) - 1) : toPD'[i] = toPD[i + 1]
      /\ Head(toPD) = toPD[1]
  OBVIOUS
<1>2. ASSUME NEW i \in DOMAIN toPD, i # 1
      PROVE  i - 1 \in DOMAIN toPD' /\ toPD[i] = toPD'[i - 1]
  BY <1>1, <1>2
<1>3. NetHolds => Signals(toPD[1]) \/ NetHolds'
  <2> SUFFICES ASSUME NEW i \in DOMAIN toPD, Signals(toPD[i]), i # 1 PROVE NetHolds'
    BY DEF NetHolds
  <2> QED
    BY <1>2 DEF NetHolds
<1>4. NetHolds' => NetHolds
  BY <1>1 DEF NetHolds
<1>5. Signals(toPD[1]) => NetHolds
  BY <1>1 DEF NetHolds
<1>6. NetHoldsNew => toPD[1].cmd = "NEW_INSTANCE" \/ NetHoldsNew'
  <2> SUFFICES ASSUME NEW i \in DOMAIN toPD, toPD[i].cmd = "NEW_INSTANCE", i # 1
               PROVE  NetHoldsNew'
    BY DEF NetHoldsNew
  <2> QED
    BY <1>2 DEF NetHoldsNew
<1>7. NetHoldsNew' => NetHoldsNew
  BY <1>1 DEF NetHoldsNew
<1>8. toPD[1].cmd = "NEW_INSTANCE" => NetHoldsNew
  BY <1>1 DEF NetHoldsNew
<1> QED
  BY <1>1, <1>3, <1>4, <1>5, <1>6, <1>7, <1>8

\* Whoever holds the token holds the only one.
LEMMA Alone ==
  ASSUME TypeOK, TokenCount <= 1
  PROVE  /\ RenderHolds => /\ toAS = << >> /\ ~evBuf[0] /\ ~evBuf[1] /\ ~ThreadHolds
                           /\ ~NetHolds /\ ~RxHolds /\ ~ready[0] /\ ~ready[1]
         /\ toAS # << >> => Len(toAS) = 1 /\ ~evBuf[0] /\ ~evBuf[1]
         /\ NetHolds => ~ThreadHolds /\ ~RxHolds
         /\ RxHolds => ~ready[0] /\ ~ready[1] /\ ~ThreadHolds
         /\ NetHoldsNew => ~newInst
         /\ ~(evBuf[0] /\ evBuf[1])
         /\ ~(ready[0] /\ ready[1])
<1>1. Len(toAS) \in Nat /\ (toAS # << >> => Len(toAS) > 0)
  BY DEF TypeOK, LinkTypeOK
<1> QED
  BY <1>1, SMTT(30) DEF TokenCount, B

\* Steps that move no token leave the count as it is.
LEMMA SameCount ==
  ASSUME UNCHANGED <<newInst, toAS, evBuf, ready>>,
         NetHoldsNew' <=> NetHoldsNew, RenderHolds' <=> RenderHolds,
         ThreadHolds' <=> ThreadHolds, NetHolds' <=> NetHolds, RxHolds' <=> RxHolds
  PROVE  TokenCount' = TokenCount
BY DEF TokenCount, B

\* The count is a number, before a step and after it.
LEMMA CountIsNat ==
  ASSUME LinkTypeOK, LinkTypeOK' PROVE TokenCount \in Nat /\ TokenCount' \in Nat
<1>1. Len(toAS) \in Nat /\ Len(toAS') \in Nat
  BY DEF LinkTypeOK
<1> QED
  BY <1>1 DEF TokenCount, B

\* No step of the audio path makes a token, and only a callback without outputs
\* loses one.
LEMMA CountStep ==
  TypeOK /\ Lifecycle /\ OnePull /\ [Next]_vars =>
    \/ TokenCount' = TokenCount
    \/ 0 \in OutputCounts /\ TokenCount' <= TokenCount
<1> SUFFICES ASSUME TypeOK, Lifecycle, OnePull, [Next]_vars
             PROVE  \/ TokenCount' = TokenCount
                    \/ 0 \in OutputCounts /\ TokenCount' <= TokenCount
  OBVIOUS
<1> USE DEF linkVars, hostVars, threadVars, driverVars, rxVars, renderVars, deviceVars
<1>a. TokenCount <= 1
  BY DEF OnePull
<1>c. Len(toAS) \in Nat /\ Halves = {0, 1}
  BY DEF TypeOK, LinkTypeOK, Halves
<1>d. active \in Nat /\ idx \in Nat
  BY OutputCountsAssumption DEF TypeOK, DriverTypeOK
<1> DEFINE Goal == \/ TokenCount' = TokenCount
                   \/ 0 \in OutputCounts /\ TokenCount' <= TokenCount
<1>1. CASE CreateBuffers /\ UNCHANGED deviceVars
  BY <1>1, SameCount DEF CreateBuffers, Lifecycle, NetHoldsNew, RenderHolds, ThreadHolds, NetHolds, RxHolds
<1>2. CASE DisposeBuffers /\ UNCHANGED deviceVars
  BY <1>2, SameCount DEF DisposeBuffers, Lifecycle, NetHoldsNew, RenderHolds, ThreadHolds, NetHolds, RxHolds
<1>3. CASE Start /\ UNCHANGED deviceVars
  BY <1>3, SameCount DEF Start, Lifecycle, NetHoldsNew, RenderHolds, ThreadHolds, NetHolds, RxHolds
<1>4. CASE Stop /\ UNCHANGED deviceVars
  BY <1>4, SameCount DEF Stop, Lifecycle, NetHoldsNew, RenderHolds, ThreadHolds, NetHolds, RxHolds
<1>5. CASE StopReturns /\ UNCHANGED deviceVars
  BY <1>5, SameCount DEF StopReturns, Lifecycle, NetHoldsNew, RenderHolds, ThreadHolds, NetHolds, RxHolds
<1>6. CASE ReceiveWant /\ UNCHANGED deviceVars
  <2>1. UNCHANGED <<NetHoldsNew, newInst, RenderHolds, ThreadHolds, NetHolds, RxHolds, ready>>
    BY <1>6 DEF ReceiveWant, NetHoldsNew, RenderHolds, ThreadHolds, NetHolds, RxHolds
  <2>2. Len(toAS) = 1 /\ ~evBuf[0] /\ ~evBuf[1]
    BY <1>6, <1>a, Alone DEF ReceiveWant
  <2>3. Len(toAS') = 0 /\ Head(toAS) \in {0, 1}
    BY <1>6, <2>2 DEF ReceiveWant, TypeOK, LinkTypeOK, Halves
  <2>4. \/ evBuf'[0] /\ ~evBuf'[1]
        \/ evBuf'[1] /\ ~evBuf'[0]
    BY <1>6, <2>2, <2>3 DEF ReceiveWant, TypeOK, DriverTypeOK, Halves
  <2> QED
    BY <2>1, <2>2, <2>3, <2>4 DEF TokenCount, B
<1>7. CASE ThreadBegin /\ UNCHANGED deviceVars
  BY <1>7, SameCount DEF ThreadBegin, Lifecycle, NetHoldsNew, RenderHolds, ThreadHolds, NetHolds, RxHolds
<1>8. CASE WakeOnStop /\ UNCHANGED deviceVars
  BY <1>8, SameCount DEF WakeOnStop, Lifecycle, NetHoldsNew, RenderHolds, ThreadHolds, NetHolds, RxHolds
<1>9. ASSUME NEW h \in Halves, WakeOnBuf(h) /\ UNCHANGED deviceVars PROVE Goal
  <2>1. UNCHANGED <<NetHoldsNew, newInst, RenderHolds, toAS, NetHolds, RxHolds, ready>>
    BY <1>9 DEF WakeOnBuf, NetHoldsNew, RenderHolds, NetHolds, RxHolds
  <2>2. ~ThreadHolds /\ ThreadHolds'
    BY <1>9 DEF WakeOnBuf, ThreadHolds
  <2>3. \/ evBuf[0] /\ ~evBuf'[0] /\ evBuf'[1] = evBuf[1]
        \/ evBuf[1] /\ ~evBuf'[1] /\ evBuf'[0] = evBuf[0]
    BY <1>9 DEF WakeOnBuf, TypeOK, DriverTypeOK, Halves
  <2> QED
    BY <1>c, <2>1, <2>2, <2>3 DEF TokenCount, B
<1>10. CASE BufferSwitch /\ UNCHANGED deviceVars
  <2>1. UNCHANGED <<NetHoldsNew, newInst, RenderHolds, toAS, evBuf, NetHolds, RxHolds, ready>>
    BY <1>10 DEF BufferSwitch, NetHoldsNew, RenderHolds, NetHolds, RxHolds
  <2>2. started /\ active \in OutputCounts /\ active \in Nat /\ idx = 0
    BY <1>10, OutputCountsAssumption DEF BufferSwitch, Lifecycle
  <2>3. ThreadHolds /\ (active # 0 => ThreadHolds')
    BY <1>10, <2>2, PDChannelsAssumption DEF BufferSwitch, FillHalf, ThreadHolds
  <2> QED
    BY <1>a, <1>c, <2>1, <2>2, <2>3 DEF TokenCount, B
<1>11. CASE SendChannel /\ UNCHANGED deviceVars
  <2>1. UNCHANGED <<newInst, RenderHolds, toAS, evBuf, RxHolds, ready>>
    BY <1>11 DEF SendChannel, RenderHolds, RxHolds
  <2>2. /\ NetHoldsNew' <=> NetHoldsNew
        /\ ThreadHolds' => ThreadHolds
        /\ NetHolds' <=> NetHolds \/ (ThreadHolds /\ ~ThreadHolds')
    BY <1>11, PackageSent
  <2>3. NetHolds => ~ThreadHolds
    BY <1>a, Alone
  <2> QED
    BY <1>c, <2>1, <2>2, <2>3 DEF TokenCount, B
<1>12. CASE SwitchDone /\ UNCHANGED deviceVars
  BY <1>12, <1>d, SameCount DEF SwitchDone, Lifecycle, NetHoldsNew, RenderHolds, ThreadHolds, NetHolds, RxHolds
<1>13. CASE ThreadExit /\ UNCHANGED deviceVars
  BY <1>13, SameCount DEF ThreadExit, Lifecycle, NetHoldsNew, RenderHolds, ThreadHolds, NetHolds, RxHolds
<1>14. CASE ReceiveNewInstance /\ UNCHANGED driverVars
  <2>1. UNCHANGED <<RenderHolds, toAS, evBuf, ThreadHolds, RxHolds, ready>>
    BY <1>14 DEF ReceiveNewInstance, RenderHolds, ThreadHolds, RxHolds
  <2>2. toPD[1].cmd = "NEW_INSTANCE" /\ NetHoldsNew /\ newInst'
    BY <1>14, PackageTaken DEF ReceiveNewInstance, TypeOK
  <2>3. NetHolds' <=> NetHolds
    BY <1>14, <2>2, PackageTaken DEF ReceiveNewInstance, TypeOK, Signals, Useful
  <2>4. ~NetHoldsNew'
    <3> SUFFICES ASSUME NEW i \in DOMAIN toPD', toPD'[i].cmd = "NEW_INSTANCE" PROVE FALSE
      BY DEF NetHoldsNew
    <3>1. i \in Nat /\ i + 1 \in DOMAIN toPD /\ 1 \in DOMAIN toPD /\ toPD[i + 1].cmd = "NEW_INSTANCE"
      BY <1>14, PackageTaken DEF ReceiveNewInstance, TypeOK
    <3>2. i + 1 = 1
      BY <2>2, <3>1 DEF OnePull, Single
    <3>3. i \in 1 .. Len(toPD')
      BY <1>14 DEF ReceiveNewInstance, TypeOK, LinkTypeOK
    <3> QED
      BY <3>1, <3>2, <3>3
  <2>5. ~newInst
    BY <1>a, <2>2, Alone
  <2>6. NetHoldsNew /\ ~newInst /\ ~NetHoldsNew' /\ newInst' = TRUE
    BY <1>14, <2>2, <2>4, <2>5 DEF ReceiveNewInstance
  <2> QED
    <3>1. /\ B(NetHoldsNew) = 1 /\ B(newInst) = 0
          /\ B(NetHoldsNew') = 0 /\ B(newInst') = 1
      BY <2>6 DEF B
    <3>2. B(NetHolds') = B(NetHolds)
      BY <2>3 DEF B
    <3>3. TokenCount' = B(NetHoldsNew') + B(newInst') + B(RenderHolds) + Len(toAS)
            + B(evBuf[0]) + B(evBuf[1]) + B(ThreadHolds)
            + B(NetHolds') + B(RxHolds) + B(ready[0]) + B(ready[1])
      BY <2>1 DEF TokenCount
    <3> QED
      BY <1>c, <3>1, <3>2, <3>3 DEF TokenCount
<1>15. CASE DropPackage /\ UNCHANGED driverVars
  <2>1. /\ NetHolds' <=> NetHolds
        /\ NetHoldsNew' <=> NetHoldsNew
    BY <1>15, PackageTaken DEF DropPackage, TypeOK, Signals
  <2> QED
    BY <1>15, <2>1, SameCount DEF DropPackage, RenderHolds, ThreadHolds, RxHolds
<1>16. CASE ReceivePackage /\ UNCHANGED driverVars
  <2>1. UNCHANGED <<newInst, RenderHolds, toAS, evBuf, ThreadHolds, ready>>
    BY <1>16 DEF ReceivePackage, RenderHolds, ThreadHolds
  <2>2. rx' = toPD[1] /\ Useful(toPD[1]) /\ toPD[1].cmd # "NEW_INSTANCE"
    BY <1>16, PackageTaken DEF ReceivePackage, TypeOK, Useful
  <2>3. NetHoldsNew' <=> NetHoldsNew
    BY <1>16, <2>2, PackageTaken DEF ReceivePackage, TypeOK
  <2>4. ~RxHolds /\ (RxHolds' <=> Signals(toPD[1]))
    BY <1>16, <2>2 DEF ReceivePackage, RxHolds
  <2>5. NetHolds <=> Signals(toPD[1]) \/ NetHolds'
    BY <1>16, PackageTaken DEF ReceivePackage, TypeOK
  <2>6. ~(Signals(toPD[1]) /\ NetHolds')
    <3> SUFFICES ASSUME Signals(toPD[1]), NEW i \in DOMAIN toPD', Signals(toPD'[i]) PROVE FALSE
      BY DEF NetHolds
    <3>1. i \in Nat /\ i + 1 \in DOMAIN toPD /\ 1 \in DOMAIN toPD /\ Signals(toPD[i + 1])
      BY <1>16, PackageTaken DEF ReceivePackage, TypeOK
    <3>2. i \in 1 .. Len(toPD')
      BY <1>16 DEF ReceivePackage, TypeOK, LinkTypeOK
    <3> QED
      BY <3>1, <3>2 DEF OnePull, Single, Signals
  <2> QED
    BY <1>c, <2>1, <2>3, <2>4, <2>5, <2>6 DEF TokenCount, B
<1>17. CASE CopyPackage /\ UNCHANGED driverVars
  BY <1>17, SameCount DEF CopyPackage, Lifecycle, NetHoldsNew, RenderHolds, ThreadHolds, NetHolds, RxHolds
<1>18. CASE PackageDone /\ UNCHANGED driverVars
  <2>1. UNCHANGED <<NetHoldsNew, newInst, RenderHolds, toAS, evBuf, ThreadHolds, NetHolds>>
    BY <1>18 DEF PackageDone, NetHoldsNew, RenderHolds, ThreadHolds, NetHolds
  <2>2. ~RxHolds' /\ (RxHolds <=> Signals(rx))
    BY <1>18 DEF PackageDone, RxHolds
  <2>3. CASE Signals(rx)
    <3>1. ~ready[0] /\ ~ready[1]
      BY <1>a, <2>2, <2>3, Alone
    <3>2. rx.half \in {0, 1}
      BY <1>18 DEF PackageDone, TypeOK, DeviceTypeOK, PCMPackage, Halves
    <3>3. \/ ready'[0] /\ ~ready'[1]
          \/ ready'[1] /\ ~ready'[0]
      BY <1>18, <2>3, <3>1, <3>2 DEF PackageDone, TypeOK, DeviceTypeOK, Halves
    <3> QED
      BY <1>c, <2>1, <2>2, <2>3, <3>1, <3>3 DEF TokenCount, B
  <2>4. CASE ~Signals(rx)
    <3>1. UNCHANGED ready
      BY <1>18, <2>4 DEF PackageDone
    <3> QED
      BY <2>1, <2>2, <2>4, <3>1, SameCount
  <2> QED
    BY <2>3, <2>4
<1>19. ASSUME NEW h \in Halves, WakeOnReady(h) /\ UNCHANGED driverVars PROVE Goal
  <2>1. UNCHANGED <<NetHoldsNew, newInst, toAS, evBuf, ThreadHolds, NetHolds, RxHolds>>
    BY <1>19 DEF WakeOnReady, NetHoldsNew, ThreadHolds, NetHolds, RxHolds
  <2>2. ~RenderHolds /\ RenderHolds'
    BY <1>19 DEF WakeOnReady, RenderHolds
  <2>3. \/ ready[0] /\ ~ready'[0] /\ ready'[1] = ready[1]
        \/ ready[1] /\ ~ready'[1] /\ ready'[0] = ready[0]
    BY <1>19 DEF WakeOnReady, TypeOK, DeviceTypeOK, Halves
  <2> QED
    BY <1>c, <2>1, <2>2, <2>3 DEF TokenCount, B
<1>20. CASE WakeOnNewInstance /\ UNCHANGED driverVars
  <2>1. UNCHANGED <<NetHoldsNew, toAS, evBuf, ThreadHolds, NetHolds, RxHolds, ready>>
    BY <1>20 DEF WakeOnNewInstance, NetHoldsNew, ThreadHolds, NetHolds, RxHolds
  <2>2. newInst /\ ~newInst' /\ ~RenderHolds /\ RenderHolds'
    BY <1>20 DEF WakeOnNewInstance, RenderHolds
  <2> QED
    BY <1>c, <2>1, <2>2 DEF TokenCount, B
<1>21. CASE RequestFirst /\ UNCHANGED driverVars
  <2>1. UNCHANGED <<NetHoldsNew, newInst, evBuf, ThreadHolds, NetHolds, RxHolds, ready>>
    BY <1>21 DEF RequestFirst, NetHoldsNew, ThreadHolds, NetHolds, RxHolds
  <2>2. RenderHolds /\ ~RenderHolds'
    BY <1>21 DEF RequestFirst, RenderHolds
  <2>3. Len(toAS') = Len(toAS) + 1
    BY <1>21 DEF RequestFirst, SendToAS, TypeOK, LinkTypeOK
  <2> QED
    BY <1>c, <2>1, <2>2, <2>3 DEF TokenCount, B
<1>22. CASE RequestNext /\ UNCHANGED driverVars
  <2>1. UNCHANGED <<NetHoldsNew, newInst, evBuf, ThreadHolds, NetHolds, RxHolds, ready>>
    BY <1>22 DEF RequestNext, NetHoldsNew, ThreadHolds, NetHolds, RxHolds
  <2>2. RenderHolds /\ ~RenderHolds'
    BY <1>22 DEF RequestNext, RenderHolds
  <2>3. Len(toAS') = Len(toAS) + 1
    BY <1>22 DEF RequestNext, SendToAS, TypeOK, LinkTypeOK
  <2> QED
    BY <1>c, <2>1, <2>2, <2>3 DEF TokenCount, B
<1>23. CASE WriteChannel /\ UNCHANGED driverVars
  BY <1>23, SameCount DEF WriteChannel, Lifecycle, NetHoldsNew, RenderHolds, ThreadHolds, NetHolds, RxHolds
<1>24. CASE RenderDone /\ UNCHANGED driverVars
  BY <1>24, SameCount DEF RenderDone, Lifecycle, NetHoldsNew, RenderHolds, ThreadHolds, NetHolds, RxHolds
<1>25. CASE UNCHANGED vars
  BY <1>25, SameCount DEF vars, NetHoldsNew, RenderHolds, ThreadHolds, NetHolds, RxHolds
<1> QED
  BY <1>1, <1>2, <1>3, <1>4, <1>5, <1>6, <1>7, <1>8, <1>9, <1>10, <1>11, <1>12, <1>13, <1>14, <1>15, <1>16, <1>17, <1>18, <1>19, <1>20, <1>21, <1>22, <1>23, <1>24, <1>25
  DEF Next, DriverNext, HostStep, AsioThread, DeviceNext, ReceiveThread, RenderThread

\* Steps that leave the link and the receive thread alone keep the order.
LEMMA SameOrder ==
  ASSUME Single, Covered, UNCHANGED <<toPD, rxpc, rx>>,
         AnswerOpen => AnswerOpen', TokenCount = 0 => TokenCount' = 0
  PROVE  Single' /\ Covered'
BY DEF Single, Covered, NewBehind

\* Taking a package that does not close the answer keeps the rest in order.
LEMMA RestOrdered ==
  ASSUME TypeOK, Single, Covered, toPD # << >>, toPD' = Tail(toPD)
  PROVE  /\ Single'
         /\ \A i \in DOMAIN toPD' : Useful(toPD'[i]) =>
              /\ ~Signals(toPD[1])
              /\ \/ AnswerOpen
                 \/ TokenCount = 0
                 \/ \E j \in DOMAIN toPD' : i < j /\ toPD'[j].cmd = "NEW_INSTANCE"
<1>1. \A i \in DOMAIN toPD' : /\ i \in Nat /\ i >= 1 /\ i + 1 \in DOMAIN toPD
                              /\ toPD'[i] = toPD[i + 1]
  BY DEF TypeOK, LinkTypeOK
<1>2. /\ 1 \in DOMAIN toPD
      /\ \A k \in DOMAIN toPD : k \in Nat /\ (k > 1 => k - 1 \in DOMAIN toPD')
  BY DEF TypeOK, LinkTypeOK
<1>3. ASSUME NEW i \in DOMAIN toPD', Useful(toPD'[i])
      PROVE  /\ ~Signals(toPD[1])
             /\ \/ AnswerOpen
                \/ TokenCount = 0
                \/ \E j \in DOMAIN toPD' : i < j /\ toPD'[j].cmd = "NEW_INSTANCE"
  <2>1. i + 1 \in DOMAIN toPD /\ Useful(toPD[i + 1]) /\ 1 < i + 1 /\ i \in Nat
    BY <1>1, <1>3
  <2>2. ~Signals(toPD[1])
    BY <1>2, <2>1 DEF Single
  <2>3. ASSUME NEW k \in DOMAIN toPD, i + 1 < k, toPD[k].cmd = "NEW_INSTANCE"
        PROVE  k - 1 \in DOMAIN toPD' /\ i < k - 1 /\ toPD'[k - 1].cmd = "NEW_INSTANCE"
    <3>1. k - 1 \in DOMAIN toPD' /\ k \in Nat
      BY <1>2, <2>1, <2>3
    <3>2. toPD'[k - 1] = toPD[(k - 1) + 1] /\ (k - 1) + 1 = k
      BY <1>1, <3>1
    <3> QED
      BY <2>1, <2>3, <3>1, <3>2
  <2>4. AnswerOpen \/ TokenCount = 0 \/ NewBehind(i + 1)
    BY <2>1 DEF Covered
  <2> QED
    BY <2>2, <2>3, <2>4 DEF NewBehind
<1>4. ASSUME NEW i \in DOMAIN toPD', NEW j \in DOMAIN toPD', Signals(toPD'[i]), i < j
      PROVE  ~Useful(toPD'[j])
  <2>1. /\ i + 1 \in DOMAIN toPD /\ j + 1 \in DOMAIN toPD /\ i + 1 < j + 1
        /\ Signals(toPD[i + 1]) /\ toPD'[j] = toPD[j + 1]
    BY <1>1, <1>4
  <2> QED
    BY <2>1 DEF Single
<1>5. ASSUME NEW i \in DOMAIN toPD', NEW j \in DOMAIN toPD',
             toPD'[i].cmd = "NEW_INSTANCE", toPD'[j].cmd = "NEW_INSTANCE"
      PROVE  i = j
  <2>1. /\ i + 1 \in DOMAIN toPD /\ j + 1 \in DOMAIN toPD /\ i \in Nat /\ j \in Nat
        /\ toPD[i + 1].cmd = "NEW_INSTANCE" /\ toPD[j + 1].cmd = "NEW_INSTANCE"
    BY <1>1, <1>5
  <2>2. i + 1 = j + 1
    BY <2>1 DEF Single
  <2> QED
    BY <2>1, <2>2
<1>6. Single'
  BY <1>4, <1>5 DEF Single
<1> QED
  BY <1>3, <1>6

\* A NEW_INSTANCE package behind others is still there when the first is taken.
LEMMA NewStaysBehind ==
  ASSUME TypeOK, toPD # << >>, toPD' = Tail(toPD), NewBehind(0),
         toPD[1].cmd # "NEW_INSTANCE"
  PROVE  NewBehind(0)'
<1>1. PICK k \in DOMAIN toPD : toPD[k].cmd = "NEW_INSTANCE" /\ k # 1
  BY DEF NewBehind
<1>2. k - 1 \in DOMAIN toPD' /\ k - 1 > 0 /\ toPD'[k - 1] = toPD[k]
  BY <1>1 DEF TypeOK, LinkTypeOK
<1> QED
  BY <1>1, <1>2 DEF NewBehind

\* The packages before the one that signals always have it behind them, unless
\* a pull before this one has left them on the link.
LEMMA OrderStep ==
  TypeOK /\ Lifecycle /\ OnePull /\ [Next]_vars => Single' /\ Covered'
<1> SUFFICES ASSUME TypeOK, Lifecycle, OnePull, [Next]_vars PROVE Single' /\ Covered'
  OBVIOUS
<1> USE DEF linkVars, hostVars, threadVars, driverVars, rxVars, renderVars, deviceVars
<1>d. active \in Nat /\ idx \in Nat
  BY OutputCountsAssumption DEF TypeOK, DriverTypeOK
<1>t. TokenCount <= 1 /\ Single /\ Covered
  BY DEF OnePull
<1>z. TokenCount = 0 => TokenCount' = 0
  <2>1. LinkTypeOK /\ LinkTypeOK'
    BY TypeOKStep DEF TypeOK
  <2> QED
    BY <2>1, CountIsNat, CountStep
<1>1. CASE CreateBuffers /\ UNCHANGED deviceVars
  BY <1>1, <1>d, <1>t, <1>z, SameOrder DEF CreateBuffers, Lifecycle, AnswerOpen, NetHolds, ThreadHolds
<1>2. CASE DisposeBuffers /\ UNCHANGED deviceVars
  BY <1>2, <1>d, <1>t, <1>z, SameOrder DEF DisposeBuffers, Lifecycle, AnswerOpen, NetHolds, ThreadHolds
<1>3. CASE Start /\ UNCHANGED deviceVars
  BY <1>3, <1>d, <1>t, <1>z, SameOrder DEF Start, Lifecycle, AnswerOpen, NetHolds, ThreadHolds
<1>4. CASE Stop /\ UNCHANGED deviceVars
  BY <1>4, <1>d, <1>t, <1>z, SameOrder DEF Stop, Lifecycle, AnswerOpen, NetHolds, ThreadHolds
<1>5. CASE StopReturns /\ UNCHANGED deviceVars
  BY <1>5, <1>d, <1>t, <1>z, SameOrder DEF StopReturns, Lifecycle, AnswerOpen, NetHolds, ThreadHolds
<1>6. CASE ReceiveWant /\ UNCHANGED deviceVars
  BY <1>6, <1>d, <1>t, <1>z, SameOrder DEF ReceiveWant, Lifecycle, AnswerOpen, NetHolds, ThreadHolds
<1>7. CASE ThreadBegin /\ UNCHANGED deviceVars
  BY <1>7, <1>d, <1>t, <1>z, SameOrder DEF ThreadBegin, Lifecycle, AnswerOpen, NetHolds, ThreadHolds
<1>8. CASE WakeOnStop /\ UNCHANGED deviceVars
  BY <1>8, <1>d, <1>t, <1>z, SameOrder DEF WakeOnStop, Lifecycle, AnswerOpen, NetHolds, ThreadHolds
<1>9. ASSUME NEW h \in Halves, WakeOnBuf(h) /\ UNCHANGED deviceVars PROVE Single' /\ Covered'
  BY <1>9, <1>d, <1>t, <1>z, SameOrder DEF WakeOnBuf, Lifecycle, AnswerOpen, NetHolds, ThreadHolds
<1>10. CASE BufferSwitch /\ UNCHANGED deviceVars
  BY <1>10, <1>d, <1>t, <1>z, SameOrder DEF BufferSwitch, Lifecycle, AnswerOpen, NetHolds, ThreadHolds
<1>11. CASE SendChannel /\ UNCHANGED deviceVars
  <2> DEFINE p == PCMData(toggle, idx, active, hostBuf[toggle])
  <2>1. /\ Signals(p) <=> ThreadHolds /\ ~ThreadHolds'
        /\ Useful(p) <=> ThreadHolds
        /\ p.cmd = "PCMDATA"
        /\ toPD'[Len(toPD) + 1] = p
        /\ \A i \in 1 .. Len(toPD) : toPD'[i] = toPD[i]
        /\ NetHolds' <=> NetHolds \/ Signals(p)
    BY <1>11, PackageSent
  <2>2. /\ DOMAIN toPD = 1 .. Len(toPD) /\ Len(toPD) \in Nat
        /\ DOMAIN toPD' = 1 .. (Len(toPD) + 1)
    BY <1>11 DEF SendChannel, SendToPD, TypeOK, LinkTypeOK
  <2>3. tpc = "send" /\ tpc' = "send" /\ rxpc' = rxpc /\ rx' = rx
    BY <1>11 DEF SendChannel
  <2>4. (AnswerOpen => AnswerOpen') /\ (Useful(p) => AnswerOpen')
    BY <2>1, <2>3 DEF AnswerOpen
  <2>5. ASSUME NEW i \in DOMAIN toPD', Useful(toPD'[i])
        PROVE  AnswerOpen' \/ TokenCount' = 0 \/ NewBehind(i)'
    <3>1. CASE i \in 1 .. Len(toPD)
      <4>1. Useful(toPD[i]) /\ i \in DOMAIN toPD
        BY <2>1, <2>2, <2>5, <3>1
      <4>2. ASSUME NEW j \in DOMAIN toPD, i < j, toPD[j].cmd = "NEW_INSTANCE"
            PROVE  j \in DOMAIN toPD' /\ toPD'[j].cmd = "NEW_INSTANCE"
        BY <2>1, <2>2, <4>2
      <4>3. AnswerOpen \/ TokenCount = 0 \/ NewBehind(i)
        BY <1>t, <4>1 DEF Covered
      <4> QED
        BY <1>z, <2>4, <4>2, <4>3 DEF NewBehind
    <3>2. CASE i = Len(toPD) + 1
      BY <2>1, <2>4, <2>5, <3>2
    <3> QED
      BY <2>2, <3>1, <3>2
  <2>6. rxpc' # "recv" /\ ~Signals(rx') => AnswerOpen' \/ TokenCount' = 0 \/ NewBehind(0)'
    <3>1. ASSUME NEW j \in DOMAIN toPD, toPD[j].cmd = "NEW_INSTANCE"
          PROVE  j \in DOMAIN toPD' /\ toPD'[j].cmd = "NEW_INSTANCE"
      BY <2>1, <2>2, <3>1
    <3>2. NewBehind(0) => NewBehind(0)'
      BY <3>1 DEF NewBehind
    <3> QED
      BY <1>t, <1>z, <2>3, <2>4, <3>2 DEF Covered
  <2>7. ASSUME NEW i \in DOMAIN toPD', NEW j \in DOMAIN toPD', Signals(toPD'[i]), i < j
        PROVE  ~Useful(toPD'[j])
    <3>1. i \in 1 .. Len(toPD) /\ Signals(toPD[i])
      BY <2>1, <2>2, <2>7
    <3>2. CASE j \in 1 .. Len(toPD)
      BY <1>t, <2>1, <2>2, <2>7, <3>1, <3>2 DEF Single
    <3>3. CASE j = Len(toPD) + 1
      <4>1. NetHolds
        BY <2>2, <3>1 DEF NetHolds
      <4> QED
        BY <1>t, <2>1, <3>3, <4>1, Alone
    <3> QED
      BY <2>2, <3>2, <3>3
  <2>8. \A i, j \in DOMAIN toPD' :
          toPD'[i].cmd = "NEW_INSTANCE" /\ toPD'[j].cmd = "NEW_INSTANCE" => i = j
    BY <1>t, <2>1, <2>2 DEF Single
  <2>9. Single'
    BY <2>7, <2>8 DEF Single
  <2>10. Covered'
    BY <2>5, <2>6 DEF Covered
  <2> QED
    BY <2>9, <2>10
<1>12. CASE SwitchDone /\ UNCHANGED deviceVars
  BY <1>12, <1>d, <1>t, <1>z, SameOrder DEF SwitchDone, Lifecycle, AnswerOpen, NetHolds, ThreadHolds
<1>13. CASE ThreadExit /\ UNCHANGED deviceVars
  BY <1>13, <1>d, <1>t, <1>z, SameOrder DEF ThreadExit, Lifecycle, AnswerOpen, NetHolds, ThreadHolds
<1>14. CASE ReceiveNewInstance /\ UNCHANGED driverVars
  <2>1. toPD # << >> /\ toPD' = Tail(toPD)
    BY <1>14 DEF ReceiveNewInstance
  <2>2. 1 \in DOMAIN toPD /\ Head(toPD) = toPD[1] /\ LinkTypeOK
    BY <2>1, PackageTaken DEF TypeOK
  <2>3. AnswerOpen /\ ~Signals(toPD[1]) => AnswerOpen'
    <3>1. NetHolds <=> Signals(toPD[1]) \/ NetHolds'
      BY <2>1, <2>2, PackageTaken
    <3> QED
      BY <1>14, <3>1 DEF AnswerOpen, ThreadHolds, ReceiveNewInstance
  <2>4. rxpc' = "recv"
    BY <1>14 DEF ReceiveNewInstance
  <2>5. Single' /\ \A i \in DOMAIN toPD' : Useful(toPD'[i]) =>
                     AnswerOpen' \/ TokenCount' = 0 \/ NewBehind(i)'
    BY <1>t, <1>z, <2>1, <2>3, RestOrdered DEF NewBehind
  <2> QED
    BY <2>4, <2>5 DEF Covered
<1>15. CASE DropPackage /\ UNCHANGED driverVars
  <2>1. toPD # << >> /\ toPD' = Tail(toPD)
    BY <1>15 DEF DropPackage
  <2>2. 1 \in DOMAIN toPD /\ Head(toPD) = toPD[1] /\ LinkTypeOK
    BY <2>1, PackageTaken DEF TypeOK
  <2>3. AnswerOpen /\ ~Signals(toPD[1]) => AnswerOpen'
    <3>1. NetHolds <=> Signals(toPD[1]) \/ NetHolds'
      BY <2>1, <2>2, PackageTaken
    <3> QED
      BY <1>15, <3>1 DEF AnswerOpen, ThreadHolds, DropPackage
  <2>4. rxpc' = "recv"
    BY <1>15 DEF DropPackage
  <2>5. Single' /\ \A i \in DOMAIN toPD' : Useful(toPD'[i]) =>
                     AnswerOpen' \/ TokenCount' = 0 \/ NewBehind(i)'
    BY <1>t, <1>z, <2>1, <2>3, RestOrdered DEF NewBehind
  <2> QED
    BY <2>4, <2>5 DEF Covered
<1>16. CASE ReceivePackage /\ UNCHANGED driverVars
  <2>1. toPD # << >> /\ toPD' = Tail(toPD)
    BY <1>16 DEF ReceivePackage
  <2>2. 1 \in DOMAIN toPD /\ Head(toPD) = toPD[1] /\ LinkTypeOK
    BY <2>1, PackageTaken DEF TypeOK
  <2>3. AnswerOpen /\ ~Signals(toPD[1]) => AnswerOpen'
    <3>1. NetHolds <=> Signals(toPD[1]) \/ NetHolds'
      BY <2>1, <2>2, PackageTaken
    <3> QED
      BY <1>16, <3>1 DEF AnswerOpen, ThreadHolds, ReceivePackage
  <2>4. rx' = toPD[1] /\ Useful(toPD[1]) /\ toPD[1].cmd # "NEW_INSTANCE"
    BY <1>16, <2>2 DEF ReceivePackage, Useful
  <2>5. Single' /\ \A i \in DOMAIN toPD' : Useful(toPD'[i]) =>
                     AnswerOpen' \/ TokenCount' = 0 \/ NewBehind(i)'
    BY <1>t, <1>z, <2>1, <2>3, RestOrdered DEF NewBehind
  <2>6. NewBehind(1) => NewBehind(0)'
    <3>1. NewBehind(1) => NewBehind(0)
      BY DEF NewBehind, TypeOK, LinkTypeOK
    <3> QED
      BY <2>1, <2>4, <3>1, NewStaysBehind
  <2>7. AnswerOpen \/ TokenCount = 0 \/ NewBehind(1)
    BY <1>t, <2>2, <2>4 DEF Covered
  <2>8. ~Signals(rx') => AnswerOpen' \/ TokenCount' = 0 \/ NewBehind(0)'
    BY <1>z, <2>3, <2>4, <2>6, <2>7
  <2> QED
    BY <2>5, <2>8 DEF Covered
<1>17. CASE CopyPackage /\ UNCHANGED driverVars
  <2>1. (AnswerOpen => AnswerOpen') /\ UNCHANGED <<toPD, rx>> /\ rxpc # "recv"
    BY <1>17 DEF CopyPackage, AnswerOpen, NetHolds, ThreadHolds
  <2> QED
    BY <1>t, <1>z, <2>1 DEF Single, Covered, NewBehind
<1>18. CASE PackageDone /\ UNCHANGED driverVars
  <2>1. (AnswerOpen => AnswerOpen') /\ UNCHANGED toPD /\ rxpc' = "recv"
    BY <1>18 DEF PackageDone, AnswerOpen, NetHolds, ThreadHolds
  <2> QED
    BY <1>t, <1>z, <2>1 DEF Single, Covered, NewBehind
<1>19. ASSUME NEW h \in Halves, WakeOnReady(h) /\ UNCHANGED driverVars PROVE Single' /\ Covered'
  BY <1>19, <1>d, <1>t, <1>z, SameOrder DEF WakeOnReady, Lifecycle, AnswerOpen, NetHolds, ThreadHolds
<1>20. CASE WakeOnNewInstance /\ UNCHANGED driverVars
  BY <1>20, <1>d, <1>t, <1>z, SameOrder DEF WakeOnNewInstance, Lifecycle, AnswerOpen, NetHolds, ThreadHolds
<1>21. CASE RequestFirst /\ UNCHANGED driverVars
  BY <1>21, <1>d, <1>t, <1>z, SameOrder DEF RequestFirst, Lifecycle, AnswerOpen, NetHolds, ThreadHolds
<1>22. CASE RequestNext /\ UNCHANGED driverVars
  BY <1>22, <1>d, <1>t, <1>z, SameOrder DEF RequestNext, Lifecycle, AnswerOpen, NetHolds, ThreadHolds
<1>23. CASE WriteChannel /\ UNCHANGED driverVars
  BY <1>23, <1>d, <1>t, <1>z, SameOrder DEF WriteChannel, Lifecycle, AnswerOpen, NetHolds, ThreadHolds
<1>24. CASE RenderDone /\ UNCHANGED driverVars
  BY <1>24, <1>d, <1>t, <1>z, SameOrder DEF RenderDone, Lifecycle, AnswerOpen, NetHolds, ThreadHolds
<1>25. CASE UNCHANGED vars
  BY <1>25, <1>t, <1>z, SameOrder DEF vars, AnswerOpen, NetHolds, ThreadHolds
<1> QED
  BY <1>1, <1>2, <1>3, <1>4, <1>5, <1>6, <1>7, <1>8, <1>9, <1>10, <1>11, <1>12, <1>13,
     <1>14, <1>15, <1>16, <1>17, <1>18, <1>19, <1>20, <1>21, <1>22, <1>23, <1>24, <1>25
  DEF Next, DriverNext, HostStep, AsioThread, DeviceNext, ReceiveThread, RenderThread

\* Steps of the source that bring no half in keep the agreement.
LEMMA SameAgreement ==
  ASSUME Agreed, UNCHANGED <<rpc, rhalf, ready, evBuf, toAS, toPD, rxpc, rx>>,
         ThreadHolds' => ThreadHolds /\ toggle' = toggle
  PROVE  Agreed'
BY DEF Agreed

\* While the render thread is about to ask, and while the ASIO thread has not
\* called the host yet, nothing of an answer is under way.
LEMMA NothingUnderWay ==
  ASSUME TypeOK, OnePull, RenderHolds \/ tpc = "switch"
  PROVE  (\A i \in DOMAIN toPD : ~Useful(toPD[i])) /\ rxpc = "recv"
<1>0. Len(toAS) \in Nat
  BY DEF TypeOK, LinkTypeOK
<1>1. /\ ~NetHolds /\ ~RxHolds /\ ~NetHoldsNew /\ TokenCount # 0
      /\ ThreadHolds => tpc = "switch"
  <2>1. CASE RenderHolds
    BY <1>0, <2>1 DEF OnePull, TokenCount, B
  <2>2. CASE tpc = "switch"
    BY <1>0, <2>2 DEF OnePull, TokenCount, B, ThreadHolds
  <2> QED
    BY <2>1, <2>2
<1>2. ~AnswerOpen /\ (\A i : ~NewBehind(i))
  BY <1>1 DEF AnswerOpen, NewBehind, NetHoldsNew
<1> QED
  BY <1>1, <1>2 DEF OnePull, Covered, RxHolds

\* Whatever is on its way while a half is rendered concerns the other half.
LEMMA AgreedStep == TypeOK /\ Lifecycle /\ OnePull /\ [Next]_vars => Agreed'
<1> SUFFICES ASSUME TypeOK, Lifecycle, OnePull, [Next]_vars PROVE Agreed'
  OBVIOUS
<1> USE DEF linkVars, hostVars, threadVars, driverVars, rxVars, renderVars, deviceVars
<1>d. active \in Nat /\ idx \in Nat
  BY OutputCountsAssumption DEF TypeOK, DriverTypeOK
<1>t. TokenCount <= 1 /\ Agreed
  BY DEF OnePull
<1>1. CASE CreateBuffers /\ UNCHANGED deviceVars
  BY <1>1, <1>d, <1>t, SameAgreement DEF CreateBuffers, Lifecycle, ThreadHolds
<1>2. CASE DisposeBuffers /\ UNCHANGED deviceVars
  BY <1>2, <1>d, <1>t, SameAgreement DEF DisposeBuffers, Lifecycle, ThreadHolds
<1>3. CASE Start /\ UNCHANGED deviceVars
  BY <1>3, <1>d, <1>t, SameAgreement DEF Start, Lifecycle, ThreadHolds
<1>4. CASE Stop /\ UNCHANGED deviceVars
  BY <1>4, <1>d, <1>t, SameAgreement DEF Stop, Lifecycle, ThreadHolds
<1>5. CASE StopReturns /\ UNCHANGED deviceVars
  BY <1>5, <1>d, <1>t, SameAgreement DEF StopReturns, Lifecycle, ThreadHolds
<1>6. CASE ReceiveWant /\ UNCHANGED deviceVars
  <2>1. ASSUME rpc = "render" PROVE ~evBuf'[rhalf]
    <3>1. 1 \in DOMAIN toAS /\ Head(toAS) = toAS[1] /\ toAS[1] \in Halves
      BY <1>6 DEF ReceiveWant, TypeOK, LinkTypeOK
    <3>2. toAS[1] # rhalf
      BY <2>1, <3>1, <1>t DEF Agreed
    <3> QED
      BY <1>6, <2>1, <3>1, <3>2, <1>t DEF ReceiveWant, Agreed, TypeOK, DriverTypeOK
  <2>2. ASSUME rpc = "render" PROVE \A i \in DOMAIN toAS' : toAS'[i] # rhalf
    <3>1. \A i \in DOMAIN toAS' : i + 1 \in DOMAIN toAS /\ toAS'[i] = toAS[i + 1]
      BY <1>6 DEF ReceiveWant, TypeOK, LinkTypeOK
    <3> QED
      BY <2>2, <3>1, <1>t DEF Agreed
  <2> QED
    BY <1>6, <2>1, <2>2, <1>t DEF ReceiveWant, Agreed, ThreadHolds
<1>7. CASE ThreadBegin /\ UNCHANGED deviceVars
  BY <1>7, <1>d, <1>t, SameAgreement DEF ThreadBegin, Lifecycle, ThreadHolds
<1>8. CASE WakeOnStop /\ UNCHANGED deviceVars
  BY <1>8, <1>d, <1>t, SameAgreement DEF WakeOnStop, Lifecycle, ThreadHolds
<1>9. ASSUME NEW h \in Halves, WakeOnBuf(h) /\ UNCHANGED deviceVars PROVE Agreed'
  <2>1. rpc = "render" => h # rhalf
    BY <1>9, <1>t DEF WakeOnBuf, Agreed
  <2>2. \A g \in Halves : evBuf'[g] => evBuf[g]
    BY <1>9 DEF WakeOnBuf, TypeOK, DriverTypeOK
  <2>3. rhalf \in Halves
    BY DEF TypeOK, DeviceTypeOK
  <2> QED
    BY <1>9, <2>1, <2>2, <2>3, <1>t DEF WakeOnBuf, Agreed
<1>10. CASE BufferSwitch /\ UNCHANGED deviceVars
  <2>1. started /\ toggle' = toggle
    BY <1>10 DEF BufferSwitch, FillHalf, Lifecycle
  <2> QED
    BY <1>10, <2>1, <1>t, SameAgreement DEF BufferSwitch, ThreadHolds
<1>11. CASE SendChannel /\ UNCHANGED deviceVars
  <2> DEFINE p == PCMData(toggle, idx, active, hostBuf[toggle])
  <2>1. /\ ThreadHolds' => ThreadHolds
        /\ Useful(p) <=> ThreadHolds
        /\ p.half = toggle
        /\ toPD'[Len(toPD) + 1] = p
        /\ \A i \in 1 .. Len(toPD) : toPD'[i] = toPD[i]
    BY <1>11, PackageSent
  <2>2. /\ DOMAIN toPD = 1 .. Len(toPD) /\ Len(toPD) \in Nat
        /\ DOMAIN toPD' = 1 .. (Len(toPD) + 1)
    BY <1>11 DEF SendChannel, SendToPD, TypeOK, LinkTypeOK
  <2>3. UNCHANGED <<rpc, rhalf, ready, evBuf, toAS, rxpc, rx, toggle>>
    BY <1>11 DEF SendChannel
  <2>4. ASSUME rpc = "render", NEW i \in DOMAIN toPD', Useful(toPD'[i])
        PROVE  toPD'[i].half # rhalf
    <3>1. CASE i \in 1 .. Len(toPD)
      BY <2>1, <2>2, <2>4, <3>1, <1>t DEF Agreed
    <3>2. CASE i = Len(toPD) + 1
      BY <2>1, <2>4, <3>2, <1>t DEF Agreed
    <3> QED
      BY <2>2, <3>1, <3>2
  <2> QED
    BY <2>1, <2>3, <2>4, <1>t DEF Agreed
<1>12. CASE SwitchDone /\ UNCHANGED deviceVars
  BY <1>12, <1>d, <1>t, SameAgreement DEF SwitchDone, Lifecycle, ThreadHolds
<1>13. CASE ThreadExit /\ UNCHANGED deviceVars
  BY <1>13, <1>d, <1>t, SameAgreement DEF ThreadExit, Lifecycle, ThreadHolds
<1>14. CASE ReceiveNewInstance /\ UNCHANGED driverVars
  <2>1. /\ 1 \in DOMAIN toPD /\ Head(toPD) = toPD[1]
        /\ \A i \in DOMAIN toPD' : i + 1 \in DOMAIN toPD /\ toPD'[i] = toPD[i + 1]
    BY <1>14, PackageTaken DEF ReceiveNewInstance, TypeOK
  <2> QED
    BY <1>14, <2>1, <1>t DEF ReceiveNewInstance, Agreed, ThreadHolds
<1>15. CASE DropPackage /\ UNCHANGED driverVars
  <2>1. /\ 1 \in DOMAIN toPD /\ Head(toPD) = toPD[1]
        /\ \A i \in DOMAIN toPD' : i + 1 \in DOMAIN toPD /\ toPD'[i] = toPD[i + 1]
    BY <1>15, PackageTaken DEF DropPackage, TypeOK
  <2> QED
    BY <1>15, <2>1, <1>t DEF DropPackage, Agreed, ThreadHolds
<1>16. CASE ReceivePackage /\ UNCHANGED driverVars
  <2>1. /\ 1 \in DOMAIN toPD /\ Head(toPD) = toPD[1]
        /\ \A i \in DOMAIN toPD' : i + 1 \in DOMAIN toPD /\ toPD'[i] = toPD[i + 1]
    BY <1>16, PackageTaken DEF ReceivePackage, TypeOK
  <2> QED
    BY <1>16, <2>1, <1>t DEF ReceivePackage, Agreed, ThreadHolds
<1>17. CASE CopyPackage /\ UNCHANGED driverVars
  BY <1>17, <1>t DEF CopyPackage, Agreed, ThreadHolds
<1>18. CASE PackageDone /\ UNCHANGED driverVars
  <2>1. ASSUME rpc = "render" PROVE ~ready'[rhalf]
    BY <1>18, <2>1, <1>t DEF PackageDone, Agreed, TypeOK, DeviceTypeOK
  <2> QED
    BY <1>18, <2>1, <1>t DEF PackageDone, Agreed, ThreadHolds
<1>19. ASSUME NEW h \in Halves, WakeOnReady(h) /\ UNCHANGED driverVars PROVE Agreed'
  BY <1>19, <1>t DEF WakeOnReady, Agreed
<1>20. CASE WakeOnNewInstance /\ UNCHANGED driverVars
  BY <1>20, <1>t DEF WakeOnNewInstance, Agreed
<1>21. CASE RequestFirst /\ UNCHANGED driverVars
  BY <1>21, <1>t DEF RequestFirst, Agreed
<1>22. CASE RequestNext /\ UNCHANGED driverVars
  <2>1. /\ ~evBuf[0] /\ ~evBuf[1] /\ ~ready[0] /\ ~ready[1] /\ toAS = << >>
        /\ ~ThreadHolds /\ ~NetHolds /\ ~RxHolds
    BY <1>22, <1>t, Alone DEF RequestNext, RenderHolds
  <2>3. (\A i \in DOMAIN toPD : ~Useful(toPD[i])) /\ rxpc = "recv"
    BY <1>22, NothingUnderWay DEF RequestNext, RenderHolds
  <2>4. rhalf \in {0, 1} /\ rhalf' = rhalf
    BY <1>22 DEF RequestNext, TypeOK, DeviceTypeOK, Halves
  <2>5. ~evBuf[rhalf] /\ ~ready[rhalf]
    BY <2>1, <2>4
  <2>6. \A i \in DOMAIN toAS' : toAS'[i] # rhalf
    <3>1. toAS' = <<1 - rhalf>>
      BY <1>22, <2>1 DEF RequestNext, SendToAS, Other
    <3>2. 1 - rhalf # rhalf
      BY <2>4
    <3> QED
      BY <3>1, <3>2
  <2>7. ~ThreadHolds'
    BY <1>22, <2>1 DEF RequestNext, ThreadHolds
  <2> QED
    BY <1>22, <2>3, <2>4, <2>5, <2>6, <2>7, <1>t DEF RequestNext, Agreed
<1>23. CASE WriteChannel /\ UNCHANGED driverVars
  BY <1>23, <1>t DEF WriteChannel, Agreed, ThreadHolds
<1>24. CASE RenderDone /\ UNCHANGED driverVars
  BY <1>24, <1>t DEF RenderDone, Agreed
<1>25. CASE UNCHANGED vars
  BY <1>25, <1>t, SameAgreement DEF vars, Lifecycle, ThreadHolds
<1> QED
  BY <1>1, <1>2, <1>3, <1>4, <1>5, <1>6, <1>7, <1>8, <1>9, <1>10, <1>11, <1>12, <1>13, <1>14, <1>15, <1>16, <1>17, <1>18, <1>19, <1>20, <1>21, <1>22, <1>23, <1>24, <1>25
  DEF Next, DriverNext, HostStep, AsioThread, DeviceNext, ReceiveThread, RenderThread

-----------------------------------------------------------------------------

\* The strengthening holds at start-up: the token is the NEW_INSTANCE package.
LEMMA IInvInit == Init => IInv
<1> SUFFICES ASSUME Init PROVE IInv
  OBVIOUS
<1> USE DEF Init, LinkInit, DriverInit, DeviceInit
<1>1. TypeOK
  BY InitTypeOK
<1>2. Lifecycle
  BY DEF Lifecycle
<1>3. DOMAIN toPD = {1} /\ toPD[1] = NewInstance /\ NewInstance.cmd = "NEW_INSTANCE" /\ Len(toAS) = 0
  BY DEF NewInstance
<1>4. ~Useful(toPD[1]) /\ ~Signals(toPD[1])
  BY <1>3 DEF Useful, Signals
<1>5. OneToken
  <2>1. NetHoldsNew /\ ~NetHolds /\ ~newInst /\ ~RenderHolds /\ ~ThreadHolds /\ ~RxHolds
    BY <1>3, <1>4 DEF NetHoldsNew, NetHolds, RenderHolds, ThreadHolds, RxHolds
  <2>2. ~evBuf[0] /\ ~evBuf[1] /\ ~ready[0] /\ ~ready[1]
    BY DEF Halves
  <2> QED
    BY <1>3, <2>1, <2>2 DEF OneToken, TokenCount, B
<1>6. Single /\ Covered
  BY <1>3, <1>4 DEF Single, Covered
<1>7. Agreed
  BY DEF Agreed
<1> QED
  BY <1>1, <1>2, <1>5, <1>6, <1>7 DEF IInv, OnePull, OneToken

\* No step of the audio path starts a second pull, whatever came before.
LEMMA OnePullStep == TypeOK /\ Lifecycle /\ OnePull /\ [Next]_vars => OnePull'
<1> SUFFICES ASSUME TypeOK, Lifecycle, OnePull, [Next]_vars PROVE OnePull'
  OBVIOUS
<1>1. TokenCount' <= 1
  <2>1. LinkTypeOK /\ LinkTypeOK'
    BY TypeOKStep DEF TypeOK
  <2> QED
    BY <2>1, CountIsNat, CountStep DEF OnePull
<1> QED
  BY <1>1, OrderStep, AgreedStep DEF OnePull

\* The strengthening is kept by every step.
LEMMA StepKeepsIInv == IInv /\ [Next]_vars => IInv'
<1> SUFFICES ASSUME IInv, [Next]_vars PROVE IInv'
  OBVIOUS
<1>1. TypeOK' /\ Lifecycle' /\ OnePull'
  BY TypeOKStep, LifecycleStep, OnePullStep DEF IInv
<1>2. OneToken'
  BY <1>1, CountStep DEF IInv, OnePull, OneToken
<1> QED
  BY <1>1, <1>2 DEF IInv

\* The inductive invariant holds of every behaviour.
THEOREM Invariance == Spec => []IInv
  BY IInvInit, StepKeepsIInv, PTL DEF Spec

\* One request or answer exists at a time, and it is not lost as long as every
\* createBuffers call asks for an output.
THEOREM OneTokenAlways == Spec => []OneToken
<1>1. IInv => OneToken
  BY DEF IInv
<1> QED
  BY <1>1, Invariance, PTL

\* The receive thread never writes the half the render thread is rendering.
THEOREM NeverTorn == Spec => []NoTornRender
<1>1. IInv => NoTornRender
  BY DEF IInv, OnePull, Agreed, NoTornRender
<1> QED
  BY <1>1, Invariance, PTL
-----------------------------------------------------------------------------
(* Connections that break.                                                 *)
(*                                                                         *)
(* A connection that breaks may cost the pull its token and cut an answer  *)
(* anywhere, and still only a NEW_INSTANCE that is sent while a pull is    *)
(* alive makes a second one.  The invariant is OnePull, up to the first    *)
(* such NEW_INSTANCE; the steps of the audio path keep it by the lemmas    *)
(* above, so what remains are the steps of the connection.                 *)
(*                                                                         *)
(* A part that a decoder keeps is a token in waiting, which the next       *)
(* package revives.  PartHeld says that no other token can be there by     *)
(* then: a part of an answer lets nothing in but itself, and a part of a   *)
(* request is met by the first request of the new pull.                    *)

\* The pull that the last NEW_INSTANCE starts has not asked for anything yet.
NewPull == NetHoldsNew \/ newInst \/ rpc = "new"

PartHeld ==
    /\ Useful(heldPD) =>
         /\ TokenCount = 0 \/ (tpc = "send" /\ ThreadHolds)
         /\ Signals(heldPD) => TokenCount = 0
         /\ rpc = "render" => heldPD.half # rhalf
    /\ heldAS \notin {NoPackage, Stuck} =>
         /\ TokenCount = 0 \/ NewPull
         /\ ~Signals(heldPD)

HeldTypeOK ==
    /\ heldPD \in PCMPackage \cup {NoPackage, Stuck}
    /\ heldAS \in {WantData(h) : h \in Halves} \cup {NoPackage, Stuck}

\* What holds of every state, doubled or not, and what one pull adds.
RInv ==
    /\ TypeOK
    /\ Lifecycle
    /\ HeldTypeOK
    /\ doubled \in BOOLEAN
    /\ ~doubled => OnePull /\ PartHeld

\* No package, and a header without its rest, are nothing the device handles.
LEMMA NothingUseful ==
  /\ ~Useful(NoPackage) /\ ~Useful(Stuck) /\ ~Useful(NewInstance)
  /\ ~Signals(NoPackage) /\ ~Signals(Stuck) /\ ~Signals(NewInstance)
  /\ NewInstance.cmd = "NEW_INSTANCE" /\ NewInstance \notin PCMPackage
  /\ NoPackage \notin PCMPackage /\ Stuck \notin PCMPackage
  BY DEF Useful, Signals, NoPackage, Stuck, NewInstance, PCMPackage

\* At start-up the pull of AudioPull is the only one.
LEMMA RInvInit == ReconnectInit => RInv
  BY IInvInit, NothingUseful DEF ReconnectInit, RInv, IInv, PartHeld, HeldTypeOK

\* The steps of the connection leave no type and no thread out of place, however
\* many pulls there are.
LEMMA LinkStepTypes ==
  ASSUME TypeOK, Lifecycle, HeldTypeOK, SendLost \/ RequestLost \/ Break \/ Announce
  PROVE  TypeOK' /\ Lifecycle' /\ HeldTypeOK'
<1> USE DEF TypeOK, LinkTypeOK, DriverTypeOK, DeviceTypeOK, Lifecycle, hostVars, driverVars,
            rxVars, deviceVars, linkVars
<1>0. /\ NewInstance \in PCMPackage \cup {NewInstance}
      /\ \A p : Rest(p) \subseteq {NoPackage, Stuck}
  BY DEF Rest
<1>1. ASSUME NEW p, LostToPD(p)
      PROVE  /\ toPD' \in Seq(PCMPackage \cup {NewInstance})
             /\ heldPD' \in PCMPackage \cup {NoPackage, Stuck}
  <2>1. CASE UNCHANGED <<toPD, heldPD>>
    BY <2>1 DEF HeldTypeOK
  <2>2. CASE /\ heldPD \notin {NoPackage, Stuck}
             /\ heldPD' \in Rest(p)
             /\ UNCHANGED toPD \/ SendToPD(heldPD)
    <3>1. heldPD' \in PCMPackage \cup {NoPackage, Stuck}
      BY <1>0, <2>2
    <3>2. heldPD \in PCMPackage \cup {NewInstance}
      BY <2>2 DEF HeldTypeOK
    <3>3. CASE UNCHANGED toPD
      BY <3>1, <3>3
    <3>4. CASE toPD' = Append(toPD, heldPD)
      BY <3>1, <3>2, <3>4
    <3> QED
      BY <2>2, <3>3, <3>4 DEF SendToPD
  <2> QED
    BY <1>1, <2>1, <2>2 DEF LostToPD
<1>2. CASE SendLost
  <2>1. /\ toPD' \in Seq(PCMPackage \cup {NewInstance})
        /\ heldPD' \in PCMPackage \cup {NoPackage, Stuck}
    BY <1>1, <1>2 DEF SendLost
  <2> QED
    BY <1>2, <2>1, OutputCountsAssumption DEF SendLost, HeldTypeOK
<1>3. CASE RequestLost
  <2>1. toAS' \in Seq(Halves) /\ heldAS' \in {WantData(h) : h \in Halves} \cup {NoPackage, Stuck}
    <3>1. CASE UNCHANGED <<toAS, heldAS>>
      BY <3>1 DEF HeldTypeOK
    <3>2. CASE heldAS \notin {NoPackage, Stuck} /\ heldAS' = NoPackage /\ SendToAS(heldAS.half)
      <4>1. heldAS.half \in Halves
        BY <3>2 DEF HeldTypeOK, WantData
      <4> QED
        BY <3>2, <4>1 DEF SendToAS
    <3> QED
      BY <1>3, <3>1, <3>2 DEF RequestLost, LostToAS
  <2> QED
    BY <1>3, <2>1 DEF RequestLost, HeldTypeOK
<1>4. CASE Break
  <2>1. /\ toPD' \in Seq(PCMPackage \cup {NewInstance})
        /\ heldPD' \in PCMPackage \cup {NoPackage, Stuck}
    <3>1. CASE heldPD = NoPackage
      <4>1. PICK n \in 0 .. Len(toPD) :
              /\ toPD' = SubSeq(toPD, 1, n)
              /\ heldPD' \in {NoPackage} \cup (IF n < Len(toPD) THEN Cut(toPD[n + 1]) ELSE {})
        BY <1>4, <3>1 DEF Break
      <4>2. toPD' \in Seq(PCMPackage \cup {NewInstance})
        BY <4>1
      <4>3. n < Len(toPD) => toPD[n + 1] \in PCMPackage \cup {NewInstance}
        BY <4>1
      <4> QED
        BY <4>1, <4>2, <4>3 DEF Cut
    <3>2. CASE heldPD # NoPackage
      BY <1>4, <3>2 DEF Break, HeldTypeOK
    <3> QED
      BY <3>1, <3>2
  <2>2. heldAS' \in {WantData(h) : h \in Halves} \cup {NoPackage, Stuck}
    <3>1. toAS # << >> => Head(toAS) \in Halves
      OBVIOUS
    <3>2. toAS # << >> => Cut(WantData(Head(toAS))) \subseteq {WantData(h) : h \in Halves} \cup {Stuck}
      BY <3>1 DEF Cut
    <3> QED
      BY <1>4, <3>2 DEF Break, HeldTypeOK
  <2> QED
    BY <1>4, <2>1, <2>2 DEF Break, HeldTypeOK
<1>5. CASE Announce
  <2>1. /\ toPD' \in Seq(PCMPackage \cup {NewInstance})
        /\ heldPD' \in PCMPackage \cup {NoPackage, Stuck}
    <3>1. CASE SendToPD(NewInstance) /\ UNCHANGED heldPD
      BY <1>0, <3>1 DEF SendToPD, HeldTypeOK
    <3>2. CASE LostToPD(NewInstance)
      BY <1>1, <3>2
    <3> QED
      BY <1>5, <3>1, <3>2 DEF Announce
  <2> QED
    BY <1>5, <2>1 DEF Announce, HeldTypeOK
<1> QED
  BY <1>2, <1>3, <1>4, <1>5

-----------------------------------------------------------------------------
(* Fewer tokens. *)

\* What a connection that breaks leaves on the link to the device, and the
\* tokens that it takes.
LEMMA BreakLeaves ==
  ASSUME TypeOK, Lifecycle, HeldTypeOK, Break
  PROVE  /\ \E n \in 0 .. Len(toPD) :
              /\ DOMAIN toPD' = 1 .. n
              /\ \A i \in 1 .. n : toPD'[i] = toPD[i] /\ i \in DOMAIN toPD
              /\ \/ heldPD' = heldPD /\ (Useful(heldPD) => UNCHANGED toPD)
                 \/ n + 1 \in DOMAIN toPD /\ heldPD' \in {Stuck, toPD[n + 1]}
         /\ UNCHANGED <<RenderHolds, ThreadHolds, RxHolds>>
         /\ NetHolds' => NetHolds
         /\ NetHoldsNew' => NetHoldsNew
         /\ Len(toAS) \in Nat /\ (toAS # << >> => Len(toAS) > 0)
         /\ TokenCount \in Nat /\ TokenCount' \in Nat /\ TokenCount' + Len(toAS) <= TokenCount
         /\ TokenCount' = TokenCount =>
              (NetHolds' <=> NetHolds) /\ (NetHoldsNew' <=> NetHoldsNew)
<1> USE DEF driverVars, deviceVars
<1>1. PICK n \in 0 .. Len(toPD) :
        /\ DOMAIN toPD' = 1 .. n
        /\ \A i \in 1 .. n : toPD'[i] = toPD[i] /\ i \in DOMAIN toPD
        /\ \/ heldPD' = heldPD /\ (Useful(heldPD) => UNCHANGED toPD)
           \/ n + 1 \in DOMAIN toPD /\ heldPD' \in {Stuck, toPD[n + 1]}
  <2>0. DOMAIN toPD = 1 .. Len(toPD) /\ Len(toPD) \in Nat
    BY DEF TypeOK, LinkTypeOK
  <2>1. CASE heldPD = NoPackage
    <3>1. PICK n \in 0 .. Len(toPD) :
            /\ toPD' = SubSeq(toPD, 1, n)
            /\ heldPD' \in {NoPackage} \cup (IF n < Len(toPD) THEN Cut(toPD[n + 1]) ELSE {})
      BY <2>1 DEF Break
    <3>2. /\ DOMAIN toPD' = 1 .. n
          /\ \A i \in 1 .. n : toPD'[i] = toPD[i] /\ i \in DOMAIN toPD
      BY <2>0, <3>1 DEF TypeOK, LinkTypeOK
    <3>3. heldPD' = heldPD \/ (n + 1 \in DOMAIN toPD /\ heldPD' \in {Stuck, toPD[n + 1]})
      BY <2>0, <2>1, <3>1 DEF Cut
    <3> QED
      BY <2>1, <3>2, <3>3, NothingUseful
  <2>2. CASE heldPD # NoPackage
    <3>1. UNCHANGED <<toPD, heldPD>>
      BY <2>2 DEF Break
    <3>2. /\ Len(toPD) \in 0 .. Len(toPD)
          /\ DOMAIN toPD' = 1 .. Len(toPD)
          /\ \A i \in 1 .. Len(toPD) : toPD'[i] = toPD[i] /\ i \in DOMAIN toPD
      BY <2>0, <3>1
    <3> QED
      BY <3>1, <3>2
  <2> QED
    BY <2>1, <2>2
<1>2. LinkTypeOK /\ LinkTypeOK'
  BY LinkStepTypes DEF TypeOK
<1>3. UNCHANGED <<driverVars, deviceVars>> /\ toAS' = << >>
  BY DEF Break
<1>4. UNCHANGED <<RenderHolds, ThreadHolds, RxHolds>>
  BY <1>3 DEF RenderHolds, ThreadHolds, RxHolds
<1>5. NetHolds' => NetHolds
  BY <1>1 DEF NetHolds
<1>6. NetHoldsNew' => NetHoldsNew
  BY <1>1 DEF NetHoldsNew
<1>7. TokenCount \in Nat /\ TokenCount' \in Nat
  BY <1>2, CountIsNat
<1>8. Len(toAS) \in Nat /\ Len(toAS') = 0 /\ (toAS # << >> => Len(toAS) > 0)
  BY <1>2, <1>3 DEF LinkTypeOK
<1>9. /\ TokenCount' + Len(toAS) <= TokenCount
      /\ TokenCount' = TokenCount =>
           (NetHolds' <=> NetHolds) /\ (NetHoldsNew' <=> NetHoldsNew)
  BY <1>3, <1>4, <1>5, <1>6, <1>8 DEF TokenCount, B
<1> QED
  BY <1>1, <1>4, <1>5, <1>6, <1>7, <1>8, <1>9

\* A connection that breaks makes no token, and a cut answer whose last package
\* is lost has lost the token with it.
LEMMA BreakStep ==
  ASSUME TypeOK, Lifecycle, HeldTypeOK, OnePull, Break
  PROVE  OnePull'
<1> USE DEF driverVars, deviceVars
<1>0. PICK n \in 0 .. Len(toPD) :
        /\ DOMAIN toPD' = 1 .. n
        /\ \A i \in 1 .. n : toPD'[i] = toPD[i] /\ i \in DOMAIN toPD
  BY BreakLeaves
<1>1. /\ n \in Nat /\ Len(toPD) \in Nat /\ n <= Len(toPD)
      /\ DOMAIN toPD = 1 .. Len(toPD) /\ DOMAIN toPD' = 1 .. n
      /\ \A i \in 1 .. n : toPD'[i] = toPD[i] /\ i \in DOMAIN toPD
  BY <1>0 DEF TypeOK, LinkTypeOK
<1>3. UNCHANGED <<driverVars, deviceVars>> /\ toAS' = << >>
  BY DEF Break
<1>4. UNCHANGED <<RenderHolds, ThreadHolds, RxHolds>>
  BY BreakLeaves
<1>5. /\ TokenCount \in Nat /\ TokenCount' \in Nat /\ TokenCount' <= TokenCount
      /\ TokenCount' = TokenCount =>
           (NetHolds' <=> NetHolds) /\ (NetHoldsNew' <=> NetHoldsNew)
  BY BreakLeaves
<1>6. Single'
  BY <1>1 DEF OnePull, Single
<1>7. TokenCount <= 1
  BY DEF OnePull
<1>8. Agreed'
  BY <1>1, <1>3 DEF OnePull, Agreed, ThreadHolds
<1>9. CASE TokenCount' = 0
  BY <1>6, <1>8, <1>9 DEF OnePull, Covered
<1>10. CASE TokenCount' # 0
  <2>1. TokenCount' = TokenCount /\ TokenCount # 0
    BY <1>5, <1>7, <1>10
  <2>2. AnswerOpen' <=> AnswerOpen
    BY <1>3, <1>4, <1>5, <2>1 DEF AnswerOpen
  <2>3. ASSUME NEW i \in Nat, NewBehind(i), i = 0 \/ i \in DOMAIN toPD' PROVE NewBehind(i)'
    <3>1. NetHoldsNew
      BY <2>3 DEF NewBehind, NetHoldsNew
    <3>2. PICK k \in DOMAIN toPD' : toPD'[k].cmd = "NEW_INSTANCE"
      BY <1>5, <2>1, <3>1 DEF NetHoldsNew
    <3>3. PICK j \in DOMAIN toPD : i < j /\ toPD[j].cmd = "NEW_INSTANCE"
      BY <2>3 DEF NewBehind
    <3>4. k = j
      BY <1>1, <3>2, <3>3 DEF OnePull, Single
    <3> QED
      BY <3>2, <3>3, <3>4 DEF NewBehind
  <2>4. ASSUME NEW i \in DOMAIN toPD', Useful(toPD'[i])
        PROVE  AnswerOpen' \/ TokenCount' = 0 \/ NewBehind(i)'
    <3>1. i \in Nat /\ i \in DOMAIN toPD /\ Useful(toPD[i])
      BY <1>1, <2>4
    <3>2. AnswerOpen \/ NewBehind(i)
      BY <2>1, <3>1 DEF OnePull, Covered
    <3> QED
      BY <2>2, <2>3, <3>1, <3>2
  <2>5. rxpc' # "recv" /\ ~Signals(rx') => AnswerOpen' \/ TokenCount' = 0 \/ NewBehind(0)'
    BY <1>3, <2>1, <2>2, <2>3 DEF OnePull, Covered
  <2>6. Covered'
    BY <2>4, <2>5 DEF Covered
  <2> QED
    BY <1>5, <1>6, <1>7, <1>8, <2>6 DEF OnePull
<1> QED
  BY <1>5, <1>7, <1>9, <1>10

\* A package that is cut takes the token with it, unless it is one of an answer
\* the ASIO thread is still sending; a request that is cut does.
LEMMA BreakCuts ==
  ASSUME TypeOK, Lifecycle, HeldTypeOK, OnePull, PartHeld, Break
  PROVE  PartHeld'
<1> USE DEF driverVars, deviceVars
<1>0. PICK n \in 0 .. Len(toPD) :
        /\ DOMAIN toPD' = 1 .. n
        /\ \A i \in 1 .. n : toPD'[i] = toPD[i] /\ i \in DOMAIN toPD
        /\ \/ heldPD' = heldPD /\ (Useful(heldPD) => UNCHANGED toPD)
           \/ n + 1 \in DOMAIN toPD /\ heldPD' \in {Stuck, toPD[n + 1]}
  BY BreakLeaves
<1>1. /\ UNCHANGED <<RenderHolds, ThreadHolds>>
      /\ Len(toAS) \in Nat /\ (toAS # << >> => Len(toAS) > 0)
      /\ TokenCount \in Nat /\ TokenCount' \in Nat /\ TokenCount' + Len(toAS) <= TokenCount
      /\ TokenCount' = TokenCount =>
           (NetHolds' <=> NetHolds) /\ (NetHoldsNew' <=> NetHoldsNew)
  BY BreakLeaves
<1>2. TokenCount <= 1 /\ (TokenCount' = 0 \/ (TokenCount' = TokenCount /\ toAS = << >>))
  BY <1>1 DEF OnePull
<1>3. UNCHANGED <<driverVars, deviceVars>>
  BY DEF Break
<1>4. ASSUME n + 1 \in DOMAIN toPD, Useful(toPD[n + 1])
      PROVE  /\ TokenCount' = 0 \/ (tpc = "send" /\ ThreadHolds)
             /\ Signals(toPD[n + 1]) => TokenCount' = 0
             /\ rpc = "render" => toPD[n + 1].half # rhalf
  <2>1. ~NetHolds'
    BY <1>0, <1>4 DEF NetHolds, OnePull, Single
  <2>2. NetHolds => TokenCount' = 0
    BY <1>1, <1>2, <2>1
  <2>3. NewBehind(n + 1) => TokenCount' = 0
    <3> SUFFICES ASSUME NEW j \in DOMAIN toPD, n + 1 < j, toPD[j].cmd = "NEW_INSTANCE"
                 PROVE  TokenCount' = 0
      BY DEF NewBehind
    <3>1. ~NetHoldsNew'
      <4> SUFFICES ASSUME NEW i \in 1 .. n, toPD[i].cmd = "NEW_INSTANCE" PROVE FALSE
        BY <1>0 DEF NetHoldsNew
      <4>1. i = j
        BY <1>0 DEF OnePull, Single
      <4> QED
        BY <4>1
    <3>2. NetHoldsNew
      BY DEF NetHoldsNew
    <3> QED
      BY <1>1, <1>2, <3>1, <3>2
  <2>4. AnswerOpen \/ TokenCount = 0 \/ NewBehind(n + 1)
    BY <1>4 DEF OnePull, Covered
  <2>5. TokenCount' = 0 \/ (tpc = "send" /\ ThreadHolds)
    BY <1>2, <2>2, <2>3, <2>4 DEF AnswerOpen
  <2>6. Signals(toPD[n + 1]) => TokenCount' = 0
    BY <1>4, <2>2 DEF NetHolds
  <2>7. rpc = "render" => toPD[n + 1].half # rhalf
    BY <1>4 DEF OnePull, Agreed
  <2> QED
    BY <2>5, <2>6, <2>7
<1>5. ASSUME Useful(heldPD')
      PROVE  /\ TokenCount' = 0 \/ (tpc' = "send" /\ ThreadHolds')
             /\ Signals(heldPD') => TokenCount' = 0
             /\ rpc' = "render" => heldPD'.half # rhalf'
  <2>1. CASE heldPD' = heldPD
    BY <1>1, <1>2, <1>3, <1>5, <2>1 DEF PartHeld
  <2>2. CASE n + 1 \in DOMAIN toPD /\ heldPD' = toPD[n + 1]
    BY <1>1, <1>3, <1>4, <1>5, <2>2
  <2> QED
    BY <1>0, <1>5, <2>1, <2>2, NothingUseful
<1>6. Signals(heldPD') => Signals(heldPD) \/ NetHolds
  BY <1>0, NothingUseful DEF NetHolds
<1>7. ASSUME heldAS' \notin {NoPackage, Stuck}
      PROVE  /\ TokenCount' = 0 \/ NewPull'
             /\ ~Signals(heldPD')
  <2>1. CASE heldAS' = heldAS
    <3>1. (TokenCount = 0 \/ NewPull) /\ ~Signals(heldPD)
      BY <1>7, <2>1 DEF PartHeld
    <3>2. NewPull => TokenCount' = 0 \/ NewPull'
      BY <1>1, <1>2, <1>3 DEF NewPull
    <3>3. NewPull => ~NetHolds
      BY <1>1, <1>2 DEF NewPull, TokenCount, B, RenderHolds
    <3>4. TokenCount = 0 => ~NetHolds
      BY <1>1 DEF TokenCount, B
    <3> QED
      BY <1>2, <1>6, <3>1, <3>2, <3>3, <3>4
  <2>2. CASE toAS # << >>
    <3>1. TokenCount' = 0
      BY <1>2, <2>2
    <3>2. TokenCount # 0
      BY <1>1, <2>2
    <3>3. ~NetHolds
      BY <1>1, <1>2, <2>2 DEF TokenCount, B
    <3>4. ~Signals(heldPD)
      BY <3>2 DEF PartHeld, Signals
    <3> QED
      BY <1>6, <3>1, <3>3, <3>4
  <2> QED
    BY <2>1, <2>2 DEF Break
<1> QED
  BY <1>5, <1>7 DEF PartHeld

\* A package that is sent and not put on the link takes the token with it when it
\* was the one that completes the answer.
LEMMA NothingSent ==
  ASSUME TypeOK, TypeOK', OnePull, PartHeld, tpc = "send", tpc' = "send", idx' = idx + 1,
         UNCHANGED <<active, toggle, evBuf, deviceVars, linkVars, heldAS>>,
         heldPD' \in {heldPD, NoPackage, Stuck}
  PROVE  OnePull' /\ PartHeld'
<1> USE DEF deviceVars, linkVars
<1>1. active \in Nat /\ idx \in Nat
  BY OutputCountsAssumption DEF TypeOK, DriverTypeOK
<1>3. UNCHANGED <<NetHolds, NetHoldsNew, RxHolds, RenderHolds, newInst, toAS, evBuf, ready>>
  BY DEF NetHolds, NetHoldsNew, RxHolds, RenderHolds
<1>4. ThreadHolds' => ThreadHolds
  BY <1>1, PDChannelsAssumption DEF ThreadHolds
<1>5. TokenCount \in Nat /\ TokenCount' \in Nat
  BY CountIsNat DEF TypeOK
<1>6. /\ TokenCount' <= TokenCount
      /\ TokenCount' = TokenCount => (ThreadHolds' <=> ThreadHolds)
  <2>1. Len(toAS) \in Nat
    BY DEF TypeOK, LinkTypeOK
  <2> QED
    BY <1>3, <1>4, <2>1 DEF TokenCount, B
<1>7. Single' /\ Agreed'
  BY <1>4 DEF OnePull, Single, Agreed
<1>8. TokenCount' = 0 \/ (TokenCount' = TokenCount /\ TokenCount # 0)
  BY <1>5, <1>6 DEF OnePull
<1>9. Covered'
  <2>1. TokenCount' = TokenCount => (AnswerOpen' <=> AnswerOpen)
    BY <1>3, <1>6 DEF AnswerOpen
  <2> QED
    BY <1>8, <2>1 DEF OnePull, Covered, NewBehind
<1>10. TokenCount' <= 1
  BY <1>5, <1>6 DEF OnePull
<1>11. Useful(heldPD') \/ Signals(heldPD') => heldPD' = heldPD
  BY NothingUseful
<1>12. NewPull => NewPull'
  BY <1>3 DEF NewPull
<1>13. PartHeld'
  BY <1>6, <1>8, <1>11, <1>12 DEF PartHeld
<1> QED
  BY <1>7, <1>9, <1>10, <1>13 DEF OnePull

-----------------------------------------------------------------------------
(* Parts that are completed. *)

\* The package that the device finds in place of the one that was sent is behind
\* all others, and its token, if it has one, is the only one.
LEMMA PartComes ==
  ASSUME TypeOK, TypeOK', OnePull, PartHeld, heldPD \in PCMPackage,
         toPD' = Append(toPD, heldPD), heldPD' \in {NoPackage, Stuck},
         UNCHANGED <<deviceVars, evBuf, toggle, tpc, toAS, heldAS>>,
         ThreadHolds' => ThreadHolds
  PROVE  OnePull' /\ PartHeld'
<1> USE DEF deviceVars
<1>1. /\ DOMAIN toPD = 1 .. Len(toPD) /\ Len(toPD) \in Nat
      /\ DOMAIN toPD' = 1 .. (Len(toPD) + 1)
      /\ toPD'[Len(toPD) + 1] = heldPD
      /\ \A i \in 1 .. Len(toPD) : toPD'[i] = toPD[i]
  BY DEF TypeOK, LinkTypeOK
<1>2. heldPD.cmd = "PCMDATA"
  BY DEF PCMPackage
<1>3. NetHolds' <=> NetHolds \/ Signals(heldPD)
  BY <1>1 DEF NetHolds
<1>4. NetHoldsNew' <=> NetHoldsNew
  BY <1>1, <1>2 DEF NetHoldsNew
<1>5. UNCHANGED <<RenderHolds, RxHolds>>
  BY DEF RenderHolds, RxHolds
<1>6. TokenCount \in Nat /\ TokenCount' \in Nat /\ Len(toAS) \in Nat
  BY CountIsNat DEF TypeOK, LinkTypeOK
<1>7. Signals(heldPD) => Useful(heldPD) /\ TokenCount = 0
  BY DEF PartHeld, Signals
<1>8. Useful(heldPD) =>
        /\ ~NetHolds
        /\ TokenCount = 0 \/ (tpc = "send" /\ ThreadHolds)
  BY <1>6 DEF PartHeld, OnePull, TokenCount, B
<1>9. /\ TokenCount' <= 1
      /\ ~Signals(heldPD) => /\ TokenCount' <= TokenCount
                             /\ TokenCount' = TokenCount => (ThreadHolds' <=> ThreadHolds)
  <2>1. CASE Signals(heldPD)
    <3>1. ~ThreadHolds /\ ~NetHolds
      BY <1>6, <1>7, <2>1 DEF TokenCount, B
    <3>2. TokenCount' = 1
      BY <1>3, <1>4, <1>5, <1>6, <1>7, <2>1, <3>1 DEF TokenCount, B
    <3> QED
      BY <2>1, <3>2
  <2>2. CASE ~Signals(heldPD)
    <3>1. /\ TokenCount' <= TokenCount
          /\ TokenCount' = TokenCount => (ThreadHolds' <=> ThreadHolds)
      BY <1>3, <1>4, <1>5, <1>6, <2>2 DEF TokenCount, B
    <3> QED
      BY <1>6, <2>2, <3>1 DEF OnePull
  <2> QED
    BY <2>1, <2>2
<1>10. Single'
  <2>1. ASSUME NEW i \in DOMAIN toPD', NEW j \in DOMAIN toPD', Signals(toPD'[i]), i < j
        PROVE  ~Useful(toPD'[j])
    <3>1. i \in DOMAIN toPD /\ Signals(toPD[i])
      BY <1>1, <2>1
    <3>2. NetHolds
      BY <3>1 DEF NetHolds
    <3>3. CASE j \in DOMAIN toPD
      BY <1>1, <2>1, <3>1, <3>3 DEF OnePull, Single
    <3>4. CASE j = Len(toPD) + 1
      BY <1>1, <1>8, <3>2, <3>4
    <3> QED
      BY <1>1, <3>3, <3>4
  <2>2. ASSUME NEW i \in DOMAIN toPD', NEW j \in DOMAIN toPD',
               toPD'[i].cmd = "NEW_INSTANCE", toPD'[j].cmd = "NEW_INSTANCE"
        PROVE  i = j
    <3>1. i \in DOMAIN toPD /\ j \in DOMAIN toPD /\ toPD'[i] = toPD[i] /\ toPD'[j] = toPD[j]
      BY <1>1, <1>2, <2>2
    <3> QED
      BY <2>2, <3>1 DEF OnePull, Single
  <2> QED
    BY <2>1, <2>2 DEF Single
<1>11. Covered'
  <2>1. CASE Signals(heldPD)
    <3>1. AnswerOpen'
      BY <1>3, <2>1 DEF AnswerOpen
    <3> QED
      BY <3>1 DEF Covered
  <2>2. CASE TokenCount' = 0
    BY <2>2 DEF Covered
  <2>3. CASE ~Signals(heldPD) /\ TokenCount' # 0
    <3>1. TokenCount' = TokenCount /\ TokenCount # 0 /\ (ThreadHolds' <=> ThreadHolds)
      BY <1>6, <1>9, <2>3 DEF OnePull
    <3>2. AnswerOpen' <=> AnswerOpen
      BY <1>3, <2>3, <3>1 DEF AnswerOpen
    <3>3. \A i \in 0 .. Len(toPD) : NewBehind(i) => NewBehind(i)'
      BY <1>1 DEF NewBehind
    <3>4. ASSUME NEW i \in DOMAIN toPD', Useful(toPD'[i])
          PROVE  AnswerOpen' \/ NewBehind(i)'
      <4>1. CASE i \in DOMAIN toPD
        BY <1>1, <3>1, <3>2, <3>3, <3>4, <4>1 DEF OnePull, Covered
      <4>2. CASE i = Len(toPD) + 1
        BY <1>1, <1>8, <3>1, <3>2, <3>4, <4>2 DEF AnswerOpen
      <4> QED
        BY <1>1, <4>1, <4>2
    <3>5. rxpc' # "recv" /\ ~Signals(rx') => AnswerOpen' \/ NewBehind(0)'
      BY <1>1, <3>1, <3>2, <3>3 DEF OnePull, Covered
    <3> QED
      BY <3>4, <3>5 DEF Covered
  <2> QED
    BY <2>1, <2>2, <2>3
<1>12. Agreed'
  <2>1. ASSUME rpc = "render", NEW i \in DOMAIN toPD', Useful(toPD'[i])
        PROVE  toPD'[i].half # rhalf
    <3>1. CASE i \in DOMAIN toPD
      BY <1>1, <2>1, <3>1 DEF OnePull, Agreed
    <3>2. CASE i = Len(toPD) + 1
      BY <1>1, <2>1, <3>2 DEF PartHeld
    <3> QED
      BY <1>1, <3>1, <3>2
  <2> QED
    BY <2>1 DEF OnePull, Agreed
<1>13. PartHeld'
  <2>1. ~Useful(heldPD') /\ ~Signals(heldPD')
    BY NothingUseful
  <2>2. NewPull => NewPull'
    BY <1>4 DEF NewPull
  <2>3. TokenCount = 0 /\ ~Signals(heldPD) => TokenCount' = 0
    BY <1>6, <1>9
  <2> QED
    BY <2>1, <2>2, <2>3 DEF PartHeld
<1> QED
  BY <1>9, <1>10, <1>11, <1>12, <1>13 DEF OnePull

\* What the source sends for an answer and the device does not get.
LEMMA SendLostStep ==
  ASSUME TypeOK, Lifecycle, HeldTypeOK, OnePull, PartHeld, SendLost
  PROVE  OnePull' /\ PartHeld'
<1> USE DEF hostVars, linkVars
<1> DEFINE q == PCMData(toggle, idx, active, hostBuf[toggle])
<1>1. TypeOK' /\ active \in Nat /\ idx \in Nat
  BY LinkStepTypes, OutputCountsAssumption DEF TypeOK, DriverTypeOK
<1>2. /\ tpc = "send" /\ tpc' = "send" /\ idx' = idx + 1 /\ LostToPD(q)
      /\ UNCHANGED <<active, toggle, evBuf, deviceVars, toAS, heldAS>>
  BY DEF SendLost
<1>3. Rest(q) \subseteq {NoPackage, Stuck}
  BY DEF Rest
<1> HIDE DEF q
<1>4. CASE UNCHANGED toPD /\ heldPD' \in {heldPD, NoPackage, Stuck}
  BY <1>1, <1>2, <1>4, NothingSent
<1>5. CASE /\ heldPD \notin {NoPackage, Stuck}
           /\ heldPD' \in {NoPackage, Stuck}
           /\ SendToPD(heldPD)
  <2>1. heldPD \in PCMPackage
    BY <1>5 DEF HeldTypeOK
  <2>2. ThreadHolds' => ThreadHolds
    BY <1>1, <1>2, PDChannelsAssumption DEF ThreadHolds
  <2> QED
    BY <1>1, <1>2, <1>5, <2>1, <2>2, PartComes DEF SendToPD
<1> QED
  BY <1>2, <1>3, <1>4, <1>5 DEF LostToPD

\* A request that is lost leaves the half that is rendered next as one for which
\* nothing is under way; one that completes the part of another is the first of
\* its pull, after which nothing is rendered.
LEMMA RequestLostStep ==
  ASSUME TypeOK, Lifecycle, HeldTypeOK, OnePull, PartHeld, RequestLost
  PROVE  OnePull' /\ PartHeld'
<1> USE DEF rxVars, driverVars, linkVars
<1>1. TypeOK' /\ Len(toAS) \in Nat
  BY LinkStepTypes DEF TypeOK, LinkTypeOK
<1>2. /\ UNCHANGED <<NetHolds, NetHoldsNew, RxHolds, ThreadHolds, newInst, evBuf, ready, toPD, heldPD>>
      /\ RenderHolds /\ ~RenderHolds'
  BY DEF RequestLost, NetHolds, NetHoldsNew, RxHolds, RenderHolds, ThreadHolds
<1>3. /\ ~evBuf[0] /\ ~evBuf[1] /\ ~ready[0] /\ ~ready[1] /\ toAS = << >>
      /\ ~ThreadHolds
  BY <1>2, Alone DEF OnePull
<1>4. (\A i \in DOMAIN toPD : ~Useful(toPD[i])) /\ rxpc = "recv" /\ rxpc' = "recv"
  BY <1>2, NothingUnderWay DEF RequestLost
<1>5. /\ TokenCount \in Nat /\ TokenCount' \in Nat /\ TokenCount = 1
      /\ TokenCount' = Len(toAS') /\ ~NetHoldsNew /\ ~newInst
  <2>1. TokenCount \in Nat /\ TokenCount' \in Nat
    BY <1>1, CountIsNat DEF TypeOK
  <2>2. Len(toAS') \in Nat
    BY <1>1 DEF TypeOK, LinkTypeOK
  <2>3. TokenCount' = TokenCount - 1 + Len(toAS')
    BY <1>2, <1>3, <2>2 DEF TokenCount, B
  <2>4. TokenCount = 1 /\ ~NetHoldsNew /\ ~newInst
    BY <1>1, <1>2, <2>1 DEF OnePull, TokenCount, B
  <2> QED
    BY <2>1, <2>2, <2>3, <2>4
<1>6. ~Useful(heldPD') /\ ~Signals(heldPD')
  BY <1>2, <1>3, <1>5 DEF PartHeld, Signals
<1>7. Single' /\ Covered'
  BY <1>2, <1>4 DEF OnePull, Single, Covered
<1>8. CASE UNCHANGED <<toAS, heldAS>>
  <2>1. TokenCount' = 0
    BY <1>3, <1>5, <1>8
  <2>2. Agreed'
    <3>1. rhalf \in {0, 1} /\ rhalf' = rhalf
      BY DEF RequestLost, TypeOK, DeviceTypeOK, Halves
    <3>2. ~evBuf[rhalf] /\ ~ready[rhalf] /\ DOMAIN toAS = {}
      BY <1>3, <3>1
    <3> QED
      BY <1>2, <1>3, <1>4, <1>8, <3>1, <3>2 DEF Agreed
  <2>3. PartHeld'
    BY <1>6, <2>1 DEF PartHeld
  <2> QED
    BY <1>7, <2>1, <2>2, <2>3 DEF OnePull
<1>9. CASE heldAS \notin {NoPackage, Stuck} /\ heldAS' = NoPackage /\ SendToAS(heldAS.half)
  <2>1. TokenCount' = 1
    BY <1>3, <1>5, <1>9 DEF SendToAS
  <2>2. rpc' = "wait"
    BY <1>5, <1>9 DEF RequestLost, PartHeld, NewPull
  <2>3. Agreed'
    BY <2>2 DEF Agreed
  <2>4. PartHeld'
    BY <1>6, <1>9 DEF PartHeld
  <2> QED
    BY <1>7, <2>1, <2>3, <2>4 DEF OnePull
<1> QED
  BY <1>8, <1>9 DEF RequestLost, LostToAS

-----------------------------------------------------------------------------
(* One more token. *)

\* NEW_INSTANCE, sent when no pull is alive, starts one, behind whatever the
\* last pull has left on the link; or a part of an answer takes its place.
LEMMA AnnounceStep ==
  ASSUME TypeOK, Lifecycle, HeldTypeOK, OnePull, PartHeld, Announce, ~doubled'
  PROVE  OnePull' /\ PartHeld'
<1> USE DEF driverVars, deviceVars
<1>1. TokenCount = 0 /\ UNCHANGED <<driverVars, deviceVars, toAS, heldAS>>
  BY DEF Announce
<1>2. TypeOK' /\ UNCHANGED <<RenderHolds, RxHolds, ThreadHolds>>
  BY <1>1, LinkStepTypes DEF RenderHolds, RxHolds, ThreadHolds
<1>3. CASE heldPD = NoPackage
  <2>1. toPD' = Append(toPD, NewInstance) /\ heldPD' = NoPackage
    BY <1>3 DEF Announce, SendToPD
  <2>2. /\ DOMAIN toPD = 1 .. Len(toPD) /\ Len(toPD) \in Nat
        /\ DOMAIN toPD' = 1 .. (Len(toPD) + 1)
        /\ toPD'[Len(toPD) + 1] = NewInstance
        /\ \A i \in 1 .. Len(toPD) : toPD'[i] = toPD[i]
    BY <2>1 DEF TypeOK, LinkTypeOK
  <2>3. NewInstance.cmd = "NEW_INSTANCE" /\ ~Useful(NewInstance) /\ ~Signals(NewInstance)
    BY NothingUseful
  <2>4. Len(toAS) \in Nat
    BY DEF TypeOK, LinkTypeOK
  <2>5. ~NetHolds /\ ~NetHoldsNew
    BY <1>1, <2>4 DEF TokenCount, B
  <2>6. ~NetHolds' /\ NetHoldsNew'
    BY <2>2, <2>3, <2>5 DEF NetHolds, NetHoldsNew
  <2>7. TokenCount' <= 1
    BY <1>1, <1>2, <2>4, <2>5, <2>6 DEF TokenCount, B
  <2>8. Single'
    BY <2>2, <2>3, <2>5 DEF NetHolds, NetHoldsNew, Single
  <2>9. Covered'
    <3>1. ASSUME NEW i \in Nat, i <= Len(toPD) PROVE NewBehind(i)'
      BY <2>2, <2>3, <3>1 DEF NewBehind
    <3>2. \A i \in DOMAIN toPD' : Useful(toPD'[i]) => i \in Nat /\ i <= Len(toPD)
      BY <2>2, <2>3
    <3> QED
      BY <2>2, <3>1, <3>2 DEF Covered
  <2>10. Agreed'
    BY <1>1, <1>2, <2>2, <2>3 DEF OnePull, Agreed
  <2>11. PartHeld'
    BY <2>1, <2>6, NothingUseful DEF PartHeld, NewPull
  <2> QED
    BY <2>7, <2>8, <2>9, <2>10, <2>11 DEF OnePull
<1>4. CASE UNCHANGED toPD /\ heldPD' \in {heldPD, NoPackage, Stuck}
  <2>1. UNCHANGED vars
    BY <1>1, <1>4 DEF vars, linkVars
  <2>2. OnePull'
    BY <2>1, OnePullStep
  <2>3. TokenCount' = 0
    BY <1>1, <1>2, <1>4 DEF TokenCount, NetHolds, NetHoldsNew
  <2>4. Useful(heldPD') \/ Signals(heldPD') => heldPD' = heldPD
    BY <1>4, NothingUseful
  <2>5. PartHeld'
    BY <1>1, <2>3, <2>4 DEF PartHeld
  <2> QED
    BY <2>2, <2>5
<1>5. CASE /\ heldPD \notin {NoPackage, Stuck}
           /\ heldPD' \in {NoPackage, Stuck}
           /\ SendToPD(heldPD)
  <2>1. heldPD \in PCMPackage
    BY <1>5 DEF HeldTypeOK
  <2> QED
    BY <1>1, <1>2, <1>5, <2>1, PartComes DEF SendToPD, threadVars
<1> QED
  <2>1. Rest(NewInstance) \subseteq {NoPackage, Stuck}
    BY DEF Rest
  <2> QED
    BY <1>3, <1>4, <1>5, <2>1 DEF Announce, LostToPD

-----------------------------------------------------------------------------
(* The steps of the audio path, while a decoder keeps a part. *)

\* The device handles whole packages only, and nothing is sent behind the part.
LEMMA PartStays ==
  ASSUME TypeOK, Lifecycle, OnePull, PartHeld, Plays(Next)
  PROVE  PartHeld'
<1> USE DEF linkVars, hostVars, threadVars, driverVars, rxVars, renderVars, deviceVars
<1>1. [Next]_vars /\ UNCHANGED <<heldPD, heldAS>>
  BY DEF Plays, linkStateVars
<1>2. TokenCount = 0 => TokenCount' = 0
  <2>1. LinkTypeOK /\ LinkTypeOK'
    BY <1>1, TypeOKStep DEF TypeOK
  <2> QED
    BY <1>1, <2>1, CountIsNat, CountStep
<1>3. Len(toAS) \in Nat /\ Len(toPD) \in Nat /\ active \in Nat /\ idx \in Nat
  BY OutputCountsAssumption DEF TypeOK, LinkTypeOK, DriverTypeOK
<1>4. ASSUME heldPD # NoPackage, tpc = "send", ThreadHolds
      PROVE  tpc' = "send" /\ ThreadHolds'
  <2>1. UNCHANGED <<tpc, idx, active>>
    <3>1. CASE DriverNext /\ UNCHANGED deviceVars
      <4>1. CASE HostStep
        BY <1>4, <4>1 DEF HostStep, CreateBuffers, DisposeBuffers, Start, Stop, StopReturns, Lifecycle
      <4>2. CASE ReceiveWant
        BY <4>2 DEF ReceiveWant
      <4>3. CASE AsioThread
        <5>1. SendChannel \/ SwitchDone
          BY <1>4, <4>3 DEF AsioThread, ThreadBegin, WakeOnStop, WakeOnBuf, BufferSwitch, ThreadExit
        <5>2. ~SendChannel
          BY <1>3, <1>4 DEF Plays, SendChannel, SendToPD, TypeOK, LinkTypeOK
        <5>3. ~SwitchDone
          BY <1>3, <1>4 DEF SwitchDone, ThreadHolds
        <5> QED
          BY <5>1, <5>2, <5>3
      <4> QED
        BY <3>1, <4>1, <4>2, <4>3 DEF DriverNext
    <3>2. CASE DeviceNext /\ UNCHANGED driverVars
      BY <3>2
    <3> QED
      BY <3>1, <3>2 DEF Plays, Next
  <2> QED
    BY <1>4, <2>1 DEF ThreadHolds
<1>5. ASSUME Useful(heldPD), rpc' = "render"
      PROVE  rpc = "render" /\ rhalf' = rhalf
  <2>1. ~RenderHolds
    BY <1>3, <1>5 DEF PartHeld, OnePull, TokenCount, B
  <2>2. CASE UNCHANGED <<rpc, rhalf>>
    BY <1>5, <2>2
  <2>3. CASE RenderThread
    BY <1>5, <2>1, <2>3 DEF RenderHolds, RenderThread, WakeOnReady, WakeOnNewInstance,
         RequestFirst, RequestNext, WriteChannel, RenderDone
  <2>4. CASE ReceiveThread
    BY <1>5, <2>4 DEF ReceiveThread, ReceiveNewInstance, DropPackage, ReceivePackage,
         CopyPackage, PackageDone
  <2> QED
    BY <2>2, <2>3, <2>4 DEF Plays, Next, DeviceNext
<1>6. ASSUME heldAS # NoPackage, NewPull
      PROVE  NewPull'
  <2>1. CASE newInst \/ rpc = "new"
    <3>1. CASE DriverNext /\ UNCHANGED deviceVars
      BY <2>1, <3>1 DEF NewPull
    <3>2. CASE ReceiveThread
      BY <2>1, <3>2 DEF NewPull, ReceiveThread, ReceiveNewInstance, DropPackage, ReceivePackage,
           CopyPackage, PackageDone
    <3>3. CASE RenderThread
      <4>1. ~RequestFirst
        BY <1>3, <1>6 DEF Plays, RequestFirst, SendToAS, TypeOK, LinkTypeOK
      <4> QED
        BY <2>1, <3>3, <4>1 DEF NewPull, RenderThread, WakeOnReady, WakeOnNewInstance,
             RequestNext, WriteChannel, RenderDone
    <3> QED
      BY <3>1, <3>2, <3>3 DEF Plays, Next, DeviceNext
  <2>2. CASE NetHoldsNew
    <3>1. CASE UNCHANGED toPD
      BY <2>2, <3>1 DEF NewPull, NetHoldsNew
    <3>2. CASE SendChannel
      BY <2>2, <3>2, PackageSent DEF NewPull
    <3>3. CASE ReceiveThread
      <4>1. CASE ReceiveNewInstance
        BY <4>1 DEF ReceiveNewInstance, NewPull
      <4>2. CASE DropPackage \/ ReceivePackage
        <5>1. toPD # << >> /\ toPD' = Tail(toPD) /\ Head(toPD).cmd = "PCMDATA"
          BY <4>2 DEF DropPackage, ReceivePackage, Useful
        <5> QED
          BY <2>2, <5>1, PackageTaken DEF TypeOK, NewPull
      <4>3. CASE CopyPackage \/ PackageDone
        BY <2>2, <4>3 DEF CopyPackage, PackageDone, NewPull, NetHoldsNew
      <4> QED
        BY <3>3, <4>1, <4>2, <4>3 DEF ReceiveThread
    <3>4. UNCHANGED toPD \/ SendChannel \/ ReceiveThread
      BY DEF Plays, Next, DriverNext, HostStep, CreateBuffers, DisposeBuffers, Start, Stop,
           StopReturns, ReceiveWant, AsioThread, ThreadBegin, WakeOnStop, WakeOnBuf, BufferSwitch,
           SwitchDone, ThreadExit, DeviceNext, RenderThread, WakeOnReady, WakeOnNewInstance,
           RequestFirst, RequestNext, WriteChannel, RenderDone
    <3> QED
      BY <3>1, <3>2, <3>3, <3>4
  <2> QED
    BY <1>6, <2>1, <2>2 DEF NewPull
<1>7. ASSUME Useful(heldPD)
      PROVE  /\ TokenCount' = 0 \/ (tpc' = "send" /\ ThreadHolds')
             /\ Signals(heldPD) => TokenCount' = 0
             /\ rpc' = "render" => heldPD.half # rhalf'
  BY <1>2, <1>4, <1>5, <1>7, NothingUseful DEF PartHeld
<1>8. ASSUME heldAS \notin {NoPackage, Stuck}
      PROVE  (TokenCount' = 0 \/ NewPull') /\ ~Signals(heldPD)
  BY <1>2, <1>6, <1>8 DEF PartHeld
<1> QED
  BY <1>1, <1>7, <1>8 DEF PartHeld

-----------------------------------------------------------------------------

\* Every step keeps what holds of every state, and one pull unless it doubles it.
LEMMA RInvStep == RInv /\ [ReconnectNext]_reconnectVars => RInv'
<1> SUFFICES ASSUME RInv, [ReconnectNext]_reconnectVars PROVE RInv'
  OBVIOUS
<1>0. /\ TypeOK /\ Lifecycle /\ HeldTypeOK /\ doubled \in BOOLEAN
      /\ ~doubled => OnePull /\ PartHeld
  BY DEF RInv
<1>1. CASE Plays(Next)
  <2>1. [Next]_vars /\ UNCHANGED <<doubled, heldPD, heldAS>>
    BY <1>1 DEF Plays, linkStateVars
  <2>2. HeldTypeOK'
    BY <1>0, <2>1 DEF HeldTypeOK
  <2> QED
    BY <1>0, <1>1, <2>1, <2>2, TypeOKStep, LifecycleStep, OnePullStep, PartStays DEF RInv
<1>2. CASE SendLost
  <2>1. doubled' = doubled
    BY <1>2 DEF SendLost
  <2> QED
    BY <1>0, <1>2, <2>1, LinkStepTypes, SendLostStep DEF RInv
<1>3. CASE RequestLost
  <2>1. doubled' = doubled
    BY <1>3 DEF RequestLost
  <2> QED
    BY <1>0, <1>3, <2>1, LinkStepTypes, RequestLostStep DEF RInv
<1>4. CASE Break
  <2>1. doubled' = doubled
    BY <1>4 DEF Break
  <2> QED
    BY <1>0, <1>4, <2>1, LinkStepTypes, BreakStep, BreakCuts DEF RInv
<1>5. CASE Announce
  <2>1. doubled' \in BOOLEAN /\ (doubled => doubled')
    BY <1>0, <1>5 DEF Announce
  <2> QED
    BY <1>0, <1>5, <2>1, LinkStepTypes, AnnounceStep DEF RInv
<1>6. CASE UNCHANGED <<vars, doubled, heldPD, heldAS>>
  <2>1. TypeOK' /\ Lifecycle' /\ (OnePull => OnePull')
    BY <1>0, <1>6, TypeOKStep, LifecycleStep, OnePullStep
  <2>2. HeldTypeOK'
    BY <1>0, <1>6 DEF HeldTypeOK
  <2>3. PartHeld => PartHeld'
    <3>1. UNCHANGED <<linkVars, driverVars, deviceVars, heldPD, heldAS>>
      BY <1>6 DEF vars
    <3>2. UNCHANGED <<NetHolds, NetHoldsNew, RenderHolds, ThreadHolds, RxHolds, NewPull>>
      BY <3>1 DEF linkVars, hostVars, threadVars, driverVars, deviceVars,
           NetHolds, NetHoldsNew, RenderHolds, ThreadHolds, RxHolds, NewPull
    <3>3. TokenCount' = TokenCount
      BY <3>1, <3>2, SameCount DEF linkVars, driverVars, deviceVars
    <3> QED
      BY <3>1, <3>2, <3>3 DEF threadVars, driverVars, deviceVars, PartHeld
  <2> QED
    BY <1>0, <1>6, <2>1, <2>2, <2>3 DEF RInv
<1> QED
  BY <1>1, <1>2, <1>3, <1>4, <1>5, <1>6 DEF ReconnectNext, Reconnect, reconnectVars, linkStateVars

\* With one pull alive, the half that is rendered is not the one being written.
LEMMA OneIsNotTorn == OnePull => NoTornRender
  BY DEF OnePull, Agreed, NoTornRender

\* Over any number of broken connections, whatever they lose or cut: one pull at
\* a time, and no half written while it is rendered, until NEW_INSTANCE is sent
\* while a pull is alive.
THEOREM OnePullSurvivesBreaks == ReconnectSpec => []OnePullUnlessDoubled
<1>1. RInv => OnePullUnlessDoubled
  BY OneIsNotTorn DEF RInv, OnePull, OnePullUnlessDoubled
<1> QED
  BY <1>1, RInvInit, RInvStep, PTL DEF ReconnectSpec

-----------------------------------------------------------------------------
(* What the audio path carries: every block of the host reaches the files  *)
(* of the channels every host asks for once and in order.                  *)
(*                                                                         *)
(* That one request or answer is under way at a time is turned into what   *)
(* the halves contain.  InAnswer(h) says that half h has been filled by    *)
(* the host and not yet been taken by the render thread; the invariant     *)
(* relates the numbers in the host's half, in the packages, in the         *)
(* device's buffers and in the files to it.                                *)

\* The packages on their way to the device.
Queued == {toPD[i] : i \in DOMAIN toPD}

\* The answer with half h is under way, from the callback that fills it until
\* the render thread asks for the other half.
InAnswer(h) ==
    \/ tpc = "send" /\ ThreadHolds /\ toggle = h
    \/ \E p \in Queued : Signals(p) /\ p.half = h
    \/ RxHolds /\ rx.half = h
    \/ ready[h]
    \/ rpc = "request" /\ rhalf = h

\* Channel c of half h is still to be sent, to be received or to be copied.
OnItsWay(h, c) ==
    \/ tpc = "send" /\ toggle = h /\ idx <= c
    \/ \E p \in Queued : Useful(p) /\ p.half = h /\ p.channel = c
    \/ rxpc = "copy" /\ rx.half = h /\ rx.channel = c

\* Packages and buffers hold the block the host has last put in their half, or
\* are about to be overwritten with it.
Carried ==
    /\ \A p \in Queued : Useful(p) => p.block = hostBuf[p.half]
    /\ rxpc # "recv" => rx.block = hostBuf[rx.half]
    /\ \A h \in Halves, c \in CommonChannels :
         InAnswer(h) => buf[h][c] = hostBuf[h] \/ OnItsWay(h, c)
    /\ rpc = "render" => \A c \in CommonChannels : buf[rhalf][c] = hostBuf[rhalf]

\* How many blocks the file of a channel has, how many it will have when the
\* half that is being rendered is done, modulo BlockMod.
Played(c) == Next1(file[c])
Rendering(c) == rpc = "render" /\ rch <= c
Reached(c) == IF Rendering(c) THEN Next1(Played(c)) ELSE Played(c)

\* The half that is rendered is the next one the file lacks, the half whose
\* answer is under way the one after it, and the host is ahead by these alone.
InStep ==
    /\ rpc # "render" => rch = 0
    /\ \A c \in CommonChannels :
         /\ Rendering(c) => hostBuf[rhalf] = Played(c)
         /\ \A h \in Halves :
              InAnswer(h) => hostBuf[h] = Reached(c) /\ filled = Next1(Reached(c))
         /\ (\A h \in Halves : ~InAnswer(h)) => filled = Reached(c)

FInv == IInv /\ Carried /\ InStep

-----------------------------------------------------------------------------
(* The packages on the link. *)

\* Sending adds a package, and receiving takes the oldest.
LEMMA QueuedSent ==
  ASSUME TypeOK, SendChannel
  PROVE  Queued' = Queued \cup {PCMData(toggle, idx, active, hostBuf[toggle])}
<1> DEFINE p == PCMData(toggle, idx, active, hostBuf[toggle])
<1>1. toPD' = Append(toPD, p) /\ Len(toPD) \in Nat /\ DOMAIN toPD = 1 .. Len(toPD)
  BY DEF SendChannel, SendToPD, TypeOK, LinkTypeOK
<1>2. /\ DOMAIN toPD' = 1 .. (Len(toPD) + 1)
      /\ toPD'[Len(toPD) + 1] = p
      /\ \A i \in 1 .. Len(toPD) : toPD'[i] = toPD[i]
  BY <1>1 DEF TypeOK, LinkTypeOK
<1>3. ASSUME NEW i \in DOMAIN toPD' PROVE toPD'[i] \in Queued \cup {p}
  <2>1. CASE i = Len(toPD) + 1
    BY <1>2, <2>1
  <2>2. CASE i \in 1 .. Len(toPD)
    BY <1>1, <1>2, <2>2 DEF Queued
  <2> QED
    BY <1>1, <1>2, <2>1, <2>2
<1>4. ASSUME NEW i \in DOMAIN toPD PROVE toPD[i] \in Queued'
  BY <1>1, <1>2 DEF Queued
<1>5. p \in Queued'
  BY <1>1, <1>2 DEF Queued
<1> QED
  BY <1>3, <1>4, <1>5 DEF Queued

\* A package that is taken leaves no other package in the queue than were there.
LEMMA QueuedTaken ==
  ASSUME LinkTypeOK, toPD # << >>, toPD' = Tail(toPD)
  PROVE  Head(toPD) = toPD[1] /\ Queued = Queued' \cup {toPD[1]}
<1>1. /\ Head(toPD) = toPD[1] /\ 1 \in DOMAIN toPD
      /\ \A i \in DOMAIN toPD' : i + 1 \in DOMAIN toPD /\ toPD'[i] = toPD[i + 1]
  BY PackageTaken
<1>2. ASSUME NEW i \in DOMAIN toPD, i # 1
      PROVE  i - 1 \in DOMAIN toPD' /\ toPD[i] = toPD'[i - 1]
  BY <1>2 DEF LinkTypeOK
<1>3. \A i \in DOMAIN toPD : toPD[i] \in Queued' \cup {toPD[1]}
  BY <1>2 DEF Queued
<1>4. \A i \in DOMAIN toPD' : toPD'[i] \in Queued
  BY <1>1 DEF Queued
<1> QED
  BY <1>1, <1>3, <1>4 DEF Queued

\* Whoever asks for a half, or is about to have it filled, leaves none under way.
LEMMA NoAnswer ==
  ASSUME TypeOK, OnePull, RenderHolds \/ tpc = "switch"
  PROVE  /\ \A p \in Queued : ~Useful(p) /\ ~Signals(p)
         /\ rxpc = "recv" /\ ~RxHolds
         /\ \A h \in Halves : ~ready[h]
         /\ tpc = "switch" => rpc # "request"
         /\ rpc = "request" => ~ThreadHolds
<1>1. (\A i \in DOMAIN toPD : ~Useful(toPD[i])) /\ rxpc = "recv"
  BY NothingUnderWay
<1>2. Len(toAS) \in Nat
  BY DEF TypeOK, LinkTypeOK
<1>3. RenderHolds \/ ThreadHolds
  BY DEF ThreadHolds
<1>4. ~ready[0] /\ ~ready[1] /\ ~(RenderHolds /\ ThreadHolds)
  BY <1>2, <1>3 DEF OnePull, TokenCount, B
<1> QED
  BY <1>1, <1>4 DEF Queued, Signals, RxHolds, Halves, RenderHolds, ThreadHolds

\* A common channel is one of the device's and one of the outputs of every
\* callback.
LEMMA Common ==
  ASSUME TypeOK, NEW c \in CommonChannels
  PROVE  /\ c \in Channels /\ c \in Nat /\ c < PDChannels
         /\ Lifecycle /\ tpc # "none" => active \in Nat /\ c < active /\ 0 < active
<1>1. c \in Channels /\ \A n \in OutputCounts : c < n
  BY DEF CommonChannels
<1>2. c \in Nat /\ c < PDChannels
  BY <1>1 DEF Channels
<1>3. ASSUME Lifecycle, tpc # "none" PROVE active \in Nat /\ c < active /\ 0 < active
  <2>1. active \in OutputCounts /\ active \in Nat
    BY <1>3 DEF Lifecycle
  <2> QED
    BY <1>1, <1>2, <2>1
<1> QED
  BY <1>1, <1>2, <1>3

-----------------------------------------------------------------------------
(* Steps that move no block. *)

\* While the ASIO thread is not in its sends, or makes no progress with them.
LEMMA QuietDriver ==
  ASSUME Carried, InStep, UNCHANGED <<deviceVars, toPD, hostBuf, filled>>,
         tpc' = "send" <=> tpc = "send",
         tpc = "send" => UNCHANGED <<toggle, idx, active>>
  PROVE  Carried' /\ InStep'
<1> USE DEF deviceVars
<1>1. Queued' = Queued
  BY DEF Queued
<1>2. (tpc = "send" /\ ThreadHolds) <=> (tpc' = "send" /\ ThreadHolds')
  BY DEF ThreadHolds
<1>3. ASSUME NEW h PROVE InAnswer(h)' <=> InAnswer(h)
  BY <1>1, <1>2 DEF InAnswer, RxHolds
<1>4. ASSUME NEW h, NEW c PROVE OnItsWay(h, c)' <=> OnItsWay(h, c)
  BY <1>1 DEF OnItsWay
<1>5. Carried'
  BY <1>1, <1>3, <1>4 DEF Carried
<1>6. InStep'
  BY <1>3 DEF InStep, Reached, Rendering, Played
<1> QED
  BY <1>5, <1>6

\* When no answer comes or goes, and the files and the half that is rendered
\* stay, both sides stay in step.
LEMMA SameStep ==
  ASSUME InStep, UNCHANGED <<hostBuf, filled, file, rch>>,
         rpc' = "render" <=> rpc = "render",
         rpc = "render" => rhalf' = rhalf,
         \A h \in Halves : InAnswer(h)' <=> InAnswer(h)
  PROVE  InStep'
BY DEF InStep, Reached, Rendering, Played

\* A block number has a successor.
LEMMA NextIsBlock ==
  ASSUME NEW b \in Blocks \cup {NoBlock} PROVE Next1(b) \in Blocks
BY Z3 DEF Next1, Blocks, NoBlock

-----------------------------------------------------------------------------
(* The ASIO thread. *)

\* The callback puts the next block into a half that nobody uses.
LEMMA FillStep ==
  ASSUME FInv, BufferSwitch /\ UNCHANGED deviceVars
  PROVE  Carried' /\ InStep'
<1> USE DEF deviceVars, hostVars, linkVars
<1>0. TypeOK /\ Lifecycle /\ OnePull /\ Carried /\ InStep
  BY DEF FInv, IInv
<1>1. /\ tpc = "switch" /\ started /\ tpc' = "send" /\ UNCHANGED <<toggle, idx, active, toPD>>
      /\ hostBuf' = [hostBuf EXCEPT ![toggle] = filled]
      /\ filled' = (filled + 1) % BlockMod
      /\ idx = 0 /\ toggle \in Halves /\ hostBuf \in [Halves -> Blocks] /\ filled \in Blocks
  BY <1>0 DEF BufferSwitch, FillHalf, Lifecycle, TypeOK, DriverTypeOK
<1>2. /\ \A p \in Queued : ~Useful(p) /\ ~Signals(p)
      /\ rxpc = "recv" /\ ~RxHolds
      /\ \A h \in Halves : ~ready[h]
      /\ rpc # "request"
  BY <1>0, <1>1, NoAnswer
<1>3. Queued' = Queued
  BY <1>1 DEF Queued
<1>4. \A h \in Halves : ~InAnswer(h)
  BY <1>1, <1>2 DEF InAnswer
<1>5. ASSUME NEW h \in Halves, InAnswer(h)' PROVE h = toggle
  BY <1>1, <1>2, <1>3, <1>5 DEF InAnswer, RxHolds
<1>6. ASSUME NEW c \in CommonChannels PROVE InAnswer(toggle)'
  <2>1. /\ c \in Nat /\ c < PDChannels /\ active \in Nat /\ c < active
    BY <1>0, <1>1, Common
  <2> QED
    BY <1>1, <2>1 DEF InAnswer, ThreadHolds
<1>7. rpc = "render" => toggle # rhalf
  BY <1>0, <1>1 DEF OnePull, Agreed, ThreadHolds
<1>8. Carried'
  <2>1. ASSUME NEW h \in Halves, NEW c \in CommonChannels, InAnswer(h)'
        PROVE  OnItsWay(h, c)'
    <3>1. c \in Nat
      BY <1>0, Common
    <3> QED
      BY <1>1, <1>5, <2>1, <3>1 DEF OnItsWay
  <2>2. rpc' = "render" => \A c \in CommonChannels : buf'[rhalf'][c] = hostBuf'[rhalf']
    BY <1>0, <1>1, <1>7 DEF Carried
  <2> QED
    BY <1>2, <1>3, <2>1, <2>2 DEF Carried
<1>9. InStep'
  <2> SUFFICES ASSUME NEW c \in CommonChannels
               PROVE  /\ Rendering(c)' => hostBuf'[rhalf'] = Played(c)'
                      /\ \A h \in Halves : InAnswer(h)' =>
                           hostBuf'[h] = Reached(c)' /\ filled' = Next1(Reached(c)')
                      /\ ~(\A h \in Halves : ~InAnswer(h)')
    BY <1>0 DEF InStep
  <2>1. filled = Reached(c) /\ (Rendering(c) => hostBuf[rhalf] = Played(c))
    BY <1>0, <1>4 DEF InStep
  <2>2. Reached(c)' = Reached(c) /\ Played(c)' = Played(c) /\ (Rendering(c)' <=> Rendering(c))
    BY DEF Reached, Rendering, Played
  <2>3. filled' = Next1(filled)
    BY <1>1 DEF Next1, Blocks, NoBlock
  <2>4. Rendering(c) => hostBuf'[rhalf] = hostBuf[rhalf]
    BY <1>1, <1>7 DEF Rendering
  <2>5. hostBuf'[toggle] = filled
    BY <1>1
  <2> QED
    BY <1>1, <1>5, <1>6, <2>1, <2>2, <2>3, <2>4, <2>5
<1> QED
  BY <1>8, <1>9

\* Each package carries the block of the half that is being answered.
LEMMA SendStep ==
  ASSUME FInv, SendChannel /\ UNCHANGED deviceVars
  PROVE  Carried' /\ InStep'
<1> USE DEF deviceVars, hostVars
<1> DEFINE p == PCMData(toggle, idx, active, hostBuf[toggle])
<1>0. TypeOK /\ Lifecycle /\ OnePull /\ Carried /\ InStep
  BY DEF FInv, IInv
<1>1. /\ Queued' = Queued \cup {p}
      /\ Signals(p) <=> ThreadHolds /\ ~ThreadHolds'
      /\ ThreadHolds' => ThreadHolds
  BY <1>0, QueuedSent, PackageSent
<1>2. p.half = toggle /\ p.channel = idx /\ p.block = hostBuf[toggle] /\ p.cmd = "PCMDATA"
  BY DEF PCMData
<1>3. /\ tpc = "send" /\ tpc' = "send" /\ idx' = idx + 1 /\ idx \in Nat
      /\ UNCHANGED <<toggle, hostBuf, filled, active>>
  BY <1>0 DEF SendChannel, TypeOK, DriverTypeOK
<1>4. ASSUME NEW h \in Halves PROVE InAnswer(h)' <=> InAnswer(h)
  <2>1. (\E q \in Queued' : Signals(q) /\ q.half = h)
          <=> (\E q \in Queued : Signals(q) /\ q.half = h) \/ (Signals(p) /\ h = toggle)
    BY <1>1, <1>2
  <2>2. /\ RxHolds' <=> RxHolds
        /\ UNCHANGED <<rx, ready, rpc, rhalf>>
    BY DEF RxHolds
  <2> QED
    BY <1>1, <1>3, <2>1, <2>2 DEF InAnswer
<1>5. ASSUME NEW h \in Halves, NEW c \in CommonChannels, OnItsWay(h, c) PROVE OnItsWay(h, c)'
  <2>1. c \in Nat /\ c < PDChannels
    BY <1>0, Common
  <2>2. CASE toggle = h /\ idx <= c
    <3>1. CASE idx = c
      BY <1>1, <1>2, <2>1, <2>2, <3>1 DEF OnItsWay, Useful
    <3>2. CASE idx # c
      BY <1>3, <2>1, <2>2, <3>2 DEF OnItsWay
    <3> QED
      BY <3>1, <3>2
  <2>3. CASE \E q \in Queued : Useful(q) /\ q.half = h /\ q.channel = c
    BY <1>1, <2>3 DEF OnItsWay
  <2>4. CASE rxpc = "copy" /\ rx.half = h /\ rx.channel = c
    BY <2>4 DEF OnItsWay
  <2> QED
    BY <1>5, <2>2, <2>3, <2>4 DEF OnItsWay
<1>6. Carried'
  BY <1>0, <1>1, <1>2, <1>3, <1>4, <1>5 DEF Carried
<1>7. InStep'
  BY <1>0, <1>3, <1>4, SameStep
<1> QED
  BY <1>6, <1>7

\* When the sends are over no channel is still to be sent.
LEMMA SwitchDoneStep ==
  ASSUME FInv, SwitchDone /\ UNCHANGED deviceVars
  PROVE  Carried' /\ InStep'
<1> USE DEF deviceVars, hostVars, linkVars
<1>0. TypeOK /\ Lifecycle /\ Carried /\ InStep
  BY DEF FInv, IInv
<1>1. /\ tpc = "send" /\ tpc' = "wait" /\ idx >= active /\ idx \in Nat /\ active \in Nat
      /\ UNCHANGED <<toPD, hostBuf, filled>>
  BY <1>0, OutputCountsAssumption DEF SwitchDone, TypeOK, DriverTypeOK
<1>2. Queued' = Queued /\ ~ThreadHolds
  BY <1>1 DEF Queued, ThreadHolds
<1>3. \A h \in Halves : InAnswer(h)' <=> InAnswer(h)
  BY <1>1, <1>2 DEF InAnswer, RxHolds
<1>4. ASSUME NEW h \in Halves, NEW c \in CommonChannels, OnItsWay(h, c) PROVE OnItsWay(h, c)'
  <2>1. c \in Nat /\ c < active
    BY <1>0, <1>1, Common
  <2> QED
    BY <1>1, <1>2, <1>4, <2>1 DEF OnItsWay
<1>5. Carried'
  BY <1>0, <1>1, <1>2, <1>3, <1>4 DEF Carried
<1>6. InStep'
  BY <1>0, <1>1, <1>3, SameStep
<1> QED
  BY <1>5, <1>6

-----------------------------------------------------------------------------
(* The receive thread. *)

\* NEW_INSTANCE and the packages for channels the device does not have are no
\* part of an answer.
LEMMA SkipStep ==
  ASSUME FInv, (ReceiveNewInstance \/ DropPackage) /\ UNCHANGED driverVars
  PROVE  Carried' /\ InStep'
<1> USE DEF driverVars, rxVars, renderVars, deviceVars
<1>0. TypeOK /\ Carried /\ InStep
  BY DEF FInv, IInv
<1>1. toPD # << >> /\ toPD' = Tail(toPD)
  BY DEF ReceiveNewInstance, DropPackage
<1>2. Queued = Queued' \cup {toPD[1]} /\ Head(toPD) = toPD[1]
  BY <1>0, <1>1, QueuedTaken DEF TypeOK
<1>3. ~Useful(toPD[1]) /\ ~Signals(toPD[1])
  BY <1>2 DEF ReceiveNewInstance, DropPackage, Useful, Signals
<1>4. UNCHANGED <<driverVars, rxpc, rx, buf, ready, rpc, rhalf, rch, file>>
  BY DEF ReceiveNewInstance, DropPackage
<1>5. UNCHANGED <<ThreadHolds, RxHolds>>
  BY <1>4 DEF ThreadHolds, RxHolds
<1>6. ASSUME NEW h PROVE InAnswer(h)' <=> InAnswer(h)
  BY <1>2, <1>3, <1>4, <1>5 DEF InAnswer
<1>7. ASSUME NEW h, NEW c PROVE OnItsWay(h, c)' <=> OnItsWay(h, c)
  BY <1>2, <1>3, <1>4 DEF OnItsWay
<1>8. Carried'
  BY <1>0, <1>2, <1>4, <1>6, <1>7 DEF Carried
<1>9. InStep'
  BY <1>0, <1>4, <1>6, SameStep
<1> QED
  BY <1>8, <1>9

\* A package that is received is the receive thread's to copy.
LEMMA ReceiveStep ==
  ASSUME FInv, ReceivePackage /\ UNCHANGED driverVars
  PROVE  Carried' /\ InStep'
<1> USE DEF driverVars, rxVars, renderVars, deviceVars
<1>0. TypeOK /\ Carried /\ InStep
  BY DEF FInv, IInv
<1>1. toPD # << >> /\ toPD' = Tail(toPD)
  BY DEF ReceivePackage
<1>2. Queued = Queued' \cup {toPD[1]} /\ Head(toPD) = toPD[1]
  BY <1>0, <1>1, QueuedTaken DEF TypeOK
<1>3. /\ rxpc = "recv" /\ rxpc' = "copy" /\ rx' = toPD[1] /\ Useful(toPD[1])
      /\ UNCHANGED <<driverVars, buf, ready, rpc, rhalf, rch, file>>
  BY <1>2 DEF ReceivePackage
<1>4. ~RxHolds /\ (RxHolds' <=> Signals(toPD[1])) /\ UNCHANGED ThreadHolds
  BY <1>3 DEF RxHolds, ThreadHolds
<1>5. ASSUME NEW h PROVE InAnswer(h)' <=> InAnswer(h)
  BY <1>2, <1>3, <1>4 DEF InAnswer
<1>6. ASSUME NEW h, NEW c, OnItsWay(h, c) PROVE OnItsWay(h, c)'
  BY <1>2, <1>3, <1>6 DEF OnItsWay
<1>7. Carried'
  BY <1>0, <1>2, <1>3, <1>5, <1>6 DEF Carried
<1>8. InStep'
  BY <1>0, <1>3, <1>5, SameStep
<1> QED
  BY <1>7, <1>8

\* The copy puts the host's block into the device's half, which is not the one
\* that is being rendered.
LEMMA CopyStep ==
  ASSUME FInv, CopyPackage /\ UNCHANGED driverVars
  PROVE  Carried' /\ InStep'
<1> USE DEF driverVars, rxVars, renderVars, deviceVars, linkVars
<1>0. TypeOK /\ OnePull /\ Carried /\ InStep
  BY DEF FInv, IInv
<1>1. /\ rxpc = "copy" /\ rxpc' = "signal"
      /\ UNCHANGED <<driverVars, linkVars, rx, ready, rpc, rhalf, rch, file>>
  BY DEF CopyPackage
<1>2. rx.half \in Halves /\ rx.channel \in Nat
  BY <1>0, <1>1 DEF TypeOK, DeviceTypeOK, PCMPackage
<1>3. ASSUME NEW h \in Halves, NEW c \in Channels
      PROVE  buf'[h][c] = IF h = rx.half /\ c = rx.channel THEN rx.block ELSE buf[h][c]
  BY <1>0, <1>2 DEF CopyPackage, TypeOK, DeviceTypeOK
<1>4. Queued' = Queued /\ UNCHANGED <<ThreadHolds, RxHolds>>
  BY <1>1 DEF Queued, ThreadHolds, RxHolds
<1>5. ASSUME NEW h PROVE InAnswer(h)' <=> InAnswer(h)
  BY <1>1, <1>4 DEF InAnswer
<1>6. rx.block = hostBuf[rx.half]
  BY <1>0, <1>1 DEF Carried
<1>7. ASSUME NEW h \in Halves, NEW c \in CommonChannels, InAnswer(h)
      PROVE  buf'[h][c] = hostBuf[h] \/ OnItsWay(h, c)'
  <2>1. c \in Channels
    BY <1>0, Common
  <2>2. CASE h = rx.half /\ c = rx.channel
    BY <1>3, <1>6, <2>1, <2>2
  <2>3. CASE ~(h = rx.half /\ c = rx.channel)
    <3>1. buf[h][c] = hostBuf[h] \/ OnItsWay(h, c)
      BY <1>0, <1>7 DEF Carried
    <3>2. OnItsWay(h, c) => OnItsWay(h, c)'
      BY <1>1, <1>4, <2>3 DEF OnItsWay
    <3> QED
      BY <1>3, <2>1, <2>3, <3>1, <3>2
  <2> QED
    BY <2>2, <2>3
<1>8. ASSUME rpc = "render", NEW c \in CommonChannels PROVE buf'[rhalf][c] = hostBuf[rhalf]
  <2>1. c \in Channels /\ rhalf \in Halves /\ rx.half # rhalf
    BY <1>0, <1>1, <1>8, Common DEF OnePull, Agreed, TypeOK, DeviceTypeOK
  <2> QED
    BY <1>0, <1>3, <1>8, <2>1 DEF Carried
<1>9. Carried'
  BY <1>0, <1>1, <1>4, <1>5, <1>6, <1>7, <1>8 DEF Carried
<1>10. InStep'
  BY <1>0, <1>1, <1>5, SameStep
<1> QED
  BY <1>9, <1>10

\* The last package of an answer makes its half ready.
LEMMA DoneStep ==
  ASSUME FInv, PackageDone /\ UNCHANGED driverVars
  PROVE  Carried' /\ InStep'
<1> USE DEF driverVars, rxVars, renderVars, deviceVars, linkVars
<1>0. TypeOK /\ Carried /\ InStep
  BY DEF FInv, IInv
<1>1. /\ rxpc = "signal" /\ rxpc' = "recv"
      /\ UNCHANGED <<driverVars, linkVars, buf, rpc, rhalf, rch, file>>
  BY DEF PackageDone
<1>2. rx.half \in Halves
  BY <1>0, <1>1 DEF TypeOK, DeviceTypeOK, PCMPackage
<1>3. Queued' = Queued /\ UNCHANGED ThreadHolds /\ ~RxHolds' /\ (RxHolds <=> Signals(rx))
  BY <1>1 DEF Queued, ThreadHolds, RxHolds
<1>4. ASSUME NEW h \in Halves PROVE ready'[h] <=> ready[h] \/ (RxHolds /\ rx.half = h)
  BY <1>0, <1>2, <1>3 DEF PackageDone, TypeOK, DeviceTypeOK
<1>5. ASSUME NEW h \in Halves PROVE InAnswer(h)' <=> InAnswer(h)
  BY <1>1, <1>3, <1>4 DEF InAnswer
<1>6. ASSUME NEW h, NEW c PROVE OnItsWay(h, c)' <=> OnItsWay(h, c)
  BY <1>1, <1>3 DEF OnItsWay
<1>7. Carried'
  BY <1>0, <1>1, <1>3, <1>5, <1>6 DEF Carried
<1>8. InStep'
  BY <1>0, <1>1, <1>5, SameStep
<1> QED
  BY <1>7, <1>8

-----------------------------------------------------------------------------
(* The render thread. *)

\* Waking up, and asking for the first half, leave the answer where it is.
LEMMA WakeStep ==
  ASSUME FInv,
         \/ \E h \in Halves : WakeOnReady(h)
         \/ WakeOnNewInstance
         \/ RequestFirst,
         UNCHANGED driverVars
  PROVE  Carried' /\ InStep'
<1> USE DEF driverVars, rxVars, linkVars
<1>0. TypeOK /\ Carried /\ InStep
  BY DEF FInv, IInv
<1>1. /\ UNCHANGED <<driverVars, toPD, rxpc, rx, buf, rch, file>>
      /\ rpc # "render" /\ rpc' # "render"
  BY DEF WakeOnReady, WakeOnNewInstance, RequestFirst
<1>2. Queued' = Queued /\ UNCHANGED <<ThreadHolds, RxHolds>>
  BY <1>1 DEF Queued, ThreadHolds, RxHolds
<1>3. ASSUME NEW h \in Halves
      PROVE  (ready'[h] \/ (rpc' = "request" /\ rhalf' = h))
               <=> (ready[h] \/ (rpc = "request" /\ rhalf = h))
  <2>1. ASSUME NEW g \in Halves, WakeOnReady(g)
        PROVE  (ready'[h] \/ (rpc' = "request" /\ rhalf' = h))
                 <=> (ready[h] \/ (rpc = "request" /\ rhalf = h))
    BY <1>0, <2>1 DEF WakeOnReady, TypeOK, DeviceTypeOK
  <2>2. ASSUME WakeOnNewInstance \/ RequestFirst
        PROVE  (ready'[h] \/ (rpc' = "request" /\ rhalf' = h))
                 <=> (ready[h] \/ (rpc = "request" /\ rhalf = h))
    BY <2>2 DEF WakeOnNewInstance, RequestFirst
  <2> QED
    BY <2>1, <2>2
<1>4. ASSUME NEW h \in Halves PROVE InAnswer(h)' <=> InAnswer(h)
  BY <1>1, <1>2, <1>3 DEF InAnswer
<1>5. ASSUME NEW h, NEW c PROVE OnItsWay(h, c)' <=> OnItsWay(h, c)
  BY <1>1, <1>2 DEF OnItsWay
<1>6. Carried'
  BY <1>0, <1>1, <1>2, <1>4, <1>5 DEF Carried
<1>7. InStep'
  BY <1>0, <1>1, <1>4, SameStep
<1> QED
  BY <1>6, <1>7

\* The half that is about to be rendered has arrived on every common channel.
LEMMA RequestStep ==
  ASSUME FInv, RequestNext /\ UNCHANGED driverVars
  PROVE  Carried' /\ InStep'
<1> USE DEF driverVars, rxVars
<1>0. TypeOK /\ Lifecycle /\ OnePull /\ Carried /\ InStep
  BY DEF FInv, IInv
<1>1. /\ rpc = "request" /\ rpc' = "render"
      /\ UNCHANGED <<driverVars, toPD, rxpc, rx, buf, ready, rhalf, rch, file>>
  BY DEF RequestNext
<1>2. /\ rhalf \in Halves /\ RenderHolds /\ rch = 0
      /\ file \in [Channels -> Blocks \cup {NoBlock}]
  BY <1>0, <1>1 DEF TypeOK, DeviceTypeOK, RenderHolds, InStep
<1>3. /\ \A p \in Queued : ~Useful(p) /\ ~Signals(p)
      /\ rxpc = "recv" /\ ~RxHolds /\ ~ThreadHolds
      /\ \A h \in Halves : ~ready[h]
  BY <1>0, <1>1, <1>2, NoAnswer
<1>4. Queued' = Queued /\ UNCHANGED <<ThreadHolds, RxHolds>>
  BY <1>1 DEF Queued, ThreadHolds, RxHolds
<1>5. InAnswer(rhalf)
  BY <1>1 DEF InAnswer
<1>6. \A h \in Halves : ~InAnswer(h)'
  BY <1>1, <1>3, <1>4 DEF InAnswer
<1>7. ASSUME NEW c \in CommonChannels PROVE buf[rhalf][c] = hostBuf[rhalf]
  <2>1. c \in Nat /\ c < PDChannels
    BY <1>0, Common
  <2>2. tpc = "send" => active \in Nat /\ c < active /\ idx \in Nat
    BY <1>0, Common DEF TypeOK, DriverTypeOK
  <2>3. ~OnItsWay(rhalf, c)
    BY <1>3, <2>1, <2>2 DEF OnItsWay, ThreadHolds
  <2> QED
    BY <1>0, <1>2, <1>5, <2>3 DEF Carried
<1>8. Carried'
  BY <1>0, <1>1, <1>3, <1>4, <1>6, <1>7 DEF Carried
<1>9. InStep'
  <2> SUFFICES ASSUME NEW c \in CommonChannels
               PROVE  /\ Rendering(c)' => hostBuf'[rhalf'] = Played(c)'
                      /\ filled' = Reached(c)'
    BY <1>1, <1>6 DEF InStep
  <2>1. hostBuf[rhalf] = Reached(c) /\ filled = Next1(Reached(c))
    BY <1>0, <1>2, <1>5 DEF InStep
  <2>2. Reached(c) = Played(c) /\ Played(c)' = Played(c)
    BY <1>1 DEF Reached, Rendering, Played
  <2>3. Rendering(c)'
    BY <1>0, <1>1, <1>2, Common DEF Rendering
  <2>4. Reached(c)' = Next1(Played(c))
    BY <2>2, <2>3 DEF Reached
  <2> QED
    BY <1>1, <2>1, <2>2, <2>4
<1> QED
  BY <1>8, <1>9

\* What is written to the file of a common channel is the block it lacks.
LEMMA WriteStep ==
  ASSUME FInv, WriteChannel /\ UNCHANGED driverVars
  PROVE  /\ Carried' /\ InStep'
         /\ \A c \in CommonChannels :
              /\ c # rch => Played(c)' = Played(c)
              /\ c = rch => Rendering(c) /\ Played(c)' = Next1(Played(c))
<1> USE DEF driverVars, rxVars, linkVars
<1>0. TypeOK /\ Carried /\ InStep
  BY DEF FInv, IInv
<1>1. /\ rpc = "render" /\ rch' = rch + 1 /\ rch < PDChannels /\ rch \in Nat
      /\ UNCHANGED <<driverVars, linkVars, rxpc, rx, buf, ready, rpc, rhalf>>
  BY <1>0 DEF WriteChannel, TypeOK, DeviceTypeOK
<1>2. file \in [Channels -> Blocks \cup {NoBlock}] /\ rhalf \in Halves
      /\ hostBuf \in [Halves -> Blocks]
  BY <1>0 DEF TypeOK, DriverTypeOK, DeviceTypeOK
<1>3. Queued' = Queued /\ UNCHANGED <<ThreadHolds, RxHolds>>
  BY <1>1 DEF Queued, ThreadHolds, RxHolds
<1>4. ASSUME NEW h PROVE InAnswer(h)' <=> InAnswer(h)
  BY <1>1, <1>3 DEF InAnswer
<1>5. ASSUME NEW h, NEW c PROVE OnItsWay(h, c)' <=> OnItsWay(h, c)
  BY <1>1, <1>3 DEF OnItsWay
<1>6. Carried'
  BY <1>0, <1>1, <1>3, <1>4, <1>5 DEF Carried
<1>7. ASSUME NEW c \in CommonChannels
      PROVE  /\ c # rch => Played(c)' = Played(c) /\ (Rendering(c)' <=> Rendering(c))
             /\ c = rch => /\ Rendering(c) /\ ~Rendering(c)'
                           /\ Played(c)' = Next1(Played(c))
  <2>1. c \in Channels /\ c \in Nat
    BY <1>0, Common
  <2>2. CASE c # rch
    <3>1. file'[c] = file[c]
      BY <1>2, <2>1, <2>2 DEF WriteChannel
    <3> QED
      BY <1>1, <2>1, <2>2, <3>1 DEF Played, Rendering
  <2>3. CASE c = rch
    <3>1. Rendering(c) /\ ~Rendering(c)'
      BY <1>1, <2>1, <2>3 DEF Rendering
    <3>2. buf[rhalf][c] = hostBuf[rhalf] /\ hostBuf[rhalf] = Played(c)
      BY <1>0, <1>1, <3>1 DEF Carried, InStep
    <3>3. buf[rhalf][c] # NoBlock
      BY <1>2, <3>2 DEF Blocks, NoBlock
    <3>4. file'[c] = buf[rhalf][c]
      BY <1>2, <2>1, <2>3, <3>3 DEF WriteChannel
    <3> QED
      BY <2>3, <3>1, <3>2, <3>4 DEF Played
  <2> QED
    BY <2>2, <2>3
<1>8. InStep'
  <2>1. ASSUME NEW c \in CommonChannels
        PROVE  /\ Reached(c)' = Reached(c)
               /\ Rendering(c)' => Rendering(c) /\ Played(c)' = Played(c)
    BY <1>7 DEF Reached
  <2> QED
    BY <1>0, <1>1, <1>4, <2>1 DEF InStep
<1> QED
  BY <1>6, <1>7, <1>8

\* When the half is done every file has got its block.
LEMMA RenderedStep ==
  ASSUME FInv, RenderDone /\ UNCHANGED driverVars
  PROVE  Carried' /\ InStep'
<1> USE DEF driverVars, rxVars, linkVars
<1>0. TypeOK /\ Carried /\ InStep
  BY DEF FInv, IInv
<1>1. /\ rpc = "render" /\ rpc' = "wait" /\ rch' = 0 /\ rch = PDChannels
      /\ UNCHANGED <<driverVars, linkVars, rxpc, rx, buf, ready, file>>
  BY DEF RenderDone
<1>2. Queued' = Queued /\ UNCHANGED <<ThreadHolds, RxHolds>>
  BY <1>1 DEF Queued, ThreadHolds, RxHolds
<1>3. ASSUME NEW h PROVE InAnswer(h)' <=> InAnswer(h)
  BY <1>1, <1>2 DEF InAnswer
<1>4. ASSUME NEW h, NEW c PROVE OnItsWay(h, c)' <=> OnItsWay(h, c)
  BY <1>1, <1>2 DEF OnItsWay
<1>5. Carried'
  BY <1>0, <1>1, <1>2, <1>3, <1>4 DEF Carried
<1>6. ASSUME NEW c \in CommonChannels
      PROVE  ~Rendering(c)' /\ Reached(c)' = Reached(c)
  <2>1. c \in Nat /\ c < PDChannels
    BY <1>0, Common
  <2>2. ~Rendering(c) /\ ~Rendering(c)'
    BY <1>1, <2>1 DEF Rendering
  <2> QED
    BY <1>1, <2>2 DEF Reached, Played
<1>7. InStep'
  BY <1>0, <1>1, <1>3, <1>6 DEF InStep
<1> QED
  BY <1>5, <1>7

-----------------------------------------------------------------------------

\* Every step keeps what the packages carry and keeps both sides in step.
LEMMA FlowStep == FInv /\ [Next]_vars => Carried' /\ InStep'
<1> SUFFICES ASSUME FInv, [Next]_vars PROVE Carried' /\ InStep'
  OBVIOUS
<1> USE DEF hostVars, threadVars, linkVars
<1>0. Lifecycle /\ Carried /\ InStep
  BY DEF FInv, IInv
<1>1. CASE HostStep /\ UNCHANGED deviceVars
  <2>1. /\ tpc' = "send" <=> tpc = "send"
        /\ tpc = "send" => UNCHANGED <<toggle, idx, active>>
        /\ UNCHANGED <<deviceVars, toPD, hostBuf, filled>>
    BY <1>0, <1>1
    DEF HostStep, CreateBuffers, DisposeBuffers, Start, Stop, StopReturns, Lifecycle
  <2> QED
    BY <1>0, <2>1, QuietDriver
<1>2. CASE ReceiveWant /\ UNCHANGED deviceVars
  BY <1>0, <1>2, QuietDriver DEF ReceiveWant
<1>3. CASE AsioThread /\ UNCHANGED deviceVars
  <2>1. ASSUME ThreadBegin \/ WakeOnStop \/ (\E h \in Halves : WakeOnBuf(h)) \/ ThreadExit
        PROVE  tpc # "send" /\ tpc' # "send" /\ UNCHANGED <<toPD, hostBuf, filled>>
    BY <2>1 DEF ThreadBegin, WakeOnStop, WakeOnBuf, ThreadExit
  <2>2. ASSUME ThreadBegin \/ WakeOnStop \/ (\E h \in Halves : WakeOnBuf(h)) \/ ThreadExit
        PROVE  Carried' /\ InStep'
    BY <1>0, <1>3, <2>1, <2>2, QuietDriver
  <2> QED
    BY <1>3, <2>2, FillStep, SendStep, SwitchDoneStep DEF AsioThread
<1>4. CASE ReceiveThread /\ UNCHANGED driverVars
  BY <1>4, SkipStep, ReceiveStep, CopyStep, DoneStep DEF ReceiveThread
<1>5. CASE RenderThread /\ UNCHANGED driverVars
  BY <1>5, WakeStep, RequestStep, WriteStep, RenderedStep DEF RenderThread
<1>6. CASE UNCHANGED vars
  BY <1>0, <1>6, QuietDriver DEF vars, driverVars
<1> QED
  BY <1>1, <1>2, <1>3, <1>4, <1>5, <1>6 DEF Next, DriverNext, DeviceNext

\* Before the first NEW_INSTANCE is received no half is under way, and host and
\* files are at block 0.
LEMMA FlowInit == Init => Carried /\ InStep
<1> SUFFICES ASSUME Init PROVE Carried /\ InStep
  OBVIOUS
<1> USE DEF Init, LinkInit, DriverInit, DeviceInit
<1>1. Queued = {NewInstance} /\ ~Useful(NewInstance) /\ ~Signals(NewInstance)
  BY DEF Queued, NewInstance, Useful, Signals
<1>2. \A h \in Halves : ~InAnswer(h)
  BY <1>1 DEF InAnswer, RxHolds
<1>3. Carried
  BY <1>1, <1>2 DEF Carried
<1>4. \A c \in CommonChannels : Reached(c) = 0 /\ ~Rendering(c)
  BY DEF CommonChannels, Reached, Rendering, Played, Next1
<1>5. InStep
  BY <1>2, <1>4 DEF InStep
<1> QED
  BY <1>3, <1>5

\* What the halves hold agrees with what is under way in every state.
THEOREM FlowInvariance == Spec => []FInv
<1>1. IInv /\ [Next]_vars => IInv'
  BY StepKeepsIInv
<1>2. FInv /\ [Next]_vars => FInv'
  BY <1>1, FlowStep DEF FInv
<1>3. Init => FInv
  BY IInvInit, FlowInit DEF FInv
<1> QED
  BY <1>2, <1>3, PTL DEF Spec

\* A half that is rendered holds one block on all the channels that every host
\* asks for: the block of one callback, never half of the next.
THEOREM AlwaysAligned == Spec => []ChannelsAligned
<1>1. FInv => ChannelsAligned
  BY DEF FInv, Carried, ChannelsAligned
<1> QED
  BY <1>1, FlowInvariance, PTL

-----------------------------------------------------------------------------
(* The refinement of BlockPipe.                                            *)

\* The lag of a channel, computed modulo BlockMod, tells none, one and two
\* blocks apart once there are more than two numbers.
LEMMA LagOf ==
  ASSUME BlockMod > 2, NEW b \in Blocks
  PROVE  /\ (b - b) % BlockMod = 0
         /\ (Next1(b) - b) % BlockMod = 1
         /\ (Next1(Next1(b)) - b) % BlockMod = 2
<1>1. ASSUME NEW x \in 0 .. BlockMod - 1 PROVE x % BlockMod = x
  BY <1>1, Z3
<1>2. BlockMod % BlockMod = 0
  BY Z3
<1>3. ASSUME NEW x \in 1 .. BlockMod PROVE (x - BlockMod) % BlockMod = x % BlockMod
  BY <1>3, Z3
<1>4. ASSUME NEW x \in Blocks PROVE Next1(x) = IF x + 1 = BlockMod THEN 0 ELSE x + 1
  BY <1>1, <1>2 DEF Next1, Blocks, NoBlock
<1>5. b \in 0 .. BlockMod - 1 /\ Next1(b) \in Blocks
  BY NextIsBlock DEF Blocks
<1>6. (b - b) % BlockMod = 0
  <2>1. b - b = 0 /\ 0 % BlockMod = 0
    BY <1>1, <1>5
  <2> QED
    BY <2>1
<1>7. (Next1(b) - b) % BlockMod = 1
  <2>1. Next1(b) - b = 1 \/ Next1(b) - b = 1 - BlockMod
    BY <1>4, <1>5
  <2>2. 1 % BlockMod = 1 /\ (1 - BlockMod) % BlockMod = 1
    BY <1>1, <1>3
  <2> QED
    BY <2>1, <2>2
<1>8. (Next1(Next1(b)) - b) % BlockMod = 2
  <2>1. Next1(Next1(b)) - b = 2 \/ Next1(Next1(b)) - b = 2 - BlockMod
    BY <1>4, <1>5
  <2>2. 2 % BlockMod = 2 /\ (2 - BlockMod) % BlockMod = 2
    BY <1>1, <1>3
  <2> QED
    BY <2>1, <2>2
<1> QED
  BY <1>6, <1>7, <1>8

\* The host is at most two blocks ahead of a file; it is at least one ahead of
\* the file that is being written, and at most one when it is called.
LEMMA Ahead ==
  ASSUME FInv, BlockMod > 2, NEW c \in CommonChannels
  PROVE  /\ Rendering(c) => Pipe!Lag(c) \in {1, 2}
         /\ tpc = "switch" => Pipe!Lag(c) \in {0, 1}
<1>0. TypeOK /\ OnePull /\ InStep
  BY DEF FInv, IInv
<1>1. c \in Channels /\ file \in [Channels -> Blocks \cup {NoBlock}]
  BY <1>0, Common DEF TypeOK, DeviceTypeOK
<1>2. Played(c) \in Blocks
  BY <1>1, NextIsBlock DEF Played
<1>3. Pipe!Lag(c) = (filled - Played(c)) % BlockMod
  BY DEF Pipe!Lag, Played
<1>4. filled = Reached(c) \/ filled = Next1(Reached(c))
  BY <1>0 DEF InStep
<1>5. CASE Rendering(c)
  <2>1. filled = Next1(Played(c)) \/ filled = Next1(Next1(Played(c)))
    BY <1>4, <1>5 DEF Reached
  <2>2. Pipe!Lag(c) = 1 \/ Pipe!Lag(c) = 2
    BY <1>2, <1>3, <2>1, LagOf
  <2>3. tpc = "switch" => filled = Next1(Played(c))
    <3>1. tpc = "switch" => \A h \in Halves : ~InAnswer(h)
      BY <1>0, NoAnswer DEF InAnswer
    <3> QED
      BY <1>0, <1>5, <3>1 DEF InStep, Reached
  <2> QED
    BY <1>2, <1>3, <2>2, <2>3, LagOf
<1>6. CASE ~Rendering(c)
  <2>1. filled = Played(c) \/ filled = Next1(Played(c))
    BY <1>4, <1>6 DEF Reached
  <2>2. Pipe!Lag(c) = 0 \/ Pipe!Lag(c) = 1
    BY <1>2, <1>3, <2>1, LagOf
  <2> QED
    BY <1>6, <2>2
<1> QED
  BY <1>5, <1>6

\* The callback makes a block, a write to the file of a common channel plays one,
\* and nothing else is a step of the pipe.
LEMMA PipeStep ==
  ASSUME FInv, BlockMod > 2, [Next]_vars
  PROVE  [Pipe!PipeNext]_(Pipe!pipeVars)
<1> USE DEF hostVars, threadVars, driverVars, rxVars, renderVars, deviceVars, linkVars
<1>0. TypeOK /\ Lifecycle
  BY DEF FInv, IInv
<1> DEFINE played == [c \in CommonChannels |-> Next1(file[c])]
<1>a. UNCHANGED <<filled, file>> => UNCHANGED Pipe!pipeVars
  BY DEF Pipe!pipeVars
<1>1. CASE BufferSwitch /\ UNCHANGED deviceVars
  <2>1. filled' = (filled + 1) % BlockMod /\ tpc = "switch" /\ UNCHANGED file
    BY <1>0, <1>1 DEF BufferSwitch, FillHalf, Lifecycle
  <2>2. \A c \in CommonChannels : Pipe!Lag(c) < 2
    BY <2>1, Ahead
  <2> QED
    BY <2>1, <2>2 DEF Pipe!PipeNext, Pipe!Make
<1>2. CASE WriteChannel /\ UNCHANGED driverVars
  <2>1. \A c \in CommonChannels :
          /\ c # rch => Next1(file'[c]) = Next1(file[c])
          /\ c = rch => Rendering(c) /\ Next1(file'[c]) = Next1(Next1(file[c]))
    BY <1>2, WriteStep DEF Played
  <2>2. UNCHANGED filled
    BY <1>2
  <2>3. CASE rch \in CommonChannels
    <3>1. Pipe!Lag(rch) > 0
      BY <2>1, <2>3, Ahead
    <3>2. Next1(Next1(file[rch])) = (Next1(file[rch]) + 1) % BlockMod
      <4>1. Next1(file[rch]) \in Blocks
        BY <1>0, <2>3, Common, NextIsBlock DEF TypeOK, DeviceTypeOK
      <4> QED
        BY <4>1 DEF Next1, Blocks, NoBlock
    <3>3. played' = [played EXCEPT ![rch] = (@ + 1) % BlockMod]
      BY <2>1, <2>3, <3>2
    <3> QED
      BY <2>2, <2>3, <3>1, <3>3 DEF Pipe!PipeNext, Pipe!Play
  <2>4. CASE rch \notin CommonChannels
    <3>1. played' = played
      BY <2>1, <2>4
    <3> QED
      BY <2>2, <3>1 DEF Pipe!pipeVars
  <2> QED
    BY <2>3, <2>4
<1>3. CASE UNCHANGED <<filled, file>>
  BY <1>a, <1>3
<1>4. \/ BufferSwitch /\ UNCHANGED deviceVars
      \/ WriteChannel /\ UNCHANGED driverVars
      \/ UNCHANGED <<filled, file>>
  <2>1. CASE DriverNext /\ UNCHANGED deviceVars
    BY <2>1
    DEF DriverNext, HostStep, AsioThread, CreateBuffers, DisposeBuffers, Start, Stop, StopReturns,
        ReceiveWant, ThreadBegin, WakeOnStop, WakeOnBuf, SendChannel, SwitchDone, ThreadExit
  <2>2. CASE DeviceNext /\ UNCHANGED driverVars
    BY <2>2
    DEF DeviceNext, ReceiveThread, RenderThread, ReceiveNewInstance, DropPackage, ReceivePackage,
        CopyPackage, PackageDone, WakeOnReady, WakeOnNewInstance, RequestFirst, RequestNext,
        RenderDone
  <2>3. CASE UNCHANGED vars
    BY <2>3 DEF vars
  <2> QED
    BY <2>1, <2>2, <2>3 DEF Next
<1> QED
  BY <1>1, <1>2, <1>3, <1>4

\* The audio path implements the pipe: each file of a common channel gets every
\* block the host has filled, once and in order, and the host is never more than
\* a double buffer ahead.  Counting modulo BlockMod shows it from three numbers
\* on.
THEOREM ImplementsPipe == ASSUME BlockMod > 2 PROVE Spec => Pipe!PipeSafety
<1>1. Init => Pipe!PipeInit
  BY DEF Init, LinkInit, DriverInit, DeviceInit, Pipe!PipeInit, CommonChannels, Next1
<1>2. FInv /\ [Next]_vars => [Pipe!PipeNext]_(Pipe!pipeVars)
  BY PipeStep
<1> QED
  BY <1>1, <1>2, FlowInvariance, PTL DEF Spec, Pipe!PipeSafety
=============================================================================
