---------------------------- MODULE PullReconnect ----------------------------
(***************************************************************************)
(* The audio path over broken connections: AudioPull on a link that goes   *)
(* down, because it fails or because connect() is called once more, and    *)
(* comes up again.  An interface stays attached, so that the connect       *)
(* thread sends NEW_INSTANCE on every connection, whether or not the pull  *)
(* of the last one is still alive on either side.                          *)
(*                                                                         *)
(* A connection breaks between two packages or inside one, of which the    *)
(* decoder of the other side then keeps a part, since it is never reset:   *)
(* what is sent next is taken for the rest of it.  PackDecoder has this    *)
(* byte by byte; here toPD and toAS are the packages that the decoders     *)
(* will find in what is on its way.  That a connection comes up is one     *)
(* step (RenderSession has its steps).                                     *)
(***************************************************************************)
EXTENDS AudioPull

CONSTANT MaxBreaks   \* bound: connections that break

ASSUME MaxBreaksAssumption == MaxBreaks \in Nat

VARIABLES
    link,     \* "up", "down", or "new": up, and NEW_INSTANCE not yet sent
    breaks,   \* connections that have broken
    doubled,  \* a NEW_INSTANCE was sent while a pull was alive
    heldPD,   \* the package of which the device's decoder keeps a part, behind
              \* all that is in toPD
    heldAS    \* the package of which the source's decoder keeps a part

linkStateVars == <<link, breaks, doubled, heldPD, heldAS>>
reconnectVars == <<vars, linkStateVars>>

ReconnectInit ==
    /\ Init
    /\ link = "up"
    /\ breaks = 0
    /\ doubled = FALSE
    /\ heldPD = NoPackage
    /\ heldAS = NoPackage

-----------------------------------------------------------------------------
(* The connection. *)

\* A header without its rest: the decoder rejects what it is completed to and
\* searches it from the same start flag, for ever.
Stuck == [cmd |-> "STUCK"]

\* LAUDIO_ASIO_CMD_WANTDATA_BUF0 and _BUF1.
WantData(h) == [cmd |-> "WANTDATA", half |-> h]

\* What a decoder may be left with by a connection that ends inside package p:
\* a part of the header, or all of it and a part of the payload if there is one.
Cut(p) == {Stuck} \cup (IF p = NewInstance THEN {} ELSE {p})

\* _do_close, after recv failed or in connect(): what was on its way to the
\* source is lost, and the device may still receive some of what was on its way
\* to it.  Either may have got a part of the next package; a part it keeps
\* already is behind all it has received.
Break ==
    /\ link # "down"
    /\ breaks < MaxBreaks
    /\ link' = "down"
    /\ breaks' = breaks + 1
    /\ IF heldPD = NoPackage
         THEN \E n \in 0 .. Len(toPD) :
                /\ toPD' = SubSeq(toPD, 1, n)
                /\ heldPD' \in {NoPackage} \cup (IF n < Len(toPD) THEN Cut(toPD[n + 1]) ELSE {})
         ELSE UNCHANGED <<toPD, heldPD>>
    /\ toAS' = << >>
    /\ heldAS' \in {heldAS} \cup
         (IF heldAS = NoPackage /\ toAS # << >> THEN Cut(WantData(Head(toAS))) ELSE {})
    /\ UNCHANGED <<driverVars, deviceVars, doubled>>

\* The connect thread has a connection, and the device has accepted it.
Reconnect ==
    /\ link = "down"
    /\ link' = "new"
    /\ UNCHANGED <<vars, breaks, doubled, heldPD, heldAS>>

-----------------------------------------------------------------------------
(* What does not reach the other side. *)

\* What may be left of package p when its first bytes have completed another:
\* there may be a start flag among its samples, whose header is rejected.
Rest(p) == {NoPackage} \cup (IF p = NewInstance THEN {} ELSE {Stuck})

\* Package p is sent without a connection, or to a device whose decoder keeps a
\* part of another.  That one goes on waiting, or is complete with the first bytes
\* of p for its last samples; a byte of its channel or its count that was
\* missing makes it one the device drops.
LostToPD(p) ==
    \/ (link = "down" \/ heldPD # NoPackage) /\ UNCHANGED <<toPD, heldPD>>
    \/ /\ link # "down"
       /\ heldPD \notin {NoPackage, Stuck}
       /\ heldPD' \in Rest(p)
       /\ UNCHANGED toPD \/ SendToPD(heldPD)

\* A request is sent without a connection, or to a source whose decoder keeps a
\* part of another: the WANTDATA packages are of one length and hold no second
\* start flag, so it completes that one.
LostToAS ==
    \/ (link = "down" \/ heldAS = Stuck) /\ UNCHANGED <<toAS, heldAS>>
    \/ /\ link # "down"
       /\ heldAS \notin {NoPackage, Stuck}
       /\ heldAS' = NoPackage
       /\ SendToAS(heldAS.half)

SendLost ==
    /\ tpc = "send"
    /\ idx < active
    /\ idx' = idx + 1
    /\ LostToPD(PCMData(toggle, idx, active, hostBuf[toggle]))
    /\ UNCHANGED <<hostVars, evBuf, started, tpc, toggle, hostBuf, filled>>
    /\ UNCHANGED <<deviceVars, toAS, link, breaks, doubled, heldAS>>

RequestLost ==
    /\ rpc \in {"new", "request"}
    /\ rpc' = IF rpc = "new" THEN "wait" ELSE "render"
    /\ LostToAS
    /\ UNCHANGED <<rxVars, ready, newInst, rhalf, rch, file>>
    /\ UNCHANGED <<driverVars, toPD, link, breaks, doubled, heldPD>>

-----------------------------------------------------------------------------
(* NEW_INSTANCE. *)

\* A mutation of Announce: setASIOInterface's thread sends NEW_INSTANCE as well.
AnnounceTwice ==
    /\ link = "new"
    /\ IF heldPD = NoPackage
         THEN toPD' = toPD \o <<NewInstance, NewInstance>> /\ UNCHANGED heldPD
         ELSE LostToPD(NewInstance)
    /\ link' = "up"
    /\ doubled' = (doubled \/ TokenCount # 0)
    /\ UNCHANGED <<driverVars, deviceVars, toAS, breaks, heldAS>>

\* A mutation of Announce: the first connection alone is announced.
AnnounceNothing ==
    /\ link = "new"
    /\ link' = "up"
    /\ UNCHANGED <<vars, breaks, doubled, heldPD, heldAS>>

\* _on_connected sends NEW_INSTANCE, without a look at what is under way.
Announce ==
    /\ link = "new"
    /\ IF heldPD = NoPackage
         THEN SendToPD(NewInstance) /\ UNCHANGED heldPD
         ELSE LostToPD(NewInstance)
    /\ link' = "up"
    /\ doubled' = (doubled \/ TokenCount # 0)
    /\ UNCHANGED <<driverVars, deviceVars, toAS, breaks, heldAS>>

-----------------------------------------------------------------------------

\* A step of the audio path, which sends nothing while there is no connection or
\* a decoder keeps a part.
Plays(A) ==
    /\ A
    /\ link = "down" \/ heldPD # NoPackage => Len(toPD') <= Len(toPD)
    /\ link = "down" \/ heldAS # NoPackage => Len(toAS') <= Len(toAS)
    /\ UNCHANGED linkStateVars

ReconnectNext ==
    \/ Plays(Next) \/ SendLost \/ RequestLost
    \/ Break \/ Reconnect \/ Announce

\* Fairness of AudioPull, with the packages that are lost, and of the connect
\* thread.
ReconnectFairness ==
    /\ WF_reconnectVars(Plays(AsioThread /\ UNCHANGED deviceVars) \/ SendLost)
    /\ WF_reconnectVars(Plays(ReceiveWant /\ UNCHANGED deviceVars))
    /\ WF_reconnectVars(Plays(StopReturns /\ UNCHANGED deviceVars))
    /\ WF_reconnectVars(Plays(ReceiveThread /\ UNCHANGED driverVars))
    /\ WF_reconnectVars(Plays(RenderThread /\ UNCHANGED driverVars) \/ RequestLost)
    /\ WF_reconnectVars(Reconnect \/ Announce)

ReconnectSpec == ReconnectInit /\ [][ReconnectNext]_reconnectVars /\ ReconnectFairness

-----------------------------------------------------------------------------

\* One pull at a time, and no half is written while it is rendered, unless
\* NEW_INSTANCE was sent while a pull had outlived its connection: whichever
\* packages of an answer are lost with the connection or cut by its end.
OnePullUnlessDoubled == ~doubled => TokenCount <= 1 /\ NoTornRender

\* No decoder keeps a part of a package: none has come to the end of a
\* connection that ended inside a package.
Whole == heldPD = NoPackage /\ heldAS = NoPackage

\* With the driver started and a connection that stays, the device goes on
\* rendering, whichever packages were lost with the connections before it: as
\* long as none of those ended inside a package, after which a decoder that is
\* never reset may swallow the NEW_INSTANCE or the request.
PullSurvives ==
    /\ []Whole
    /\ <>[](host = "running" /\ link = "up")
    => []<>(rpc = "render") /\ []<>(rpc # "render")
=============================================================================
