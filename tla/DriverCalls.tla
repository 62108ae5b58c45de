---------------------------- MODULE DriverCalls -----------------------------
(***************************************************************************)
(* The calls of the ASIO interface that AsioDriver and DriverLifetime      *)
(* leave out: how DKASIOUser prepares its buffers, tells the time and the  *)
(* position, and reports a change of the sample rate or of the clock       *)
(* source, while its ASIO thread is in _bufferSwitch.                      *)
(*                                                                         *)
(* One object.  The host calls from one thread, in the order of the ASIO   *)
(* state machine, and starts the object again only after stop() has        *)
(* returned.  stop() gives up waiting when the host's own callback lasts   *)
(* longer than it waits.  Time and position are counted in switches since  *)
(* start(); a memory request may fail whenever one is made.                *)
(***************************************************************************)
EXTENDS Naturals, Sequences, FiniteSets, Functions

CONSTANTS
    Channels,    \* channel numbers below MAX_IN_CHANNELS, MAX_OUT_CHANNELS
    BadChannel,  \* a channel number the driver does not have
    Requests,    \* the lists of infos that createBuffers is called with
    Memory,      \* the blocks of memory that new returns
    Rates,       \* the rates setSampleRate accepts
    PosMod,      \* 2^32 / m_uBlockFrame: after so many switches m_uPosSample wraps
    MaxSwitches  \* bound: switches after one start()

Directions == {"in", "out"}
Changes == {"rate", "clock"}   \* kSampleRateChanged, kClockSourceChanged
Infos == [dir : Directions, channel : Channels \cup {BadChannel}]

\* What the constants have to be.
ASSUME CallsAssumption ==
    /\ BadChannel \notin Channels
    /\ \A infos \in Requests : infos \in Seq(Infos)
    /\ MaxSwitches \in Nat
    /\ PosMod \in Nat \ {0}

VARIABLES
    host,      \* "loaded", "prepared", "running": what the host has been told
    call,      \* the call the host's thread is in, and how far it is
    infoMode,  \* DKASIOUSER_FLAG_TIMEINFOMODE
    started,   \* DKASIOUSER_FLAG_STARTED
    table,     \* table[d]: m_inMap or m_outMap with m_aryBufInput or m_aryBufOutput,
               \* its entries by the places of their infos in the host's list
    heap,      \* the memory that is allocated
    answer,    \* what the last createBuffers answered, and what it was asked for
    rate,      \* m_sampleRateCur
    info,      \* m_asioTime.timeInfo: rate, flags that tell a change, time, position
    seen,      \* seen[x]: the flags as the host's or the ASIO thread has read them
    time,      \* m_sysTime: the switch its two words are of
    pos,       \* m_uPosSample in blocks
    switch,    \* the switch the ASIO thread is at
    phase,     \* the ASIO thread in _bufferSwitch, "none" when there is none
    words,     \* the words of the time getSamplePosition has read
    untold,    \* the changes no callback has told
    dropped,   \* those that were so when createBuffers set the flags anew
    raced      \* those made after the callback was told; "late", "switch"

bufferVars == <<table, heap, answer>>
clockVars == <<time, pos, switch>>
tellVars == <<rate, info, seen, untold, dropped, raced>>
driverVars == <<host, call, infoMode, started, bufferVars, tellVars, clockVars, phase, words>>

Words == {"hi", "lo"}
Callbacks == {"plain", "info"}   \* bufferSwitch, bufferSwitchTimeInfo
NothingRead == [w \in Words |-> 0]
EmptyTable == [d \in Directions |-> << >>]

\* The constructor does not initialise m_asioTime.
CallsInit ==
    /\ host = "loaded"
    /\ call = "none"
    /\ infoMode = FALSE
    /\ started = FALSE
    /\ table = EmptyTable
    /\ heap = {}
    /\ answer = [asked |-> 0, error |-> "none"]
    /\ rate \in Rates
    /\ info \in [rate : Rates, flags : SUBSET Changes, time : {0}, pos : {0}]
    /\ seen = [x \in {"host", "thread"} |-> {}]
    /\ time = [w \in Words |-> 0]
    /\ pos = 0
    /\ switch = 0
    /\ phase = "none"
    /\ words = NothingRead
    /\ untold = {}
    /\ dropped = {}
    /\ raced = {}

-----------------------------------------------------------------------------
(* createBuffers and disposeBuffers. *)

MemoryOf(t) == {e.memory : e \in Range(t["in"]) \cup Range(t["out"])}

\* The places of the infos of direction d.
Dir(d, infos) == {k \in DOMAIN infos : infos[k].dir = d}

\* The infos before the first that the driver refuses: a channel it does not
\* have, or one more than the table holds.
Accepted(infos) ==
    LET n == Cardinality(Channels)
        fits(k) == /\ infos[k].channel \in Channels
                   /\ Cardinality(Dir(infos[k].dir, SubSeq(infos, 1, k - 1))) < n
    IN  SubSeq(infos, 1, Cardinality({k \in DOMAIN infos : \A j \in 1..k : fits(j)}))

\* A mutation of Cleared: the table is forgotten and its memory kept.
Unfreed(memory, t) == memory

\* _clearAllBuf frees what the table has.
Cleared(memory, t) == memory \ MemoryOf(t)

Entries(infos, d, blocks) ==
    [k \in Dir(d, infos) |-> [channel |-> infos[k].channel, memory |-> blocks[k]]]

\* The table createBuffers leaves: nothing when it refuses an info, what it
\* has got so far when new throws, since ret is still ASE_OK then.
Prepared(infos, accepted, got, blocks) ==
    IF got = accepted /\ accepted # infos
      THEN EmptyTable
      ELSE [d \in Directions |-> Entries(got, d, blocks)]

\* ret, ASE_InvalidParameter for a refusal, is not what the call returns.  With
\* time info m_asioTime is set anew: it keeps the rate, and no change is flagged.
CreateBuffers(infos, timeInfo) ==
    /\ host = "loaded"
    /\ call = "none"
    /\ LET free     == Cleared(heap, table)
           accepted == Accepted(infos)
       IN  \E n \in 0..Len(accepted) :
           \E blocks \in [1..n -> Memory \ free] :
               LET got == SubSeq(accepted, 1, n)
                   new == Prepared(infos, accepted, got, blocks)
               IN  /\ IsInjective(blocks)
                   /\ table' = new
                   /\ heap' = free \cup MemoryOf(new)
                   /\ answer' = [asked |-> Len(infos), error |-> IF n = Len(accepted) THEN "ok" ELSE "thrown"]
                   /\ host' = IF n = Len(accepted) THEN "prepared" ELSE host
    /\ infoMode' = timeInfo
    /\ IF timeInfo
         THEN /\ info' = [rate |-> rate, flags |-> {}, time |-> 0, pos |-> 0]
              /\ dropped' = dropped \cup untold
              /\ raced' = raced \ untold
         ELSE UNCHANGED <<info, dropped, raced>>
    /\ UNCHANGED <<call, started, rate, seen, untold, clockVars, phase, words>>

DisposeBuffers ==
    /\ host = "prepared"
    /\ call = "none"
    /\ heap' = Cleared(heap, table)
    /\ table' = EmptyTable
    /\ host' = "loaded"
    /\ answer' = [asked |-> 0, error |-> "none"]
    /\ UNCHANGED <<call, infoMode, started, tellVars, clockVars, phase, words>>

-----------------------------------------------------------------------------
(* start, stop, and the calls that read or change the clock. *)

\* What start() and the thread it creates do to an object that is not started.
ThreadBegins ==
    /\ time' = [w \in Words |-> 0]
    /\ pos' = 0
    /\ switch' = 0
    /\ started' = TRUE
    /\ phase' = "wait"
    /\ raced' = raced \ {"late"}

Start ==
    /\ host = "prepared"
    /\ call = "none"
    /\ host' = "running"
    /\ IF started THEN UNCHANGED <<started, phase, clockVars, raced>> ELSE ThreadBegins
    /\ UNCHANGED <<call, infoMode, bufferVars, rate, info, seen, untold, dropped, words>>

Stop ==
    /\ host = "running"
    /\ call = "none"
    /\ call' = "stop"
    /\ UNCHANGED <<host, infoMode, started, bufferVars, tellVars, clockVars, phase, words>>

\* The thread has ended, or is in a callback that has lasted too long.
StopReturns ==
    /\ call = "stop"
    /\ phase \in {"none"} \cup Callbacks
    /\ call' = "none"
    /\ host' = "prepared"
    /\ raced' = IF phase = "none" THEN raced ELSE raced \cup {"late"}
    /\ UNCHANGED <<infoMode, started, bufferVars, rate, info, seen, untold, dropped, clockVars, phase, words>>

\* setSampleRate, for a rate that is accepted and not the current one.
SetSampleRate(r) ==
    /\ call = "none"
    /\ r # rate
    /\ rate' = r
    /\ call' = "rate"
    /\ UNCHANGED <<host, infoMode, started, bufferVars, info, seen, untold, dropped, raced, clockVars, phase, words>>

\* setClockSource, for the one source there is.
SetClockSource ==
    /\ call = "none"
    /\ call' = "clock"
    /\ UNCHANGED <<host, infoMode, started, bufferVars, tellVars, clockVars, phase, words>>

\* m_asioTime has the new rate; flags |= change begins with a read.
FlagsRead ==
    /\ call \in Changes
    /\ call' = IF call = "rate" THEN "rate flagged" ELSE "clock flagged"
    /\ info' = [info EXCEPT !.rate = IF call = "rate" THEN rate ELSE @]
    /\ seen' = [seen EXCEPT !["host"] = info.flags]
    /\ UNCHANGED <<host, infoMode, started, bufferVars, rate, untold, dropped, raced, clockVars, phase, words>>

\* A change written between the callback and the clearing of the flags is
\* cleared without having been told.
FlagsWritten(change) ==
    /\ call = IF change = "rate" THEN "rate flagged" ELSE "clock flagged"
    /\ call' = "none"
    /\ info' = [info EXCEPT !.flags = seen["host"] \cup {change}]
    /\ seen' = [seen EXCEPT !["host"] = {}]
    /\ untold' = untold \cup {change}
    /\ dropped' = dropped \ {change}
    /\ raced' = IF phase \in {"info", "clear", "cleared"} THEN raced \cup {change} ELSE raced \ {change}
    /\ UNCHANGED <<host, infoMode, started, bufferVars, rate, clockVars, phase, words>>

\* getSamplePosition on the host's thread: the two words of the time, then the
\* position, which is read on return.  A switch under way may have written some.
PositionBegins ==
    /\ call = "none"
    /\ call' = "position"
    /\ words' = [NothingRead EXCEPT !["hi"] = time["hi"]]
    /\ raced' = IF phase \in {"low", "position"} THEN raced \cup {"switch"} ELSE raced
    /\ UNCHANGED <<host, infoMode, started, bufferVars, rate, info, seen, untold, dropped, clockVars, phase>>

PositionGoesOn ==
    /\ call = "position"
    /\ call' = "low"
    /\ words' = [words EXCEPT !["lo"] = time["lo"]]
    /\ UNCHANGED <<host, infoMode, started, bufferVars, tellVars, clockVars, phase>>

PositionReturns ==
    /\ call = "low"
    /\ call' = "none"
    /\ words' = NothingRead
    /\ raced' = raced \ {"switch"}
    /\ UNCHANGED <<host, infoMode, started, bufferVars, rate, info, seen, untold, dropped, clockVars, phase>>

-----------------------------------------------------------------------------
(* _bufferSwitch and _bufferSwitchTimeInfo, on the ASIO thread.            *)

\* m_hEventStop: set by stop(), reset by the start() that creates a thread.
StopSet == host # "running" \/ call = "stop" \/ "late" \in raced

ThreadGoes(from, to) == phase = from /\ phase' = to

ThreadEnds ==
    /\ StopSet
    /\ ThreadGoes("wait", "none")
    /\ started' = FALSE
    /\ UNCHANGED <<host, call, infoMode, bufferVars, tellVars, clockVars, words>>

\* A block is wanted; getMMETimeStamp writes the high word of m_sysTime.
Wakes ==
    /\ ~StopSet
    /\ switch < MaxSwitches
    /\ ThreadGoes("wait", "low")
    /\ switch' = switch + 1
    /\ time' = [time EXCEPT !["hi"] = switch + 1]
    /\ raced' = IF call \in {"position", "low"} THEN raced \cup {"switch"} ELSE raced
    /\ UNCHANGED <<host, call, infoMode, started, bufferVars, rate, info, seen, untold, dropped, pos, words>>

StampsLow ==
    /\ ThreadGoes("low", "position")
    /\ time' = [time EXCEPT !["lo"] = switch]
    /\ UNCHANGED <<host, call, infoMode, started, bufferVars, tellVars, pos, switch, words>>

\* The host is called.  bufferSwitchTimeInfo gets m_asioTime with the position
\* and the time, and with it every change that is flagged.
TellsHost(position) ==
    IF infoMode
      THEN /\ phase' = "info"
           /\ info' = [info EXCEPT !.time = time["lo"], !.pos = position]
           /\ untold' = untold \ info.flags
           /\ raced' = raced \ info.flags
      ELSE /\ phase' = "plain"
           /\ UNCHANGED <<info, untold, raced>>

\* A mutation of Advances: the host is told the position of the last block.
AdvancesLater ==
    /\ phase = "position"
    /\ pos' = (pos + 1) % PosMod
    /\ TellsHost(pos)
    /\ UNCHANGED <<host, call, infoMode, started, bufferVars, rate, seen, dropped, time, switch, words>>

\* m_uPosSample += m_uBlockFrame, in 32 bits, before the host is called.
Advances ==
    /\ phase = "position"
    /\ pos' = (pos + 1) % PosMod
    /\ TellsHost(pos')
    /\ UNCHANGED <<host, call, infoMode, started, bufferVars, rate, seen, dropped, time, switch, words>>

\* A mutation of CallbackReturns: the flags are cleared in either mode.
CallbackReturnsClearing ==
    /\ phase \in Callbacks
    /\ phase' = "clear"
    /\ UNCHANGED <<host, call, infoMode, started, bufferVars, tellVars, clockVars, words>>

CallbackReturns ==
    /\ phase \in Callbacks
    /\ phase' = IF phase = "info" THEN "clear" ELSE "send"
    /\ UNCHANGED <<host, call, infoMode, started, bufferVars, tellVars, clockVars, words>>

\* flags &= ~(kSampleRateChanged | kClockSourceChanged): read, then written.
ClearReads ==
    /\ ThreadGoes("clear", "cleared")
    /\ seen' = [seen EXCEPT !["thread"] = info.flags]
    /\ UNCHANGED <<host, call, infoMode, started, bufferVars, rate, info, untold, dropped, raced, clockVars, words>>

ClearWrites ==
    /\ ThreadGoes("cleared", "send")
    /\ info' = [info EXCEPT !.flags = seen["thread"] \ Changes]
    /\ seen' = [seen EXCEPT !["thread"] = {}]
    /\ UNCHANGED <<host, call, infoMode, started, bufferVars, rate, untold, dropped, raced, clockVars, words>>

\* Every active output has been sent (AsioDriver).
Sent ==
    /\ ThreadGoes("send", "wait")
    /\ UNCHANGED <<host, call, infoMode, started, bufferVars, tellVars, clockVars, words>>

-----------------------------------------------------------------------------

HostCalls ==
    \/ \E infos \in Requests, timeInfo \in BOOLEAN : CreateBuffers(infos, timeInfo)
    \/ DisposeBuffers \/ Start \/ Stop
    \/ \E r \in Rates : SetSampleRate(r)
    \/ SetClockSource \/ PositionBegins

CallGoesOn ==
    \/ StopReturns \/ FlagsRead
    \/ \E change \in Changes : FlagsWritten(change)
    \/ PositionGoesOn \/ PositionReturns

AsioThread ==
    \/ ThreadEnds \/ Wakes \/ StampsLow \/ Advances
    \/ CallbackReturns \/ ClearReads \/ ClearWrites \/ Sent

CallsNext == HostCalls \/ CallGoesOn \/ AsioThread
CallsSpec == CallsInit /\ [][CallsNext]_driverVars

-----------------------------------------------------------------------------

Entry == [channel : Channels, memory : Memory]

CallsTypeOK ==
    /\ host \in {"loaded", "prepared", "running"}
    /\ call \in {"none", "stop", "rate", "clock", "rate flagged", "clock flagged", "position", "low"}
    /\ infoMode \in BOOLEAN
    /\ started \in BOOLEAN
    /\ DOMAIN table = Directions
    /\ \A d \in Directions : table[d] \in [DOMAIN table[d] -> Entry]
    /\ heap \in SUBSET Memory
    /\ answer \in [asked : Nat, error : {"none", "ok", "thrown"}]
    /\ rate \in Rates
    /\ info \in [rate : Rates, flags : SUBSET Changes, time : 0..MaxSwitches, pos : 0..PosMod - 1]
    /\ seen \in [{"host", "thread"} -> SUBSET Changes]
    /\ time \in [Words -> 0..MaxSwitches]
    /\ pos \in 0..PosMod - 1
    /\ switch \in 0..MaxSwitches
    /\ phase \in {"none", "wait", "low", "position", "clear", "cleared", "send"} \cup Callbacks
    /\ words \in [Words -> 0..MaxSwitches]
    /\ untold \in SUBSET Changes
    /\ dropped \in SUBSET Changes
    /\ raced \in SUBSET (Changes \cup {"late", "switch"})

Count == Cardinality(DOMAIN table["in"]) + Cardinality(DOMAIN table["out"])

\* Every block of memory that is allocated is the buffer of one active channel
\* and no two channels share one: no series of createBuffers calls, refused,
\* thrown out of or repeated, and disposeBuffers calls loses or frees one twice.
\* createBuffers that returns has prepared every channel or none.
EveryBufferOnce ==
    /\ CallsTypeOK
    /\ heap = MemoryOf(table) /\ Cardinality(heap) = Count
    /\ answer.error = "ok" => Count \in {0, answer.asked}

\* The host's callback finds the position and the time of its own block, and
\* bufferSwitchTimeInfo is passed these and the current rate, unless the host
\* prepares the driver again while a callback of the last run has not returned.
\* The position and time that getSamplePosition returns to the host's thread
\* are of one block, unless the ASIO thread began a switch during the call.
TimeOfItsBlock ==
    /\ phase \in Callbacks =>
          pos = switch % PosMod /\ \A w \in Words : time[w] = switch
    /\ phase = "info" /\ "late" \notin raced =>
          info.time = switch /\ info.pos = pos /\ (call # "rate" => info.rate = rate)
    /\ call = "low" /\ "switch" \notin raced =>
          words["hi"] = words["lo"] /\ pos = words["hi"] % PosMod

\* A change of the rate or the clock source stays flagged until a callback
\* with time info tells it, unless it was made during such a callback or the
\* host calls createBuffers first, which sets the flags anew: such a change is
\* told by the rate alone, a change of the clock source not at all.
ChangeIsTold == untold \subseteq info.flags \cup raced \cup dropped
=============================================================================
