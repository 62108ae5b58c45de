------------------------------ MODULE RingCache -------------------------------
(***************************************************************************)
(* dk_ring_cache: a queue of bytes in a buffer of fixed size whose end is  *)
(* followed by its beginning.  Every call does its work under the lock of  *)
(* the cache, so that a call is one step whatever thread makes it.         *)
(*                                                                         *)
(* The code adds positions and lengths before it takes the remainder, as   *)
(* unsigned ints: the model is that of a buffer of less than 2 GB.         *)
(***************************************************************************)
EXTENDS Naturals, Sequences

CONSTANTS
    Size,     \* m_uSizeBuf
    Bytes,    \* the values of a byte
    Data,     \* the buffers pushback is called with
    Lengths   \* the lengths popfront, copyback and flush are called with

ASSUME SizeAssumption == Size \in Nat \ {0}
ASSUME BytesAssumption == Bytes # {}
ASSUME DataAssumption == Data \subseteq Seq(Bytes) \ {<< >>}
ASSUME LengthsAssumption == Lengths \subseteq Nat

VARIABLES
    buf,      \* m_pBuf
    start,    \* m_uPosStart
    len,      \* m_uLenData
    call,     \* the last call: its name, the bytes and the number it was given
    out       \* what it has copied to its caller's buffer

vars == <<buf, start, len, call, out>>

Call(op, data, n) == [op |-> op, data |-> data, n |-> n]

Positions == 0 .. Size - 1

TypeOK ==
    /\ buf \in [Positions -> Bytes]
    /\ start \in Positions
    /\ len \in 0 .. Size
    /\ call \in [op : {"create", "pushback", "popfront", "copyback", "flush", "reset"},
                data : Data \cup {<< >>}, n : Lengths \cup {0}]
    /\ out \in Seq(Bytes)

\* dk_ring_create; malloc leaves the bytes as they are.
Init ==
    /\ buf \in [Positions -> Bytes]
    /\ start = 0
    /\ len = 0
    /\ call = Call("create", << >>, 0)
    /\ out = << >>

-----------------------------------------------------------------------------
(* The two copies of a range of n bytes that begins at position at. *)

\* How much of it lies before the end of the buffer: uSeg1, or all of it.
Segment(at, n) == IF at + n <= Size THEN n ELSE Size - at

\* A mutation of Written: the second copy takes the bytes of the first again.
WrittenTwice(at, data) ==
    [p \in Positions |->
        IF p < Len(data) - Segment(at, Len(data)) THEN data[p + 1]
        ELSE IF p >= at /\ p - at < Segment(at, Len(data)) THEN data[p - at + 1]
        ELSE buf[p]]

\* The buffer after data is copied there; the second copy comes last.
Written(at, data) ==
    [p \in Positions |->
        IF p < Len(data) - Segment(at, Len(data)) THEN data[Segment(at, Len(data)) + p + 1]
        ELSE IF p >= at /\ p - at < Segment(at, Len(data)) THEN data[p - at + 1]
        ELSE buf[p]]

\* The first n bytes of the queue, copied out.
Read(n) ==
    [i \in 1 .. n |->
        IF i <= Segment(start, n) THEN buf[start + i - 1]
        ELSE buf[i - Segment(start, n) - 1]]

\* min( a, b )
Smaller(a, b) == IF a < b THEN a ELSE b

\* _dk_ring_flush: start and length once all but the newest keep bytes are gone.
Flushed(keep) ==
    IF keep >= Size \/ keep >= len THEN [start |-> start, len |-> len]
    ELSE IF keep = 0 THEN [start |-> 0, len |-> 0]
    ELSE [start |-> (start + (len - keep)) % Size, len |-> keep]

\* A mutation of MadeRoom: a buffer that is exactly full counts as full.
MadeRoomLate(n) ==
    IF len + n > Size + 1 THEN Flushed(Size - n) ELSE [start |-> start, len |-> len]

\* Start and length once there is room for n bytes more.
MadeRoom(n) ==
    IF len + n > Size THEN Flushed(Size - n) ELSE [start |-> start, len |-> len]

-----------------------------------------------------------------------------

\* dk_ring_pushback of more than the buffer holds: the end of it is kept.
PushAll(data) ==
    /\ Len(data) > Size
    /\ buf' = [p \in Positions |-> data[Len(data) - Size + p + 1]]
    /\ start' = 0
    /\ len' = Size
    /\ out' = << >>

\* dk_ring_pushback of what fits, once the oldest bytes have made room.
PushFitting(data) ==
    /\ Len(data) <= Size
    /\ LET room == MadeRoom(Len(data))
       IN  /\ buf' = Written((room.start + room.len) % Size, data)
           /\ start' = room.start
           /\ len' = room.len + Len(data)
    /\ out' = << >>

Pushback(data) ==
    /\ call' = Call("pushback", data, 0)
    /\ PushAll(data) \/ PushFitting(data)

\* dk_ring_popfront, which answers nothing if nothing is asked for.
Popfront(n) ==
    LET copied == Smaller(n, len)
    IN  /\ call' = Call("popfront", << >>, n)
        /\ out' = Read(copied)
        /\ start' = IF start + copied <= Size THEN (start + copied) % Size
                    ELSE (copied - Segment(start, copied)) % Size
        /\ len' = len - copied
        /\ UNCHANGED buf

\* dk_ring_copyback
Copyback(n) ==
    /\ call' = Call("copyback", << >>, n)
    /\ out' = Read(Smaller(n, len))
    /\ UNCHANGED <<buf, start, len>>

\* dk_ring_flush
Flush(keep) ==
    /\ call' = Call("flush", << >>, keep)
    /\ start' = Flushed(keep).start
    /\ len' = Flushed(keep).len
    /\ out' = << >>
    /\ UNCHANGED buf

\* dk_ring_reset
Reset ==
    /\ call' = Call("reset", << >>, 0)
    /\ start' = 0
    /\ len' = 0
    /\ out' = << >>
    /\ UNCHANGED buf

Next ==
    \/ \E data \in Data : Pushback(data)
    \/ \E n \in Lengths : Popfront(n) \/ Copyback(n) \/ Flush(n)
    \/ Reset

Spec == Init /\ [][Next]_vars

-----------------------------------------------------------------------------

\* Both copies of n bytes at position at stay in the buffer.
Fits(at, n) ==
    /\ at + Segment(at, n) <= Size
    /\ n - Segment(at, n) \in 0 .. at

\* The assertion in dk_ring_pushback, and what it is there for: whatever is
\* pushed or popped next, the flush has made enough room, and no copy begins or
\* ends outside the buffer or overwrites what another copy has just written.
CopiesFit ==
    /\ \A data \in Data :
          LET room == MadeRoom(Len(data))
          IN  Len(data) <= Size =>
                /\ room.len + Len(data) <= Size
                /\ Fits((room.start + room.len) % Size, Len(data))
    /\ \A n \in Lengths : Fits(start, Smaller(n, len))

\* The n bytes of the buffer b from position at on.
BytesFrom(b, at, n) == [i \in 1 .. n |-> b[(at + i - 1) % Size]]

\* The bytes of the queue, the oldest one first.
Contents == BytesFrom(buf, start, len)

\* The cache is a queue of at most Size bytes: nothing is lost but the oldest
\* bytes, and only when the buffer is full; nothing is answered out of order.
Fifo == INSTANCE BoundedFifo WITH queue <- Contents

AsFifo == Fifo!FifoSpec
=============================================================================
