------------------------------ MODULE BlockCache ------------------------------
(***************************************************************************)
(* dk_block_cache: a queue of blocks in a buffer of fixed size whose end   *)
(* is followed by its beginning, each block behind a number of             *)
(* LEN_BLOCK_SIZE bytes that says how long it is.  A number, like a block, *)
(* may begin at the end of the buffer and go on at its beginning.  Every   *)
(* call does its work under the lock of the cache.                         *)
(*                                                                         *)
(* Blocks are not empty: of an empty one the code writes no number.  The   *)
(* sums of the code do not overflow: the buffer has less than 2 GB.        *)
(***************************************************************************)
EXTENDS Integers, Sequences

CONSTANTS
    Size,     \* m_uSizeBufCache
    Header,   \* LEN_BLOCK_SIZE
    Bytes,    \* the values of a byte
    Longs,    \* the numbers that have LEN_BLOCK_SIZE bytes
    Memory,   \* the bytes of each of them, in the order the machine has
    Data,     \* the blocks pushback is called with
    Lengths   \* the lengths pop1stblock is called with

\* What the constants have to be; the module that instantiates this one assumes it.
BlockAssumption ==
    /\ Size \in Nat \ {0} /\ Header \in Nat \ {0}
    /\ 0 .. Size \subseteq Longs /\ Longs \subseteq Nat
    /\ Memory \in [Longs -> [1 .. Header -> Bytes]]
    /\ \A m, n \in Longs : Memory[m] = Memory[n] => m = n
    /\ Data \subseteq Seq(Bytes) \ {<< >>}
    /\ Lengths \subseteq Nat \ {0}

VARIABLES
    buf,      \* m_pBufCache
    start,    \* m_uPosStart
    len,      \* m_uLenData
    call,     \* the last call: its name, the block and the length it was given
    out,      \* what it has copied to its caller's buffer
    answer    \* what it has returned

vars == <<buf, start, len, call, out, answer>>

Positions == 0 .. Size - 1

TypeOK ==
    /\ buf \in [Positions -> Bytes]
    /\ start \in Positions
    /\ len \in 0 .. Size
    /\ out \in Seq(Bytes)
    /\ answer \in -1 .. Size

\* dk_block_create; malloc leaves the bytes as they are.
Init ==
    /\ buf \in [Positions -> Bytes]
    /\ start = 0
    /\ len = 0
    /\ call = [op |-> "create", data |-> << >>, n |-> 0]
    /\ out = << >>
    /\ answer = 0

-----------------------------------------------------------------------------

\* How much of n bytes at position at lies before the end of the buffer.
Segment(at, n) == IF at + n <= Size THEN n ELSE Size - at

\* The buffer b after data is copied to position at.
Written(b, at, data) ==
    [p \in Positions |->
        IF p < Len(data) - Segment(at, Len(data)) THEN data[Segment(at, Len(data)) + p + 1]
        ELSE IF p >= at /\ p - at < Segment(at, Len(data)) THEN data[p - at + 1]
        ELSE b[p]]

\* n bytes of the buffer b, the first of them at position at, the others copied
\* from position first on as far as the buffer goes.
Copied(b, at, first, n) ==
    [i \in 1 .. n |->
        IF i <= Segment(at, n) THEN b[first + i - 1] ELSE b[i - Segment(at, n) - 1]]

\* The number that some bytes of the memory are: it has been copied there byte by byte.
NumberOf(bytes) == CHOOSE n \in Longs : Memory[n] = bytes

\* _dk_block_get_int32
NumberAt(at) == NumberOf(Copied(buf, at, at, Header))

\* Start and length without the first block: what _dk_block_flush_1stblock and
\* _dk_block_pop_1stblock leave.
WithoutFirst(from, l) ==
    LET cost == Header + NumberAt(from)
    IN  [start |-> IF l = cost THEN 0 ELSE (from + cost) % Size, len |-> l - cost]

\* Start and length after k rounds of the loop of dk_block_pushback.
Rest[k \in 0 .. Size] ==
    IF k = 0 THEN [start |-> start, len |-> len]
    ELSE LET before == Rest[k - 1] IN WithoutFirst(before.start, before.len)

\* How many rounds leave no more than l bytes; every round takes a byte at least.
Rounds(l) ==
    CHOOSE k \in 0 .. Size : Rest[k].len <= l /\ \A j \in 0 .. k - 1 : Rest[j].len > l

\* The loop of dk_block_pushback.
MadeRoom(n) == Rest[Rounds(Size - n)]

\* A mutation of PushNewBlock: the number is written over the first block.
PushNewBlockAtStart(from, tail, block) ==
    Written(Written(buf, from, Memory[Len(block)]), (tail + Header) % Size, block)

\* _dk_block_push_newblock and _dk_block_push_int32, at the end of the queue.
PushNewBlock(from, tail, block) ==
    Written(Written(buf, tail, Memory[Len(block)]), (tail + Header) % Size, block)

\* Where the first block begins, behind its number.
FirstBlock == (start + Header) % Size

\* Where the first copy of _dk_block_pop_1stblock begins: a block that comes
\* in two pieces is taken from a position that is not reduced.
FirstCopy(n) == IF FirstBlock + n <= Size THEN FirstBlock ELSE start + Header

-----------------------------------------------------------------------------

\* dk_block_pushback
Pushback(block) ==
    LET cost == Len(block) + Header
    IN  /\ call' = [op |-> "pushback", data |-> block, n |-> 0]
        /\ IF cost > Size
             THEN answer' = -1 /\ UNCHANGED <<buf, start, len>>
             ELSE LET room == MadeRoom(cost)
                  IN  /\ buf' = PushNewBlock(room.start, (room.start + room.len) % Size, block)
                      /\ start' = room.start
                      /\ len' = room.len + cost
                      /\ answer' = 0
        /\ out' = << >>

\* dk_block_pop1stblock
Pop1stBlock(n) ==
    LET size == NumberAt(start)
    IN  /\ call' = [op |-> "pop1stblock", data |-> << >>, n |-> n]
        /\ IF len = 0 \/ size = 0 \/ size > n
             THEN out' = << >> /\ answer' = 0 /\ UNCHANGED <<start, len>>
             ELSE /\ out' = Copied(buf, FirstBlock, FirstCopy(size), size)
                  /\ start' = WithoutFirst(start, len).start
                  /\ len' = WithoutFirst(start, len).len
                  /\ answer' = size
        /\ UNCHANGED buf

\* dk_block_get1stblock_size
Get1stBlockSize ==
    /\ call' = [op |-> "get1stblock_size", data |-> << >>, n |-> 0]
    /\ answer' = IF len = 0 THEN 0 ELSE NumberAt(start)
    /\ out' = << >>
    /\ UNCHANGED <<buf, start, len>>

\* dk_block_getalldata_length
GetAllDataLength ==
    /\ call' = [op |-> "getalldata_length", data |-> << >>, n |-> 0]
    /\ answer' = len
    /\ out' = << >>
    /\ UNCHANGED <<buf, start, len>>

\* dk_block_reset
Reset ==
    /\ call' = [op |-> "reset", data |-> << >>, n |-> 0]
    /\ start' = 0
    /\ len' = 0
    /\ out' = << >>
    /\ answer' = 0
    /\ UNCHANGED buf

Next ==
    \/ \E block \in Data : Pushback(block)
    \/ \E n \in Lengths : Pop1stBlock(n)
    \/ Get1stBlockSize
    \/ GetAllDataLength
    \/ Reset

Spec == Init /\ [][Next]_vars

-----------------------------------------------------------------------------

\* The blocks of the queue; an empty block stands for a number that does not fit
\* what follows it.
Blocks ==
    [k \in 1 .. Rounds(0) |->
        LET first == Rest[k - 1]
            from  == (first.start + Header) % Size
            n     == NumberAt(first.start)
        IN  IF Header + n > first.len THEN << >> ELSE Copied(buf, from, from, n)]

\* The cache is a queue of whole blocks: blocks come out as they went in and in
\* order, as few as possible are forgotten, and the numbers it answers are true.
Queue == INSTANCE BlockFifo WITH blocks <- Blocks

AsBlocks == Queue!BlockSpec
=============================================================================
