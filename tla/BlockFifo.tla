------------------------------ MODULE BlockFifo -------------------------------
(***************************************************************************)
(* What dk_block_cache promises, without its bytes: a queue of whole       *)
(* blocks.  A block costs its length and Header bytes more; a new block    *)
(* makes the queue forget as many of its oldest blocks as it must.         *)
(***************************************************************************)
EXTENDS Integers, Sequences

CONSTANTS
    Size,     \* how much the blocks may cost together
    Header,   \* what a block costs besides its bytes
    Data,     \* the blocks
    Lengths   \* how long a block somebody asks for may be

VARIABLES
    blocks,   \* the queue
    call,     \* the last call: its name, the block and the length it was given
    out,      \* the block it has answered
    answer    \* the number it has returned

blockVars == <<blocks, call, out, answer>>

Cost(block) == Header + Len(block)

\* What the first n blocks of the queue cost together, and all of them.
CostOf(queue, n) ==
    LET Sum[i \in 0 .. Len(queue)] == IF i = 0 THEN 0 ELSE Sum[i - 1] + Cost(queue[i])
    IN  Sum[n]
TotalCost(queue) == CostOf(queue, Len(queue))

\* There is room for the block once the first i blocks are forgotten.
Fits(block, i) == TotalCost(blocks) - CostOf(blocks, i) + Cost(block) <= Size

BlockInit ==
    /\ blocks = << >>
    /\ call = [op |-> "create", data |-> << >>, n |-> 0]
    /\ out = << >>
    /\ answer = 0

Put(block) ==
    /\ call' = [op |-> "pushback", data |-> block, n |-> 0]
    /\ IF Cost(block) <= Size
         THEN /\ \E i \in 0 .. Len(blocks) :
                    /\ Fits(block, i) /\ \A j \in 0 .. i - 1 : ~Fits(block, j)
                    /\ blocks' = Append(SubSeq(blocks, i + 1, Len(blocks)), block)
              /\ answer' = 0
         ELSE answer' = -1 /\ UNCHANGED blocks
    /\ out' = << >>

\* The oldest block is answered, if there is one and it is not too long.
Take(n) ==
    /\ call' = [op |-> "pop1stblock", data |-> << >>, n |-> n]
    /\ IF blocks # << >> /\ Len(Head(blocks)) <= n
         THEN out' = Head(blocks) /\ blocks' = Tail(blocks)
         ELSE out' = << >> /\ UNCHANGED blocks
    /\ answer' = Len(out')

\* The length of the oldest block.
Look ==
    /\ call' = [op |-> "get1stblock_size", data |-> << >>, n |-> 0]
    /\ answer' = IF blocks = << >> THEN 0 ELSE Len(Head(blocks))
    /\ out' = << >>
    /\ UNCHANGED blocks

\* What all blocks cost together.
Total ==
    /\ call' = [op |-> "getalldata_length", data |-> << >>, n |-> 0]
    /\ answer' = TotalCost(blocks)
    /\ out' = << >>
    /\ UNCHANGED blocks

Clear ==
    /\ call' = [op |-> "reset", data |-> << >>, n |-> 0]
    /\ blocks' = << >>
    /\ out' = << >>
    /\ answer' = 0

BlockNext ==
    \/ \E block \in Data : Put(block)
    \/ \E n \in Lengths : Take(n)
    \/ Look
    \/ Total
    \/ Clear

BlockSpec == BlockInit /\ [][BlockNext]_blockVars
=============================================================================
