----------------------------- MODULE BoundedFifo ------------------------------
(***************************************************************************)
(* What dk_ring_cache promises, without its arithmetic: a queue of at most *)
(* Size bytes that forgets its oldest bytes when it has no room for new    *)
(* ones.                                                                   *)
(***************************************************************************)
EXTENDS Naturals, Sequences

CONSTANTS
    Size,     \* how many bytes the queue holds
    Data,     \* what may be put into it at once
    Lengths   \* how much may be asked for, or kept, at once

VARIABLES
    queue,    \* the bytes, the oldest one first
    call,     \* the last call: its name, the bytes and the number it was given
    out       \* the bytes it has answered

fifoVars == <<queue, call, out>>

Call(op, data, n) == [op |-> op, data |-> data, n |-> n]

Least(a, b) == IF a < b THEN a ELSE b

\* The last n elements of s, or all of them.
Newest(s, n) == IF n < Len(s) THEN SubSeq(s, Len(s) - n + 1, Len(s)) ELSE s

FifoInit == queue = << >> /\ call = Call("create", << >>, 0) /\ out = << >>

Put(data) ==
    /\ call' = Call("pushback", data, 0)
    /\ queue' = Newest(queue \o data, Size)
    /\ out' = << >>

\* The n oldest bytes are answered, and are gone.
Take(n) ==
    /\ call' = Call("popfront", << >>, n)
    /\ Len(out') = Least(n, Len(queue))
    /\ queue = out' \o queue'

\* The n oldest bytes are answered, and stay.
Look(n) ==
    /\ call' = Call("copyback", << >>, n)
    /\ out' = SubSeq(queue, 1, Least(n, Len(queue)))
    /\ UNCHANGED queue

\* All but the n newest bytes are forgotten.
Keep(n) ==
    /\ call' = Call("flush", << >>, n)
    /\ queue' = Newest(queue, n)
    /\ out' = << >>

Clear ==
    /\ call' = Call("reset", << >>, 0)
    /\ queue' = << >>
    /\ out' = << >>

FifoNext ==
    \/ \E data \in Data : Put(data)
    \/ \E n \in Lengths : Take(n) \/ Look(n) \/ Keep(n)
    \/ Clear

FifoSpec == FifoInit /\ [][FifoNext]_fifoVars
=============================================================================
