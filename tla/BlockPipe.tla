----------------------------- MODULE BlockPipe ------------------------------
(***************************************************************************)
(* What the audio path promises, without its mechanism: a producer numbers *)
(* the blocks it makes, each block for every channel; the player of each   *)
(* channel takes every block once and in order and never runs ahead; and   *)
(* the producer is never more than Depth blocks ahead of any channel.      *)
(***************************************************************************)
EXTENDS Integers

CONSTANTS Mod, Depth, PipeChannels

VARIABLES made, played

pipeVars == <<made, played>>

Lag(c) == (made - played[c]) % Mod

PipeInit == made = 0 /\ played = [c \in PipeChannels |-> 0]

Make ==
    /\ \A c \in PipeChannels : Lag(c) < Depth
    /\ made' = (made + 1) % Mod
    /\ UNCHANGED played

Play(c) ==
    /\ Lag(c) > 0
    /\ played' = [played EXCEPT ![c] = (@ + 1) % Mod]
    /\ UNCHANGED made

PipeNext == Make \/ \E c \in PipeChannels : Play(c)

\* What may happen, and what must.
PipeSafety == PipeInit /\ [][PipeNext]_pipeVars
PipeFairness == \A c \in PipeChannels : WF_pipeVars(Play(c))

PipeSpec == PipeSafety /\ PipeFairness
=============================================================================
