------------------------------ MODULE AsioLink ------------------------------
(***************************************************************************)
(* The TCP connection between the audio source (dk_asio_user.dll, "AS")    *)
(* and the play device (dk_pd_mock.exe, "PD") while it stays up, and the   *)
(* packages the two exchange on it (protocol/laudio_pack_4_asio.h).        *)
(*                                                                         *)
(* Audio is cut in blocks of one ASIO buffer.  Every channel has a double  *)
(* buffer on both sides, so a block travels as "half" 0 or 1.  The device  *)
(* pulls: it asks for a half (WANTDATA_BUFn), the source answers with one  *)
(* PCMDATA_BUFn package per active output.                                 *)
(***************************************************************************)
EXTENDS Naturals, Sequences

CONSTANTS
    PDChannels,    \* DK_PD_CHANNEL_MAX: channels the device can play
    OutputCounts,  \* the numbers of outputs the host may ask createBuffers for
    BlockMod,      \* blocks are numbered modulo BlockMod
    NetCap         \* packages a direction holds before ::send blocks

ASSUME PDChannelsAssumption == PDChannels \in Nat \ {0}
ASSUME OutputCountsAssumption == OutputCounts \subseteq Nat
ASSUME BlockModAssumption == BlockMod \in Nat \ {0}
ASSUME NetCapAssumption == NetCap \in Nat \ {0}

VARIABLES
    toPD,   \* packages sent by the source and not yet received by the device
    toAS    \* halves the device has asked for, not yet received by the source

linkVars == <<toPD, toAS>>

-----------------------------------------------------------------------------

Halves == {0, 1}
Other(h) == 1 - h

Blocks == 0 .. (BlockMod - 1)

\* What a buffer holds whose valid length is still 0.
NoBlock == BlockMod

\* LAUDIO_ASIO_CMD_NEW_INSTANCE carries no payload.
NewInstance == [cmd |-> "NEW_INSTANCE"]

\* LAUDIO_ASIO_CMD_PCMDATA_BUF0 and _BUF1: channel, channel count, samples.
PCMPackage ==
    [cmd : {"PCMDATA"}, half : Halves, channel : Nat, count : Nat, block : Blocks]

PCMData(h, c, n, b) ==
    [cmd |-> "PCMDATA", half |-> h, channel |-> c, count |-> n, block |-> b]

LinkTypeOK ==
    /\ toPD \in Seq(PCMPackage \cup {NewInstance})
    /\ toAS \in Seq(Halves)

\* A connection the source has just opened, with the NEW_INSTANCE package
\* that dk_pd_proxy_4_render::_on_connected sends on it.
LinkInit ==
    /\ toPD = <<NewInstance>>
    /\ toAS = << >>

\* ::send on a blocking stream socket: waits for room, keeps the order.
SendToPD(p) ==
    /\ Len(toPD) < NetCap
    /\ toPD' = Append(toPD, p)

SendToAS(h) ==
    /\ Len(toAS) < NetCap
    /\ toAS' = Append(toAS, h)
=============================================================================
