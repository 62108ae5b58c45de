------------------------------ MODULE MCLibrary -------------------------------
(***************************************************************************)
(* The classes of dk_common and of the protocol that every program is      *)
(* built from, on small instances.  They share no state: a behaviour       *)
(* exercises one object of one of them.                                    *)
(***************************************************************************)
EXTENDS RingCache, PackDecoder, ServerLife

VARIABLES
    class,                                            \* the class that is exercised
    bBuf, bStart, bLen, bCall, bOut, bAnswer,         \* BlockCache
    cLife, cAccess, cCancelled, cNeedExit, cDest, cCur, cUnused, cOpen,
    cData, cEnded, cPc, cSock, cInside                \* ClientLife

\* Pushes that are shorter than, as long as and longer than the ring buffer.
UpTo(n) == UNION {[1 .. k -> Bytes] : k \in 1 .. n}
ShortAndLong == UpTo(Size + 1)
SomeLengths == 0 .. Size + 1

\* The empty payload of NEW_INSTANCE; one byte; three bytes of which one is
\* the start flag, as samples may be.
SomePayloads == {<< >>, <<1>>, <<1, 170, 2>>}

\* One block of every length, the longest of them too long; blocks of different
\* lengths begin with different bytes, as far as there are bytes.
SomeBlocks == {[i \in 1 .. n |-> (i + n) % 4] : n \in 1 .. 7}
BlockLengths == {1, 2, 6}

\* The numbers of two bytes, the less significant one first.
Memories == [n \in 0 .. 15 |-> <<n % 4, n \div 4>>]

\* Two blocks fit at most; a number has two bytes, so that it can be cut.
Block ==
    INSTANCE BlockCache
      WITH Size <- 8, Header <- 2, Bytes <- 0 .. 3, Longs <- 0 .. 15, Memory <- Memories,
           Data <- SomeBlocks, Lengths <- BlockLengths,
           buf <- bBuf, start <- bStart, len <- bLen,
           call <- bCall, out <- bOut, answer <- bAnswer

Client ==
    INSTANCE ClientLife
      WITH life <- cLife, access <- cAccess, cancelled <- cCancelled, inside <- cInside,
           needExit <- cNeedExit, dest <- cDest, cur <- cCur, unused <- cUnused,
           open <- cOpen, data <- cData, ended <- cEnded, pc <- cPc, sock <- cSock

ASSUME LibraryAssumption ==
    Block!BlockAssumption /\ Client!ClientAssumption

blockVars == <<bBuf, bStart, bLen, bCall, bOut, bAnswer>>
clientVars == <<cLife, cAccess, cCancelled, cNeedExit, cDest, cCur, cUnused, cOpen, cData,
                cEnded, cPc, cSock, cInside>>
socketVars == <<serverVars, clientVars>>
libraryVars == <<class, vars, decoderVars, blockVars, socketVars>>

LibraryInit ==
    /\ class \in {"ring", "decoder", "block", "server", "client"}
    /\ Init
    /\ class # "ring" => buf = [p \in Positions |-> CHOOSE b \in Bytes : TRUE]
    /\ bBuf = [p \in 0 .. 7 |-> 3]
    /\ DecoderInit /\ Block!Init /\ ServerInit /\ Client!Init

RingStep == class = "ring" /\ Next /\ UNCHANGED <<class, decoderVars, blockVars, socketVars>>
DecoderStep == class = "decoder" /\ DecoderNext /\ UNCHANGED <<class, vars, blockVars, socketVars>>
BlockStep == class = "block" /\ Block!Next /\ UNCHANGED <<class, vars, decoderVars, socketVars>>
ServerStep == class = "server" /\ ServerNext /\ UNCHANGED <<class, vars, decoderVars, blockVars, clientVars>>
ClientStep == class = "client" /\ Client!Next /\ UNCHANGED <<class, vars, decoderVars, blockVars, serverVars>>

LibraryNext == RingStep \/ DecoderStep \/ BlockStep \/ ServerStep \/ ClientStep

LibrarySpec ==
    /\ LibraryInit /\ [][LibraryNext]_libraryVars
    /\ DecoderFairness /\ ServerFairness /\ Client!Fairness

-----------------------------------------------------------------------------

\* The state of every class has its type: the decoder's cache never fills its
\* buffer, the positions of the ring and of the block cache are positions.
TypesOK == TypeOK /\ DecoderTypeOK /\ Block!TypeOK /\ ServerTypeOK /\ Client!TypeOK

\* The block cache is a queue of whole blocks (BlockCache).
AsBlocks == Block!AsBlocks

\* The client's calls return, callbacks that send and its destructor included,
\* whatever the receive thread waits for (ClientLife).
CallsReturn == Client!CallsReturn
=============================================================================
