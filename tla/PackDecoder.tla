---------------------------- MODULE PackDecoder -----------------------------
(***************************************************************************)
(* laudio_pack_decoder, which every program puts between a socket and its  *)
(* package handler: it cuts the byte stream into packages, whatever pieces *)
(* recv returns the stream in.                                             *)
(*                                                                         *)
(* A header has three bytes here: the start flag, the length of the whole  *)
(* package, and one byte that stands for the end flag and the check code,  *)
(* a function of the length.  A connection may break, with any number of   *)
(* bytes under way lost, and the next one begins with a new package; the   *)
(* decoder is the same object and is not told.                             *)
(***************************************************************************)
EXTENDS Integers, Sequences, SequencesExt

CONSTANTS
    Payloads,    \* the payloads that are sent, sequences of bytes
    PackageMax,  \* LAUDIO_PACKAGE_LEN_MAX
    MaxSent,     \* packages sent on one connection
    MaxBreaks    \* connections that break

VARIABLES
    sent,    \* the packages sent on this connection
    wire,    \* bytes sent and not received
    in,      \* pBufIn: what pushback has not eaten yet of a received piece
    cache,   \* m_pBufPackageCache, its length is m_uLenValid
    got,     \* the packages handed to m_funcObjRecv on this connection
    breaks,  \* connections that have broken
    clean    \* every one of them broke with m_uLenValid = 0

decoderVars == <<sent, wire, in, cache, got, breaks, clean>>

-----------------------------------------------------------------------------

HeaderSize == 3   \* LAUDIO_PACKHEADER_SIZE
StartFlag == 170  \* LAUDIO_START_FLAG
EndCheck(len) == (221 - len) % 256

\* Senders keep to the largest package.
ASSUME DecoderAssumption ==
    /\ PackageMax \in Nat /\ HeaderSize < PackageMax
    /\ MaxSent \in Nat /\ MaxBreaks \in Nat
    /\ Payloads \subseteq Seq(Nat)
    /\ \A p \in Payloads : HeaderSize + Len(p) <= PackageMax

Package(p) == LET len == HeaderSize + Len(p) IN <<StartFlag, len, EndCheck(len)>> \o p

\* A mutation of HeaderValid: the largest package is taken for an invalid one.
HeaderBelowMax(c) ==
    /\ c[1] = StartFlag
    /\ c[3] = EndCheck(c[2])
    /\ c[2] < PackageMax

HeaderValid(c) ==
    /\ c[1] = StartFlag
    /\ c[3] = EndCheck(c[2])
    /\ c[2] <= PackageMax

Least(a, b) == IF a < b THEN a ELSE b
From(s, n) == SubSeq(s, n, Len(s))

\* _findHeaderStart: the first start flag, 0 if there is none.
FindHeaderStart(s) == SelectInSeq(s, LAMBDA b : b = StartFlag)

\* _reFindHeaderStart: what is kept of a header that is not valid.
ReFindHeaderStart(c) ==
    LET i == FindHeaderStart(c) IN IF i = 0 THEN << >> ELSE From(c, i)

\* A mutation of FillHeader: what is already cached is not subtracted.
FillHeaderWhole(c, s) ==
    LET i    == FindHeaderStart(s)
        skip == IF c # << >> THEN 0 ELSE IF i = 0 THEN Len(s) ELSE i - 1
        n    == Least(HeaderSize, Len(s) - skip)
    IN  [cache |-> c \o SubSeq(s, skip + 1, skip + n), eaten |-> skip + n]

\* _fillHeader: bytes before a start flag are skipped when the cache is empty.
FillHeader(c, s) ==
    LET i    == FindHeaderStart(s)
        skip == IF c # << >> THEN 0 ELSE IF i = 0 THEN Len(s) ELSE i - 1
        n    == Least(HeaderSize - Len(c), Len(s) - skip)
    IN  [cache |-> c \o SubSeq(s, skip + 1, skip + n), eaten |-> skip + n]

\* _fillPayload: how many bytes of s the package in c still needs.  The difference is
\* unsigned: a length below what is there already takes them all.
FillPayload(c, s) ==
    IF c[2] < Len(c) THEN Len(s) ELSE Least(c[2] - Len(c), Len(s))

\* A mutation of PackageReady: the package waits for a byte too many.
PackageOverfull(c) == Len(c) > c[2]

\* _isPackageReady
PackageReady(c) == Len(c) >= c[2]

\* _notifyPackageReady: what is longer than its header says is not handed over.
Notified(c) == IF Len(c) = c[2] THEN Append(got, c) ELSE got

-----------------------------------------------------------------------------

DecoderInit ==
    /\ sent = << >>
    /\ wire = << >>
    /\ in = << >>
    /\ cache = << >>
    /\ got = << >>
    /\ breaks = 0
    /\ clean = TRUE

Send(p) ==
    /\ Len(sent) < MaxSent
    /\ sent' = Append(sent, Package(p))
    /\ wire' = wire \o Package(p)
    /\ UNCHANGED <<in, cache, got, breaks, clean>>

\* recv returns any number of the bytes that have arrived.
Receive(n) ==
    /\ in = << >>
    /\ n \in 1 .. Len(wire)
    /\ in' = SubSeq(wire, 1, n)
    /\ wire' = From(wire, n + 1)
    /\ UNCHANGED <<sent, cache, got, breaks, clean>>

Break ==
    /\ breaks < MaxBreaks
    /\ in = << >>
    /\ breaks' = breaks + 1
    /\ wire' = << >>
    /\ sent' = << >>
    /\ got' = << >>
    /\ clean' = (clean /\ cache = << >>)
    /\ UNCHANGED <<in, cache>>

\* The header after this call of _pushback_1_package.
Header ==
    IF Len(cache) < HeaderSize THEN FillHeader(cache, in) ELSE [cache |-> cache, eaten |-> 0]

\* pushback ends when _pushback_1_package eats nothing, and drops the rest.
Eat(n) == in' = IF n = 0 THEN << >> ELSE From(in, n + 1)

HeaderIncomplete ==
    /\ in # << >>
    /\ Len(Header.cache) < HeaderSize
    /\ cache' = Header.cache
    /\ Eat(Header.eaten)
    /\ UNCHANGED <<sent, wire, got, breaks, clean>>

HeaderRejected ==
    /\ in # << >>
    /\ Len(Header.cache) >= HeaderSize
    /\ ~HeaderValid(Header.cache)
    /\ cache' = ReFindHeaderStart(Header.cache)
    /\ Eat(Header.eaten)
    /\ UNCHANGED <<sent, wire, got, breaks, clean>>

\* A package that is complete is handed over, and the cache emptied in any case.
PayloadFilled ==
    /\ in # << >>
    /\ Len(Header.cache) >= HeaderSize
    /\ HeaderValid(Header.cache)
    /\ LET rest == From(in, Header.eaten + 1)
           n    == FillPayload(Header.cache, rest)
           c    == Header.cache \o SubSeq(rest, 1, n)
       IN  /\ IF PackageReady(c)
                THEN got' = Notified(c) /\ cache' = << >>
                ELSE cache' = c /\ UNCHANGED got
           /\ Eat(Header.eaten + n)
    /\ UNCHANGED <<sent, wire, breaks, clean>>

Pushback1Package == HeaderIncomplete \/ HeaderRejected \/ PayloadFilled

DecoderNext ==
    \/ \E p \in Payloads : Send(p)
    \/ \E n \in 1 .. Len(wire) : Receive(n)
    \/ Break
    \/ Pushback1Package

DecoderFairness ==
    /\ WF_decoderVars(\E n \in 1 .. Len(wire) : Receive(n))
    /\ WF_decoderVars(Pushback1Package)

DecoderSpec == DecoderInit /\ [][DecoderNext]_decoderVars
DecoderFairSpec == DecoderSpec /\ DecoderFairness

-----------------------------------------------------------------------------

\* Between two calls the cache never fills the buffer allocated for it, whatever
\* a broken connection left in it.
DecoderTypeOK ==
    /\ sent \in Seq(Seq(Nat))
    /\ wire \in Seq(Nat)
    /\ in \in Seq(Nat)
    /\ cache \in Seq(Nat)
    /\ Len(cache) < PackageMax
    /\ got \in Seq(Seq(Nat))
    /\ breaks \in 0 .. MaxBreaks
    /\ clean \in BOOLEAN

Stream(packages) == FlattenSeq(packages)

\* As long as no connection broke inside a package, the packages handed over,
\* the bytes in the decoder and those under way are always exactly the stream,
\* however recv cut it: no byte is lost, doubled, or moved to another package.
NothingLost ==
    clean =>
        /\ IsPrefix(got, sent)
        /\ Stream(got) \o cache \o in \o wire = Stream(sent)

\* Every package of such a connection is handed over, unless it breaks: the
\* decoder never waits for bytes that will not come.
AllHandedOver ==
    \A n \in 1 .. MaxSent, b \in 0 .. MaxBreaks :
        (clean /\ breaks = b /\ Len(sent) = n) ~> (breaks > b \/ Len(got) >= n)
=============================================================================
