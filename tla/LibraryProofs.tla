---------------------------- MODULE LibraryProofs ----------------------------
(***************************************************************************)
(* Proofs about the classes of MCLibrary: the decoder, the lives of the    *)
(* socket server and the socket client, and the ring cache, for any values *)
(* of their constants; then what they make of MCLibrary.  The block cache  *)
(* has a module of its own, BlockCacheProofs.                              *)
(***************************************************************************)
EXTENDS MCLibrary, SequenceTheorems, FiniteSetTheorems, WellFoundedInduction, TLAPS

(***************************************************************************)
(* PackDecoder.  The decoder loses, doubles and moves no byte: for any     *)
(* payloads, any number of packages and of broken connections, and any way *)
(* in which recv cuts the stream.                                          *)
(*                                                                         *)
(* The stream is defined by recursion over the packages.  What is needed   *)
(* of it, that a package is appended to it and that after the packages     *)
(* which were handed over it goes on with the next, is proved by taking    *)
(* the least number of packages for which it fails.                        *)
(***************************************************************************)

-----------------------------------------------------------------------------
(* The stream of a sequence of packages. *)

\* A set of numbers has a least one.
LEMMA LeastNumber ==
    ASSUME NEW T \in SUBSET Nat, T # {}
    PROVE  \E n \in T : \A m \in T : n <= m
<1> DEFINE Lt == {p \in Nat \X Nat : p[1] < p[2]}
<1>1. IsWellFoundedOn(Lt, Nat)
  BY NatLessThanWellFounded, Zenon DEF OpToRel
<1>2. \A x \in Nat, y \in Nat : <<y, x>> \in Lt <=> y < x
  OBVIOUS
<1> HIDE DEF Lt
<1>3. PICK x \in T : \A y \in T : ~(<<y, x>> \in Lt)
  BY <1>1, WFMin
<1>4. \A y \in T : x <= y
  <2> TAKE y \in T
  <2>1. x \in Nat /\ y \in Nat /\ ~(y < x)
    BY <1>2, <1>3
  <2>2. QED
    BY <2>1
<1>5. QED
  BY <1>4

\* Packages are sequences of bytes.
PackageLists == Seq(Seq(Int))

\* g[i] is the stream of the first i packages of s.
IsStreamOf(g, s, n) ==
    /\ DOMAIN g = 1 .. n
    /\ \A i \in 1 .. n : g[i] = IF i = 1 THEN s[i] ELSE g[i - 1] \o s[i]

\* There is one for every n, by adding a package to that of n - 1.
LEMMA StreamExists ==
    ASSUME NEW s, NEW n \in Nat
    PROVE  \E g : IsStreamOf(g, s, n)
<1> DEFINE T == {i \in Nat : ~\E g : IsStreamOf(g, s, i)}
<1> SUFFICES ASSUME T # {} PROVE FALSE
  OBVIOUS
<1>1. PICK m \in T : \A k \in T : m <= k
  BY LeastNumber
<1>2. m \in Nat /\ ~\E g : IsStreamOf(g, s, m)
  OBVIOUS
<1>3. m # 0
  <2>1. IsStreamOf(<< >>, s, 0)
    BY DEF IsStreamOf
  <2>2. QED
    BY <1>2, <2>1
<1>4. m - 1 \in Nat /\ m - 1 \notin T
  BY <1>1, <1>2, <1>3
<1>5. PICK g : IsStreamOf(g, s, m - 1)
  BY <1>4
<1> DEFINE h == [i \in 1 .. m |-> IF i = m THEN IF m = 1 THEN s[m] ELSE g[m - 1] \o s[m] ELSE g[i]]
<1>6. \A i \in 1 .. m : h[i] = IF i = 1 THEN s[i] ELSE h[i - 1] \o s[i]
  <2> TAKE i \in 1 .. m
  <2>1. CASE i = m
    BY <1>2, <1>3, <2>1
  <2>2. CASE i # m
    <3>1. i \in 1 .. m - 1
      BY <1>2, <2>2
    <3>2. h[i] = g[i] /\ (i # 1 => h[i - 1] = g[i - 1])
      BY <1>2, <3>1
    <3>3. QED
      BY <1>5, <3>1, <3>2 DEF IsStreamOf
  <2>3. QED
    BY <2>1, <2>2
<1>7. IsStreamOf(h, s, m)
  BY <1>6 DEF IsStreamOf
<1>8. QED
  BY <1>2, <1>7

\* The streams of two sequences are the same as long as the packages are.
LEMMA StreamUnique ==
    ASSUME NEW s, NEW t, NEW g, NEW h, NEW n \in Nat, NEW m \in Nat, n <= m,
           IsStreamOf(g, s, n), IsStreamOf(h, t, m),
           \A i \in 1 .. n : s[i] = t[i]
    PROVE  \A i \in 1 .. n : g[i] = h[i]
<1> DEFINE T == {i \in 1 .. n : g[i] # h[i]}
<1> SUFFICES ASSUME T # {} PROVE FALSE
  OBVIOUS
<1>1. PICK l \in T : \A k \in T : l <= k
  <2>1. T \in SUBSET Nat
    OBVIOUS
  <2>2. QED
    BY <2>1, LeastNumber
<1>2. l \in 1 .. n /\ g[l] # h[l] /\ s[l] = t[l]
  OBVIOUS
<1>3. /\ g[l] = IF l = 1 THEN s[l] ELSE g[l - 1] \o s[l]
      /\ h[l] = IF l = 1 THEN t[l] ELSE h[l - 1] \o t[l]
  <2>1. l \in 1 .. n /\ l \in 1 .. m
    BY <1>2
  <2> HIDE DEF T
  <2>2. QED
    BY <2>1 DEF IsStreamOf
<1>4. l # 1 /\ g[l - 1] # h[l - 1]
  BY <1>2, <1>3
<1>5. l - 1 \in T
  BY <1>2, <1>4
<1>6. QED
  BY <1>1, <1>2, <1>5

\* The streams of packages are sequences of bytes.
LEMMA StreamType ==
    ASSUME NEW s, NEW g, NEW n \in Nat, IsStreamOf(g, s, n), \A i \in 1 .. n : s[i] \in Seq(Int)
    PROVE  \A i \in 1 .. n : g[i] \in Seq(Int)
<1> DEFINE T == {i \in 1 .. n : g[i] \notin Seq(Int)}
<1> SUFFICES ASSUME T # {} PROVE FALSE
  OBVIOUS
<1>1. PICK m \in T : \A k \in T : m <= k
  <2>1. T \in SUBSET Nat
    OBVIOUS
  <2>2. QED
    BY <2>1, LeastNumber
<1>2. m \in 1 .. n /\ g[m] \notin Seq(Int) /\ s[m] \in Seq(Int)
  OBVIOUS
<1>3. g[m] = IF m = 1 THEN s[m] ELSE g[m - 1] \o s[m]
  BY <1>2 DEF IsStreamOf
<1>4. m # 1
  BY <1>2, <1>3
<1>5. g[m - 1] \notin Seq(Int)
  <2> SUFFICES ASSUME g[m - 1] \in Seq(Int) PROVE FALSE
    OBVIOUS
  <2>1. g[m - 1] \o s[m] \in Seq(Int)
    BY <1>2, ConcatProperties
  <2>2. QED
    BY <1>2, <1>3, <1>4, <2>1
<1>6. m - 1 \in T
  BY <1>2, <1>4, <1>5
<1>7. QED
  BY <1>1, <1>2, <1>6

\* Stream is what IsStreamOf says.
LEMMA StreamIs ==
    ASSUME NEW s \in PackageLists
    PROVE  IF s = << >> THEN Stream(s) = << >>
           ELSE \E g : IsStreamOf(g, s, Len(s)) /\ Stream(s) = g[Len(s)]
<1>1. CASE s = << >>
  BY <1>1 DEF Stream, FlattenSeq
<1>2. CASE s # << >>
  <2>1. Len(s) \in Nat /\ Len(s) # 0
    BY <1>2, EmptySeq DEF PackageLists
  <2> DEFINE F(g) == g = [i \in 1 .. Len(s) |-> IF i = 1 THEN s[i] ELSE g[i - 1] \o s[i]]
             f == CHOOSE g : F(g)
  <2>2. \E g : F(g)
    <3>1. PICK h : IsStreamOf(h, s, Len(s))
      BY <2>1, StreamExists
    <3> DEFINE g == [i \in 1 .. Len(s) |-> h[i]]
    <3>2. \A i \in 1 .. Len(s) : g[i] = IF i = 1 THEN s[i] ELSE g[i - 1] \o s[i]
      <4> TAKE i \in 1 .. Len(s)
      <4>1. g[i] = h[i] /\ (i # 1 => g[i - 1] = h[i - 1])
        BY <2>1
      <4>2. h[i] = IF i = 1 THEN s[i] ELSE h[i - 1] \o s[i]
        BY <3>1 DEF IsStreamOf
      <4>3. QED
        BY <4>1, <4>2
    <3>3. F(g)
      BY <3>2
    <3>4. QED
      BY <3>3
  <2>3. F(f)
    <3> HIDE DEF F
    <3>1. QED
      BY <2>2
  <2>4. Stream(s) = f[Len(s)]
    BY <2>1 DEF Stream, FlattenSeq
  <2> HIDE DEF f
  <2>5. IsStreamOf(f, s, Len(s))
    BY <2>3 DEF IsStreamOf
  <2>6. QED
    BY <1>2, <2>4, <2>5
<1>3. QED
  BY <1>1, <1>2

\* Pieces of a stream may be put together in any order.
LEMMA PiecesTogether ==
    ASSUME NEW a \in Seq(Int), NEW b \in Seq(Int), NEW c \in Seq(Int)
    PROVE  (a \o b) \o c = a \o (b \o c)
BY ConcatAssociative

\* No packages make no stream, and a stream is a sequence of bytes.
LEMMA StreamBytes ==
    /\ Stream(<< >>) = << >>
    /\ \A s \in PackageLists : Stream(s) \in Seq(Int)
<1>1. Stream(<< >>) = << >>
  BY DEF Stream, FlattenSeq
<1>2. ASSUME NEW s \in PackageLists, s # << >> PROVE Stream(s) \in Seq(Int)
  <2>1. Len(s) \in Nat \ {0} /\ \A i \in 1 .. Len(s) : s[i] \in Seq(Int)
    BY <1>2, EmptySeq, ElementOfSeq DEF PackageLists
  <2>2. PICK g : IsStreamOf(g, s, Len(s)) /\ Stream(s) = g[Len(s)]
    BY <1>2, StreamIs
  <2>3. \A i \in 1 .. Len(s) : g[i] \in Seq(Int)
    BY <2>1, <2>2, StreamType
  <2>4. QED
    BY <2>1, <2>2, <2>3
<1>3. << >> \in Seq(Int)
  BY EmptySeq
<1>4. \A s \in PackageLists : Stream(s) \in Seq(Int)
  <2> TAKE s \in PackageLists
  <2>1. CASE s = << >>
    BY <1>1, <1>3, <2>1
  <2>2. CASE s # << >>
    BY <1>2, <2>2
  <2>3. QED
    BY <2>1, <2>2
<1>5. QED
  BY <1>1, <1>4

\* A package that is sent is appended to the stream.
LEMMA StreamAppended ==
    ASSUME NEW s \in PackageLists, NEW e \in Seq(Int)
    PROVE  Stream(Append(s, e)) = Stream(s) \o e
<1> DEFINE t == Append(s, e)
           n == Len(s)
<1>1. /\ t \in PackageLists /\ t # << >> /\ Len(t) = n + 1 /\ n \in Nat
      /\ t[n + 1] = e /\ \A i \in 1 .. n : t[i] = s[i]
  BY AppendProperties DEF PackageLists
<1>2. PICK h : IsStreamOf(h, t, n + 1) /\ Stream(t) = h[n + 1]
  BY <1>1, StreamIs
<1>3. h[n + 1] = IF n = 0 THEN t[n + 1] ELSE h[n] \o t[n + 1]
  <2>1. n + 1 \in 1 .. n + 1 /\ (n + 1 = 1 <=> n = 0) /\ (n + 1) - 1 = n
    BY <1>1
  <2>2. QED
    BY <1>2, <2>1 DEF IsStreamOf
<1>4. CASE s = << >>
  <2>1. n = 0 /\ Stream(s) = << >>
    BY <1>4, StreamBytes
  <2>2. QED
    BY <1>1, <1>2, <1>3, <2>1, ConcatEmptySeq
<1>5. CASE s # << >>
  <2>1. n # 0
    BY <1>5, EmptySeq DEF PackageLists
  <2>2. PICK g : IsStreamOf(g, s, n) /\ Stream(s) = g[n]
    BY <1>5, StreamIs
  <2>3. \A i \in 1 .. n : g[i] = h[i]
    <3>1. PICK m \in Nat : m = n + 1 /\ n <= m
      BY <1>1
    <3>2. IsStreamOf(h, t, m) /\ n \in Nat /\ \A i \in 1 .. n : s[i] = t[i]
      BY <1>1, <1>2, <3>1
    <3> HIDE DEF n, t
    <3>3. QED
      BY <2>2, <3>1, <3>2, StreamUnique
  <2>4. g[n] = h[n]
    BY <1>1, <2>1, <2>3
  <2>5. QED
    BY <1>1, <1>2, <1>3, <2>1, <2>2, <2>4
<1>6. QED
  BY <1>4, <1>5

\* What follows the stream of j packages.
Continues(g, j, n) == \A i \in j .. n : \E r \in Seq(Int) : g[i] = g[j] \o r

\* The stream of j packages is followed by that of the others.
LEMMA StreamContinues ==
    ASSUME NEW s, NEW g, NEW n \in Nat, NEW j \in 1 .. n, IsStreamOf(g, s, n),
           \A i \in 1 .. n : s[i] \in Seq(Int)
    PROVE  Continues(g, j, n)
<1> DEFINE T == {i \in j .. n : ~\E r \in Seq(Int) : g[i] = g[j] \o r}
<1> SUFFICES ASSUME T # {} PROVE FALSE
  BY DEF Continues
<1>1. PICK m \in T : \A k \in T : m <= k
  <2>1. T \in SUBSET Nat
    OBVIOUS
  <2>2. QED
    BY <2>1, LeastNumber
<1>2. m \in j .. n /\ ~\E r \in Seq(Int) : g[m] = g[j] \o r
  OBVIOUS
<1>3. \A i \in 1 .. n : g[i] \in Seq(Int)
  BY StreamType
<1>4. m # j
  <2>1. << >> \in Seq(Int) /\ g[j] \o << >> = g[j]
    BY <1>3, ConcatEmptySeq, EmptySeq
  <2>2. QED
    BY <1>2, <2>1
<1>5. m - 1 \in j .. n /\ m \in 1 .. n /\ m # 1 /\ m - 1 \in 1 .. n
  BY <1>2, <1>4
<1>6. m - 1 \notin T
  <2> HIDE DEF T
  <2>1. m \in Nat /\ ~(m <= m - 1)
    BY <1>5
  <2>2. QED
    BY <1>1, <2>1
<1>7. PICK q \in Seq(Int) : g[m - 1] = g[j] \o q
  BY <1>5, <1>6
<1>8. g[m] = g[m - 1] \o s[m]
  <2> HIDE DEF T
  <2>1. QED
    BY <1>5 DEF IsStreamOf
<1>9. s[m] \in Seq(Int) /\ g[j] \in Seq(Int)
  BY <1>3, <1>5
<1>10. q \o s[m] \in Seq(Int)
  BY <1>9, ConcatProperties
<1>11. (g[j] \o q) \o s[m] = g[j] \o (q \o s[m])
  BY <1>9, PiecesTogether, ZenonT(40)
<1>12. g[m] = g[j] \o (q \o s[m])
  BY <1>7, <1>8, <1>11
<1>13. QED
  BY <1>2, <1>10, <1>12

\* The stream goes on, after the packages handed over, with the next one.
LEMMA StreamGoesOn ==
    ASSUME NEW s \in PackageLists, NEW t \in PackageLists, IsPrefix(s, t), Len(s) < Len(t)
    PROVE  \E r \in Seq(Int) : Stream(t) = (Stream(s) \o t[Len(s) + 1]) \o r
<1> DEFINE k == Len(s)
           n == Len(t)
<1>1. k \in Nat /\ n \in Nat /\ k + 1 \in 1 .. n /\ t # << >>
  BY EmptySeq, LenProperties DEF PackageLists
<1>2. \A i \in 1 .. k : s[i] = t[i]
  <2>1. s = SubSeq(t, 1, k)
    BY SubSeqFull DEF IsPrefix, PackageLists
  <2>2. \A i \in 1 .. k : t[i] \in Seq(Int)
    BY <1>1, ElementOfSeq DEF PackageLists
  <2>3. \A i \in 1 .. k - 1 + 1 : SubSeq(t, 1, k)[i] = t[1 + i - 1]
    BY <1>1, <2>2, SubSeqProperties
  <2>4. QED
    BY <1>1, <2>1, <2>3
<1>3. PICK h : IsStreamOf(h, t, n) /\ Stream(t) = h[n]
  BY <1>1, StreamIs
<1>4. h[k + 1] = Stream(s) \o t[k + 1]
  <2>1. t[k + 1] \in Seq(Int)
    BY <1>1, ElementOfSeq DEF PackageLists
  <2>2. h[k + 1] = IF k = 0 THEN t[k + 1] ELSE h[k] \o t[k + 1]
    <3>1. (k + 1 = 1 <=> k = 0) /\ (k + 1) - 1 = k
      BY <1>1
    <3>2. QED
      BY <1>1, <1>3, <3>1 DEF IsStreamOf
  <2>3. CASE s = << >>
    BY <2>1, <2>2, <2>3, StreamBytes, ConcatEmptySeq
  <2>4. CASE s # << >>
    <3>1. k # 0
      BY <2>4, EmptySeq DEF PackageLists
    <3>2. PICK g : IsStreamOf(g, s, k) /\ Stream(s) = g[k]
      BY <2>4, StreamIs
    <3>3. \A i \in 1 .. k : g[i] = h[i]
      <4>1. k <= n
        BY <1>1
      <4> HIDE DEF k, n
      <4>2. QED
        BY <1>1, <1>2, <1>3, <3>2, <4>1, StreamUnique
    <3>4. g[k] = h[k]
      BY <1>1, <3>1, <3>3
    <3>5. QED
      BY <2>2, <3>1, <3>2, <3>4
  <2>5. QED
    BY <2>3, <2>4
<1>5. \A i \in 1 .. n : t[i] \in Seq(Int)
  BY ElementOfSeq DEF PackageLists
<1>6. \A i \in k + 1 .. n : \E r \in Seq(Int) : h[i] = h[k + 1] \o r
  <2>1. PICK j \in 1 .. n : j = k + 1
    BY <1>1
  <2>2. IsStreamOf(h, t, n) /\ n \in Nat
    BY <1>1, <1>3
  <2>3. Continues(h, j, n)
    <3> HIDE DEF k, n
    <3>1. QED
      BY <1>5, <2>2, StreamContinues
  <2>4. QED
    BY <2>1, <2>3 DEF Continues
<1>7. n \in k + 1 .. n
  BY <1>1
<1>8. QED
  BY <1>3, <1>4, <1>6, <1>7

-----------------------------------------------------------------------------
(* The decoder, as long as no connection broke inside a package.           *)
(*                                                                         *)
(* NothingLost alone does not say that what is in the cache is the         *)
(* beginning of one package: Begun does, since what follows the packages   *)
(* handed over begins with the next one.  So the header that is looked at  *)
(* is that package's, is never rejected, and the cache is filled to the    *)
(* end of the package and not beyond.                                      *)

IsPackage(p) ==
    /\ p \in Seq(Int)
    /\ Len(p) \in HeaderSize .. PackageMax
    /\ p[1] = StartFlag /\ p[2] = Len(p) /\ p[3] = EndCheck(Len(p))

ByteStreams ==
    /\ sent \in PackageLists /\ got \in PackageLists
    /\ cache \in Seq(Int) /\ in \in Seq(Int) /\ wire \in Seq(Int)
    /\ \A i \in 1 .. Len(sent) : IsPackage(sent[i])

\* The package that is to be handed over next.
NextPackage == sent[Len(got) + 1]

Begun == cache # << >> => Len(got) < Len(sent) /\ Len(cache) < Len(NextPackage)

IInv ==
    /\ clean \in BOOLEAN
    /\ NothingLost
    /\ clean => ByteStreams /\ Begun

-----------------------------------------------------------------------------
(* Sequences of bytes. *)

\* What is taken from the front and what is left make up the whole.
LEMMA SplitAt ==
    ASSUME NEW s \in Seq(Int), NEW m \in 0 .. Len(s)
    PROVE  /\ SubSeq(s, 1, m) \in Seq(Int) /\ Len(SubSeq(s, 1, m)) = m
           /\ From(s, m + 1) \in Seq(Int) /\ Len(From(s, m + 1)) = Len(s) - m
           /\ SubSeq(s, 1, m) \o From(s, m + 1) = s
<1> DEFINE a == SubSeq(s, 1, m)
           b == SubSeq(s, m + 1, Len(s))
           n == Len(s)
<1>1. n \in Nat /\ m \in Int /\ m <= n /\ 0 <= m /\ \A i \in 1 .. n : s[i] \in Int
  BY ElementOfSeq, LenProperties
<1>2. a \in Seq(Int) /\ Len(a) = m /\ \A i \in 1 .. m : a[i] = s[i]
  <2>1. /\ a \in Seq(Int)
        /\ Len(a) = IF 1 <= m THEN m - 1 + 1 ELSE 0
        /\ \A i \in 1 .. m - 1 + 1 : a[i] = s[1 + i - 1]
    BY <1>1, SubSeqProperties
  <2> HIDE DEF a
  <2>2. QED
    BY <1>1, <2>1
<1>3. b \in Seq(Int) /\ Len(b) = n - m /\ \A i \in 1 .. n - m : b[i] = s[m + i]
  <2>1. /\ b \in Seq(Int)
        /\ Len(b) = IF m + 1 <= n THEN n - (m + 1) + 1 ELSE 0
        /\ \A i \in 1 .. n - (m + 1) + 1 : b[i] = s[m + 1 + i - 1]
    BY <1>1, SubSeqProperties
  <2> HIDE DEF b, n
  <2>2. QED
    BY <1>1, <2>1
<1> HIDE DEF a, b
<1>4. /\ a \o b \in Seq(Int) /\ Len(a \o b) = n
      /\ \A i \in 1 .. n : (a \o b)[i] = IF i <= m THEN a[i] ELSE b[i - m]
  <2>1. /\ a \o b \in Seq(Int)
        /\ Len(a \o b) = Len(a) + Len(b)
        /\ \A i \in 1 .. Len(a) + Len(b) :
              (a \o b)[i] = IF i <= Len(a) THEN a[i] ELSE b[i - Len(a)]
    BY <1>2, <1>3, ConcatProperties
  <2>2. Len(a) + Len(b) = n
    BY <1>1, <1>2, <1>3
  <2>3. QED
    BY <1>2, <2>1, <2>2
<1>5. \A i \in 1 .. n : (a \o b)[i] = s[i]
  BY <1>1, <1>2, <1>3, <1>4, SMTT(30)
<1>6. a \o b = s
  BY <1>4, <1>5, SeqEqual
<1>7. QED
  BY <1>2, <1>3, <1>6 DEF a, b, From

\* Of two beginnings of the same bytes, the shorter begins the longer.
LEMMA SameBytes ==
    ASSUME NEW a \in Seq(Int), NEW x \in Seq(Int), NEW b \in Seq(Int), NEW y \in Seq(Int),
           a \o x = b \o y, Len(a) <= Len(b)
    PROVE  /\ \A i \in 1 .. Len(a) : a[i] = b[i]
           /\ Len(a) = Len(b) => a = b
<1>1. \A i \in 1 .. Len(a) + Len(x) : (a \o x)[i] = IF i <= Len(a) THEN a[i] ELSE x[i - Len(a)]
  BY ConcatProperties
<1>2. \A i \in 1 .. Len(b) + Len(y) : (b \o y)[i] = IF i <= Len(b) THEN b[i] ELSE y[i - Len(b)]
  BY ConcatProperties
<1>3. Len(a) \in Nat /\ Len(b) \in Nat /\ Len(x) \in Nat /\ Len(y) \in Nat
  BY LenProperties
<1>4. \A i \in 1 .. Len(a) : a[i] = b[i]
  <2> TAKE i \in 1 .. Len(a)
  <2>1. i \in 1 .. Len(a) + Len(x) /\ i \in 1 .. Len(b) + Len(y) /\ i <= Len(a) /\ i <= Len(b)
    BY <1>3
  <2>2. QED
    BY <1>1, <1>2, <2>1
<1>5. Len(a) = Len(b) => a = b
  BY <1>4, SeqEqual
<1>6. QED
  BY <1>4, <1>5

-----------------------------------------------------------------------------

\* What Package makes is a package.
LEMMA PackageShape == \A p \in Payloads : IsPackage(Package(p))
<1> SUFFICES ASSUME NEW p \in Payloads PROVE IsPackage(Package(p))
  OBVIOUS
<1> DEFINE n == 3 + Len(p)
           h == <<StartFlag, n, EndCheck(n)>>
<1>1. p \in Seq(Int) /\ Len(p) \in Nat /\ n <= PackageMax /\ PackageMax \in Int
  <2>1. p \in Seq(Nat) /\ n <= PackageMax /\ PackageMax \in Nat
    BY DecoderAssumption DEF HeaderSize
  <2>2. Len(p) \in Nat /\ \A i \in 1 .. Len(p) : p[i] \in Nat
    BY <2>1
  <2>3. p = [i \in 1 .. Len(p) |-> p[i]]
    BY <2>1
  <2>4. p \in Seq(Int)
    BY <2>2, <2>3
  <2>5. QED
    BY <2>1, <2>2, <2>4
<1>2. /\ h \in Seq(Int) /\ Len(h) = 3
      /\ h[1] = StartFlag /\ h[2] = n /\ h[3] = EndCheck(n)
  BY <1>1 DEF StartFlag, EndCheck
<1>3. Package(p) = h \o p
  BY DEF Package, HeaderSize
<1> HIDE DEF h
<1>4. /\ h \o p \in Seq(Int)
      /\ Len(h \o p) = n
      /\ \A i \in 1 .. n : (h \o p)[i] = IF i <= 3 THEN h[i] ELSE p[i - 3]
  <2>1. /\ h \o p \in Seq(Int)
        /\ Len(h \o p) = Len(h) + Len(p)
        /\ \A i \in 1 .. Len(h) + Len(p) :
              (h \o p)[i] = IF i <= Len(h) THEN h[i] ELSE p[i - Len(h)]
    BY <1>1, <1>2, ConcatProperties
  <2>2. QED
    BY <1>2, <2>1
<1>5. n \in 3 .. PackageMax /\ 1 \in 1 .. n /\ 2 \in 1 .. n /\ 3 \in 1 .. n
  BY <1>1
<1>6. (h \o p)[1] = h[1] /\ (h \o p)[2] = h[2] /\ (h \o p)[3] = h[3]
  <2> HIDE DEF n
  <2>1. QED
    BY <1>4, <1>5
<1> HIDE DEF n
<1>7. QED
  BY <1>2, <1>3, <1>4, <1>5, <1>6 DEF IsPackage, HeaderSize

\* As long as there are bytes in the decoder, there is a next package, and what is in
\* the decoder and under way begins with it.
LEMMA NextPackageLemma ==
    ASSUME IInv, clean, in # << >>
    PROVE  /\ Len(got) < Len(sent) /\ IsPackage(NextPackage)
           /\ Len(cache) < Len(NextPackage)
           /\ \E r \in Seq(Int) : cache \o (in \o wire) = NextPackage \o r
<1>1. /\ sent \in PackageLists /\ got \in PackageLists
      /\ cache \in Seq(Int) /\ in \in Seq(Int) /\ wire \in Seq(Int)
      /\ \A i \in 1 .. Len(sent) : IsPackage(sent[i])
      /\ IsPrefix(got, sent) /\ ((Stream(got) \o cache) \o in) \o wire = Stream(sent)
      /\ Begun
  BY DEF IInv, ByteStreams, NothingLost
<1>2. in \o wire \in Seq(Int) /\ cache \o (in \o wire) \in Seq(Int) /\ Stream(got) \in Seq(Int)
  BY <1>1, StreamBytes, ConcatProperties
<1>3. Stream(sent) = Stream(got) \o (cache \o (in \o wire))
  <2>1. Stream(got) \o cache \in Seq(Int)
    BY <1>1, <1>2, ConcatProperties
  <2>2. ((Stream(got) \o cache) \o in) \o wire = (Stream(got) \o cache) \o (in \o wire)
    BY <1>1, <2>1, PiecesTogether
  <2>3. (Stream(got) \o cache) \o (in \o wire) = Stream(got) \o (cache \o (in \o wire))
    BY <1>1, <1>2, PiecesTogether, ZenonT(40)
  <2>4. QED
    BY <1>1, <2>2, <2>3
<1>4. Len(got) \in Nat /\ Len(sent) \in Nat /\ Len(got) <= Len(sent) /\ got = SubSeq(sent, 1, Len(got))
  BY <1>1, SubSeqFull DEF IsPrefix, PackageLists
<1>5. Len(got) # Len(sent)
  <2> SUFFICES ASSUME Len(got) = Len(sent) PROVE FALSE
    OBVIOUS
  <2>1. got = sent
    BY <1>1, <1>4, SubSeqFull DEF PackageLists
  <2>2. cache \o (in \o wire) = << >>
    BY <1>2, <1>3, <2>1, ConcatEqualIffEmpty
  <2>3. in \o wire = << >>
    BY <1>1, <1>2, <2>2, ConcatEqualIffEmpty
  <2>4. in = << >>
    BY <1>1, <2>3, ConcatEqualIffEmpty
  <2>5. QED
    BY <2>4
<1>6. Len(got) < Len(sent) /\ Len(got) + 1 \in 1 .. Len(sent)
  BY <1>4, <1>5
<1>7. IsPackage(NextPackage)
  BY <1>1, <1>6 DEF NextPackage
<1>8. NextPackage \in Seq(Int) /\ Len(NextPackage) \in 3 .. PackageMax
  BY <1>7 DEF IsPackage, HeaderSize
<1>9. Len(cache) < Len(NextPackage)
  <2>1. CASE cache = << >>
    BY <1>8, <2>1
  <2>2. CASE cache # << >>
    BY <1>1, <2>2 DEF Begun
  <2>3. QED
    BY <2>1, <2>2
<1>10. PICK r \in Seq(Int) : Stream(sent) = (Stream(got) \o NextPackage) \o r
  BY <1>1, <1>6, StreamGoesOn DEF NextPackage
<1>11. Stream(got) \o (cache \o (in \o wire)) = Stream(got) \o (NextPackage \o r)
  BY <1>2, <1>3, <1>8, <1>10, PiecesTogether
<1>12. NextPackage \o r \in Seq(Int)
  BY <1>8, ConcatProperties
<1>13. cache \o (in \o wire) = NextPackage \o r
  BY <1>2, <1>11, <1>12, ConcatSimplifications
<1>14. QED
  BY <1>6, <1>7, <1>9, <1>13

\* The cache with the first m of the bytes that were received.
With(m) == cache \o SubSeq(in, 1, m)

\* What is taken of the bytes that were received continues the package, and what is left
\* follows it.
LEMMA Taken ==
    ASSUME IInv, clean, in # << >>, NEW m \in 0 .. Len(in), Len(cache) + m <= Len(NextPackage)
    PROVE  /\ With(m) \in Seq(Int) /\ Len(With(m)) = Len(cache) + m
           /\ From(in, m + 1) \in Seq(Int)
           /\ With(m) \o From(in, m + 1) = cache \o in
           /\ \A i \in 1 .. Len(With(m)) : With(m)[i] = NextPackage[i]
           /\ Len(With(m)) = Len(NextPackage) => With(m) = NextPackage
<1> DEFINE a == SubSeq(in, 1, m)
           b == From(in, m + 1)
           c == With(m)
<1>1. cache \in Seq(Int) /\ in \in Seq(Int) /\ wire \in Seq(Int)
  BY DEF IInv, ByteStreams
<1>2. a \in Seq(Int) /\ Len(a) = m /\ b \in Seq(Int) /\ a \o b = in
  BY <1>1, SplitAt
<1>3. c = cache \o a
  BY DEF With
<1> HIDE DEF a, b, c
<1>4. c \in Seq(Int) /\ Len(c) = Len(cache) + m
  <2>1. cache \o a \in Seq(Int) /\ Len(cache \o a) = Len(cache) + Len(a)
    BY <1>1, <1>2, ConcatProperties
  <2>2. QED
    BY <1>2, <1>3, <2>1
<1>5. c \o b = cache \o in
  <2>1. (cache \o a) \o b = cache \o (a \o b)
    BY <1>1, <1>2, PiecesTogether, ZenonT(40)
  <2>2. QED
    BY <1>2, <1>3, <2>1
<1>6. b \o wire \in Seq(Int)
  BY <1>1, <1>2, ConcatProperties
<1>7. c \o (b \o wire) = cache \o (in \o wire)
  <2>1. c \o (b \o wire) = (c \o b) \o wire
    BY <1>1, <1>2, <1>4, PiecesTogether, ZenonT(40)
  <2>2. (cache \o in) \o wire = cache \o (in \o wire)
    BY <1>1, PiecesTogether
  <2>3. QED
    BY <1>5, <2>1, <2>2
<1>8. PICK r \in Seq(Int) : cache \o (in \o wire) = NextPackage \o r
  BY NextPackageLemma
<1>9. NextPackage \in Seq(Int)
  BY NextPackageLemma DEF IsPackage
<1>10. /\ \A i \in 1 .. Len(c) : c[i] = NextPackage[i]
       /\ Len(c) = Len(NextPackage) => c = NextPackage
  <2>1. c \o (b \o wire) = NextPackage \o r /\ Len(c) <= Len(NextPackage)
    BY <1>4, <1>7, <1>8
  <2>2. QED
    BY <1>4, <1>6, <1>9, <2>1, SameBytes
<1>11. QED
  BY <1>2, <1>4, <1>5, <1>10 DEF b, c

\* A start flag in front is found there.
LEMMA FlagInFront ==
    ASSUME NEW s \in Seq(Int), s # << >>, s[1] = StartFlag
    PROVE  FindHeaderStart(s) = 1
<1> DEFINE I == {i \in 1 .. Len(s) : s[i] = StartFlag}
<1>1. 1 \in I /\ \A i \in I : 1 <= i
  BY EmptySeq, LenProperties
<1>2. Min(I) = 1
  <2>1. \A x \in I : (\A y \in I : x <= y) => x = 1
    <3> SUFFICES ASSUME NEW x \in I, \A y \in I : x <= y PROVE x = 1
      OBVIOUS
    <3>1. x \in Int /\ x <= 1 /\ 1 <= x
      BY <1>1
    <3>2. QED
      BY <3>1
  <2> HIDE DEF I
  <2>2. QED
    BY <1>1, <2>1 DEF Min
<1>3. QED
  BY <1>1, <1>2 DEF FindHeaderStart, SelectInSeq

\* The header is filled from the bytes received, none is skipped, and there is at least
\* one, unless it is whole already.
LEMMA HeaderTakes ==
    ASSUME IInv, clean, in # << >>
    PROVE  \E m \in 0 .. Len(in) :
              /\ Header.cache = With(m)
              /\ Header.eaten = m
              /\ Len(cache) + m <= Len(NextPackage)
              /\ Len(cache) < HeaderSize => m > 0
<1>1. cache \in Seq(Int) /\ in \in Seq(Int) /\ Len(in) \in Nat \ {0} /\ Len(cache) \in Nat
  BY EmptySeq, LenProperties DEF IInv, ByteStreams
<1>2. /\ IsPackage(NextPackage) /\ Len(cache) < Len(NextPackage)
      /\ Len(NextPackage) \in Int /\ HeaderSize <= Len(NextPackage)
  BY NextPackageLemma DEF IsPackage
<1>3. CASE Len(cache) >= HeaderSize
  <2>1. Header.cache = cache /\ Header.eaten = 0
    BY <1>1, <1>3 DEF Header, HeaderSize
  <2>2. SubSeq(in, 1, 0) = << >>
    BY SubSeqEmpty
  <2>3. cache \o << >> = cache
    BY <1>1, ConcatEmptySeq
  <2>4. 0 \in 0 .. Len(in) /\ Len(cache) + 0 <= Len(NextPackage) /\ ~(Len(cache) < HeaderSize)
    BY <1>1, <1>2, <1>3 DEF HeaderSize
  <2>5. Header.cache = With(0)
    BY <2>1, <2>2, <2>3 DEF With
  <2>6. QED
    BY <2>1, <2>4, <2>5
<1>4. CASE Len(cache) < HeaderSize
  <2> DEFINE m == Least(HeaderSize - Len(cache), Len(in))
  <2>1. cache = << >> => FindHeaderStart(in) = 1
    <3> SUFFICES ASSUME cache = << >> PROVE FindHeaderStart(in) = 1
      OBVIOUS
    <3>1. 1 \in 0 .. Len(in) /\ Len(cache) = 0
      BY <1>1, EmptySeq
    <3> DEFINE a == SubSeq(in, 1, 1)
    <3>2. a \in Seq(Int) /\ Len(a) = 1 /\ a[1] = in[1]
      <4>1. \A i \in 1 .. 1 : in[i] \in Int
        BY <1>1, ElementOfSeq
      <4>2. /\ a \in Seq(Int) /\ Len(a) = IF 1 <= 1 THEN 1 - 1 + 1 ELSE 0
            /\ \A i \in 1 .. 1 - 1 + 1 : a[i] = in[1 + i - 1]
        BY <4>1, SubSeqProperties
      <4> HIDE DEF a
      <4>3. QED
        BY <4>2
    <3> HIDE DEF a
    <3>3. cache \o a = a
      BY <3>2, ConcatEmptySeq
    <3>4. a = With(1) /\ Len(cache) + 1 <= Len(NextPackage)
      BY <1>2, <3>1, <3>3 DEF a, With, HeaderSize
    <3>5. \A i \in 1 .. Len(a) : a[i] = NextPackage[i]
      BY <3>1, <3>4, Taken
    <3>6. in[1] = StartFlag
      BY <1>2, <3>2, <3>5 DEF IsPackage
    <3>7. QED
      BY <1>1, <3>6, FlagInFront
  <2>2. Header = [cache |-> cache \o SubSeq(in, 0 + 1, 0 + Least(HeaderSize - Len(cache), Len(in) - 0)),
                  eaten |-> 0 + Least(HeaderSize - Len(cache), Len(in) - 0)]
    <3>1. Header = FillHeader(cache, in)
      BY <1>4 DEF Header
    <3>2. CASE cache = << >>
      <4>1. FindHeaderStart(in) = 1
        BY <2>1, <3>2
      <4>2. (IF cache # << >> THEN 0 ELSE IF FindHeaderStart(in) = 0 THEN Len(in) ELSE FindHeaderStart(in) - 1) = 0
        BY <3>2, <4>1
      <4>3. QED
        BY <3>1, <4>2 DEF FillHeader
    <3>3. CASE cache # << >>
      BY <3>1, <3>3 DEF FillHeader
    <3>4. QED
      BY <3>2, <3>3
  <2>3. m \in 1 .. Len(in) /\ m <= HeaderSize - Len(cache) /\ 0 + Least(HeaderSize - Len(cache), Len(in) - 0) = m
    BY <1>1, <1>4 DEF Least, HeaderSize
  <2> HIDE DEF m
  <2>4. Header.cache = With(m) /\ Header.eaten = m
    BY <2>2, <2>3 DEF With
  <2>5. m \in 0 .. Len(in) /\ Len(cache) + m <= Len(NextPackage) /\ m > 0
    BY <1>1, <1>2, <2>3 DEF HeaderSize
  <2>6. QED
    BY <2>4, <2>5
<1>5. Len(cache) >= HeaderSize \/ Len(cache) < HeaderSize
  BY <1>1 DEF HeaderSize
<1>6. QED
  BY <1>3, <1>4, <1>5

\* What is needed of the package is taken after what was needed of its header.
LEMMA TakeMore ==
    ASSUME NEW s \in Seq(Int), NEW k \in 0 .. Len(s), NEW n \in 0 .. Len(s) - k
    PROVE  SubSeq(s, 1, k) \o SubSeq(From(s, k + 1), 1, n) = SubSeq(s, 1, k + n)
<1> DEFINE a == SubSeq(s, 1, k)
           b == From(s, k + 1)
           c == SubSeq(s, 1, k + n)
           x == SubSeq(b, 1, n)
           l == Len(s)
<1>1. l \in Nat /\ k \in 0 .. l /\ n \in 0 .. l - k /\ k + n \in 0 .. l
  BY LenProperties
<1>2. a \in Seq(Int) /\ Len(a) = k /\ b \in Seq(Int) /\ Len(b) = l - k /\ a \o b = s
  BY SplitAt
<1>3. c \in Seq(Int) /\ Len(c) = k + n /\ From(s, k + n + 1) \in Seq(Int) /\ c \o From(s, k + n + 1) = s
  BY <1>1, SplitAt
<1>4. x \in Seq(Int) /\ Len(x) = n /\ From(b, n + 1) \in Seq(Int) /\ x \o From(b, n + 1) = b
  <2> HIDE DEF a, b, c
  <2>1. n \in 0 .. Len(b)
    BY <1>1, <1>2
  <2>2. QED
    BY <1>2, <2>1, SplitAt
<1> HIDE DEF a, b, c, x, l
<1>5. a \o x \in Seq(Int) /\ Len(a \o x) = k + n
  BY <1>2, <1>4, ConcatProperties
<1>6. (a \o x) \o From(b, n + 1) = c \o From(s, k + n + 1)
  <2>1. (a \o x) \o From(b, n + 1) = a \o (x \o From(b, n + 1))
    BY <1>2, <1>4, PiecesTogether, ZenonT(40)
  <2>2. QED
    BY <1>2, <1>3, <1>4, <2>1
<1>7. a \o x = c
  <2>1. Len(a \o x) = Len(c) /\ Len(a \o x) <= Len(c)
    BY <1>1, <1>3, <1>5
  <2>2. QED
    BY <1>3, <1>4, <1>5, <1>6, <2>1, SameBytes
<1>8. QED
  BY <1>7 DEF a, b, c, x

\* What it is to begin a sequence of packages.
LEMMA PrefixIs ==
    ASSUME NEW s \in PackageLists, NEW t \in PackageLists
    PROVE  IsPrefix(s, t) <=> Len(s) <= Len(t) /\ \A i \in 1 .. Len(s) : s[i] = t[i]
<1>1. Len(s) \in Nat /\ Len(t) \in Nat /\ s = SubSeq(s, 1, Len(s))
  BY SubSeqFull, LenProperties DEF PackageLists
<1>2. ASSUME Len(s) <= Len(t)
      PROVE  s = SubSeq(t, 1, Len(s)) <=> \A i \in 1 .. Len(s) : s[i] = t[i]
  <2> DEFINE u == SubSeq(t, 1, Len(s))
  <2>1. u \in PackageLists /\ Len(u) = Len(s) /\ \A i \in 1 .. Len(s) : u[i] = t[i]
    <3>1. \A i \in 1 .. Len(s) : t[i] \in Seq(Int)
      BY <1>1, <1>2, ElementOfSeq DEF PackageLists
    <3>2. /\ u \in PackageLists
          /\ Len(u) = IF 1 <= Len(s) THEN Len(s) - 1 + 1 ELSE 0
          /\ \A i \in 1 .. Len(s) - 1 + 1 : u[i] = t[1 + i - 1]
      BY <1>1, <3>1, SubSeqProperties DEF PackageLists
    <3> HIDE DEF u
    <3>3. QED
      BY <1>1, <3>2
  <2> HIDE DEF u
  <2>2. s = u <=> \A i \in 1 .. Len(s) : s[i] = u[i]
    BY <2>1, SeqEqual DEF PackageLists
  <2>3. QED
    BY <2>1, <2>2 DEF u
<1>3. QED
  BY <1>1, <1>2 DEF IsPrefix

-----------------------------------------------------------------------------
(* The steps. *)

\* Taking bytes of a package that was begun keeps the invariant, when there are more to
\* come and when the package is complete.
LEMMA TakingKeeps ==
    ASSUME IInv, clean, in # << >>, UNCHANGED <<sent, wire, breaks, clean>>,
           NEW m \in 1 .. Len(in), in' = From(in, m + 1), Len(cache) + m <= Len(NextPackage),
           \/ Len(With(m)) < Len(NextPackage) /\ cache' = With(m) /\ got' = got
           \/ Len(With(m)) = Len(NextPackage) /\ cache' = << >> /\ got' = Append(got, With(m))
    PROVE  IInv'
<1>1. /\ sent \in PackageLists /\ got \in PackageLists
      /\ cache \in Seq(Int) /\ in \in Seq(Int) /\ wire \in Seq(Int)
      /\ \A i \in 1 .. Len(sent) : IsPackage(sent[i])
      /\ IsPrefix(got, sent) /\ ((Stream(got) \o cache) \o in) \o wire = Stream(sent)
      /\ clean \in BOOLEAN
  BY DEF IInv, ByteStreams, NothingLost
<1>2. Len(got) < Len(sent) /\ NextPackage \in Seq(Int)
  BY NextPackageLemma DEF IsPackage
<1>3. /\ With(m) \in Seq(Int) /\ in' \in Seq(Int) /\ With(m) \o in' = cache \o in
      /\ Len(With(m)) = Len(NextPackage) => With(m) = NextPackage
  <2>1. m \in 0 .. Len(in)
    BY <1>1, LenProperties
  <2>2. QED
    BY <2>1, Taken
<1>4. Stream(got) \in Seq(Int)
  BY <1>1, StreamBytes
<1>5. ((Stream(got) \o With(m)) \o in') \o wire = Stream(sent)
  <2>1. (Stream(got) \o With(m)) \o in' = Stream(got) \o (With(m) \o in')
    BY <1>3, <1>4, PiecesTogether
  <2>2. (Stream(got) \o cache) \o in = Stream(got) \o (cache \o in)
    BY <1>1, <1>4, PiecesTogether
  <2>3. QED
    BY <1>1, <1>3, <2>1, <2>2
<1>6. CASE Len(With(m)) < Len(NextPackage) /\ cache' = With(m) /\ got' = got
  <2>1. ByteStreams'
    BY <1>1, <1>3, <1>6 DEF ByteStreams
  <2>2. NothingLost'
    BY <1>1, <1>5, <1>6 DEF NothingLost
  <2>3. Begun'
    BY <1>2, <1>6 DEF Begun, NextPackage
  <2>4. QED
    BY <1>1, <2>1, <2>2, <2>3 DEF IInv
<1>7. CASE Len(With(m)) = Len(NextPackage) /\ cache' = << >> /\ got' = Append(got, With(m))
  <2>1. got' = Append(got, NextPackage)
    BY <1>3, <1>7
  <2>2. /\ got' \in PackageLists /\ Len(got') = Len(got) + 1 /\ Len(got) \in Nat /\ Len(sent) \in Nat
        /\ got'[Len(got) + 1] = NextPackage /\ \A i \in 1 .. Len(got) : got'[i] = got[i]
    BY <1>1, <1>2, <2>1, AppendProperties, LenProperties DEF PackageLists
  <2>3. IsPrefix(got', sent)
    <3>1. \A i \in 1 .. Len(got) : got[i] = sent[i]
      BY <1>1, PrefixIs
    <3>2. \A i \in 1 .. Len(got) + 1 : got'[i] = sent[i]
      <4> TAKE i \in 1 .. Len(got) + 1
      <4>1. i \in 1 .. Len(got) \/ i = Len(got) + 1
        BY <2>2
      <4>2. QED
        BY <2>2, <3>1, <4>1 DEF NextPackage
    <3>3. Len(got') <= Len(sent)
      BY <1>2, <2>2
    <3>4. QED
      BY <1>1, <2>2, <3>2, <3>3, PrefixIs
  <2>4. Stream(got') = Stream(got) \o With(m)
    BY <1>1, <1>2, <1>3, <1>7, <2>1, StreamAppended
  <2>5. (Stream(got') \o << >>) = Stream(got')
    BY <2>2, StreamBytes, ConcatEmptySeq
  <2>6. << >> \in Seq(Int)
    BY EmptySeq
  <2>7. ByteStreams'
    BY <1>1, <1>3, <1>7, <2>2, <2>6 DEF ByteStreams
  <2>8. NothingLost'
    BY <1>1, <1>5, <1>7, <2>3, <2>4, <2>5 DEF NothingLost
  <2>9. Begun'
    BY <1>7 DEF Begun
  <2>10. QED
    BY <1>1, <2>7, <2>8, <2>9 DEF IInv
<1>8. QED
  BY <1>6, <1>7

\* Sending appends a package to the stream and to what is under way.
LEMMA SendKeeps ==
    ASSUME IInv, clean, NEW p \in Payloads, Send(p)
    PROVE  IInv'
<1> DEFINE P == Package(p)
<1>1. /\ sent \in PackageLists /\ got \in PackageLists
      /\ cache \in Seq(Int) /\ in \in Seq(Int) /\ wire \in Seq(Int)
      /\ \A i \in 1 .. Len(sent) : IsPackage(sent[i])
      /\ IsPrefix(got, sent) /\ ((Stream(got) \o cache) \o in) \o wire = Stream(sent)
      /\ Begun /\ clean \in BOOLEAN
  BY DEF IInv, ByteStreams, NothingLost
<1>2. IsPackage(P) /\ P \in Seq(Int)
  BY PackageShape DEF IsPackage
<1> HIDE DEF P
<1>3. /\ sent' = Append(sent, P) /\ wire' = wire \o P
      /\ in' = in /\ cache' = cache /\ got' = got /\ clean' = clean
  BY DEF Send, P
<1>4. /\ sent' \in PackageLists /\ Len(sent') = Len(sent) + 1 /\ Len(sent) \in Nat /\ Len(got) \in Nat
      /\ sent'[Len(sent) + 1] = P /\ \A i \in 1 .. Len(sent) : sent'[i] = sent[i]
  BY <1>1, <1>2, <1>3, AppendProperties, LenProperties DEF PackageLists
<1>5. ByteStreams'
  <2>1. \A i \in 1 .. Len(sent') : IsPackage(sent'[i])
    <3> TAKE i \in 1 .. Len(sent')
    <3>1. i \in 1 .. Len(sent) \/ i = Len(sent) + 1
      BY <1>4
    <3>2. QED
      BY <1>1, <1>2, <1>4, <3>1
  <2>2. wire' \in Seq(Int)
    BY <1>1, <1>2, <1>3, ConcatProperties
  <2>3. (\A i \in 1 .. Len(sent) : IsPackage(sent[i]))'
    BY <2>1 DEF IsPackage
  <2>4. QED
    BY <1>1, <1>3, <1>4, <2>2, <2>3 DEF ByteStreams
<1>6. NothingLost'
  <2>1. Len(got) <= Len(sent) /\ \A i \in 1 .. Len(got) : got[i] = sent[i]
    BY <1>1, PrefixIs
  <2>2. Len(got) <= Len(sent') /\ \A i \in 1 .. Len(got) : got[i] = sent'[i]
    BY <1>4, <2>1
  <2>3. IsPrefix(got, sent')
    BY <1>1, <1>4, <2>2, PrefixIs
  <2>4. Stream(sent') = Stream(sent) \o P
    BY <1>1, <1>2, <1>3, StreamAppended
  <2>5. (Stream(got) \o cache) \o in \in Seq(Int)
    <3>1. Stream(got) \in Seq(Int)
      BY <1>1, StreamBytes
    <3>2. Stream(got) \o cache \in Seq(Int)
      BY <1>1, <3>1, ConcatProperties
    <3>3. QED
      BY <1>1, <3>2, ConcatProperties
  <2>6. ((Stream(got) \o cache) \o in) \o (wire \o P) = (((Stream(got) \o cache) \o in) \o wire) \o P
    BY <1>1, <1>2, <2>5, PiecesTogether
  <2>7. QED
    BY <1>1, <1>3, <2>3, <2>4, <2>6 DEF NothingLost
<1>7. Begun'
  <2> SUFFICES ASSUME cache # << >> PROVE Len(got) < Len(sent') /\ Len(cache) < Len(sent'[Len(got) + 1])
    BY <1>3 DEF Begun, NextPackage
  <2>1. Len(got) < Len(sent) /\ Len(cache) < Len(sent[Len(got) + 1])
    BY <1>1 DEF Begun, NextPackage
  <2>2. QED
    BY <1>4, <2>1
<1>8. QED
  BY <1>1, <1>3, <1>5, <1>6, <1>7 DEF IInv

\* Receiving moves bytes from what is under way to the decoder.
LEMMA ReceiveKeeps ==
    ASSUME IInv, clean, NEW n \in 1 .. Len(wire), Receive(n)
    PROVE  IInv'
<1>1. /\ sent \in PackageLists /\ got \in PackageLists
      /\ cache \in Seq(Int) /\ wire \in Seq(Int)
      /\ \A i \in 1 .. Len(sent) : IsPackage(sent[i])
      /\ IsPrefix(got, sent) /\ ((Stream(got) \o cache) \o in) \o wire = Stream(sent)
      /\ Begun /\ clean \in BOOLEAN
  BY DEF IInv, ByteStreams, NothingLost
<1>2. /\ in = << >> /\ in' = SubSeq(wire, 1, n) /\ wire' = From(wire, n + 1)
      /\ sent' = sent /\ cache' = cache /\ got' = got /\ clean' = clean
  BY DEF Receive
<1>3. in' \in Seq(Int) /\ wire' \in Seq(Int) /\ in' \o wire' = wire
  <2>1. n \in 0 .. Len(wire)
    BY <1>1, LenProperties
  <2>2. QED
    BY <1>1, <1>2, <2>1, SplitAt
<1>4. ByteStreams'
  BY <1>1, <1>2, <1>3 DEF ByteStreams
<1>5. NothingLost'
  <2>1. Stream(got) \o cache \in Seq(Int)
    BY <1>1, StreamBytes, ConcatProperties
  <2>2. (Stream(got) \o cache) \o << >> = Stream(got) \o cache
    BY <2>1, ConcatEmptySeq
  <2>3. ((Stream(got) \o cache) \o in') \o wire' = (Stream(got) \o cache) \o (in' \o wire')
    BY <1>3, <2>1, PiecesTogether
  <2>4. QED
    BY <1>1, <1>2, <1>3, <2>2, <2>3 DEF NothingLost
<1>6. Begun'
  BY <1>1, <1>2 DEF Begun, NextPackage
<1>7. QED
  BY <1>1, <1>2, <1>4, <1>5, <1>6 DEF IInv

\* A connection that breaks between two packages leaves nothing behind.
LEMMA BreakKeeps ==
    ASSUME IInv, clean, Break, cache = << >>
    PROVE  IInv'
<1>1. /\ in' = << >> /\ wire' = << >> /\ sent' = << >> /\ got' = << >> /\ cache' = << >>
      /\ clean' \in BOOLEAN
  BY DEF Break
<1>2. << >> \in Seq(Int) /\ << >> \in PackageLists /\ Stream(<< >>) = << >>
  BY EmptySeq, StreamBytes DEF PackageLists
<1>3. ByteStreams'
  BY <1>1, <1>2 DEF ByteStreams
<1>4. NothingLost'
  <2>1. IsPrefix(<< >>, << >>)
    BY <1>2, PrefixIs
  <2>2. << >> \o << >> = << >>
    BY <1>2, ConcatEmptySeq
  <2>3. QED
    BY <1>1, <1>2, <2>1, <2>2 DEF NothingLost
<1>5. Begun'
  BY <1>1 DEF Begun
<1>6. QED
  BY <1>1, <1>3, <1>4, <1>5 DEF IInv

\* A header that is not whole yet is shorter than its package.
LEMMA HeaderIncompleteKeeps ==
    ASSUME IInv, clean, HeaderIncomplete
    PROVE  IInv'
<1>1. in # << >> /\ UNCHANGED <<sent, wire, breaks, clean, got>>
  BY DEF HeaderIncomplete
<1>2. PICK m \in 0 .. Len(in) :
          /\ Header.cache = With(m) /\ Header.eaten = m
          /\ Len(cache) + m <= Len(NextPackage)
          /\ Len(cache) < HeaderSize => m > 0
  BY <1>1, HeaderTakes
<1>3. Len(With(m)) < HeaderSize /\ cache' = With(m) /\ in' = IF m = 0 THEN << >> ELSE From(in, m + 1)
  BY <1>2 DEF HeaderIncomplete, Eat
<1>4. Len(With(m)) = Len(cache) + m
  BY <1>1, <1>2, Taken
<1>5. Len(cache) \in Nat /\ Len(in) \in Nat
  BY LenProperties, <1>1 DEF IInv, ByteStreams
<1>6. m \in 1 .. Len(in) /\ in' = From(in, m + 1)
  BY <1>2, <1>3, <1>4, <1>5 DEF HeaderSize
<1>7. Len(With(m)) < Len(NextPackage)
  <2>1. Len(NextPackage) \in HeaderSize .. PackageMax
    BY <1>1, NextPackageLemma DEF IsPackage
  <2>2. QED
    BY <1>3, <1>4, <1>5, <2>1 DEF HeaderSize
<1>8. QED
  BY <1>1, <1>2, <1>3, <1>6, <1>7, TakingKeeps

\* The header of the next package is never rejected.
LEMMA HeaderIsValid ==
    ASSUME IInv, clean, in # << >>, Len(Header.cache) >= HeaderSize
    PROVE  HeaderValid(Header.cache) /\ Header.cache[2] = Len(NextPackage)
<1>1. PICK m \in 0 .. Len(in) : Header.cache = With(m) /\ Len(cache) + m <= Len(NextPackage)
  BY HeaderTakes
<1>2. With(m) \in Seq(Int) /\ \A i \in 1 .. Len(With(m)) : With(m)[i] = NextPackage[i]
  BY <1>1, Taken
<1>3. /\ Len(NextPackage) \in HeaderSize .. PackageMax
      /\ NextPackage[1] = StartFlag /\ NextPackage[2] = Len(NextPackage)
      /\ NextPackage[3] = EndCheck(Len(NextPackage))
  BY NextPackageLemma DEF IsPackage
<1>4. 1 \in 1 .. Len(With(m)) /\ 2 \in 1 .. Len(With(m)) /\ 3 \in 1 .. Len(With(m))
  BY <1>1, <1>2, LenProperties DEF HeaderSize
<1>5. With(m)[1] = NextPackage[1] /\ With(m)[2] = NextPackage[2] /\ With(m)[3] = NextPackage[3]
  BY <1>2, <1>4
<1>6. QED
  BY <1>1, <1>3, <1>5 DEF HeaderValid

\* The payload is filled to the end of the package and not beyond.
LEMMA PayloadFilledKeeps ==
    ASSUME IInv, clean, PayloadFilled
    PROVE  IInv'
<1>1. in # << >> /\ Len(Header.cache) >= HeaderSize /\ UNCHANGED <<sent, wire, breaks, clean>>
  BY DEF PayloadFilled
<1>2. PICK k \in 0 .. Len(in) :
          /\ Header.cache = With(k) /\ Header.eaten = k
          /\ Len(cache) + k <= Len(NextPackage)
          /\ Len(cache) < HeaderSize => k > 0
  BY <1>1, HeaderTakes
<1>3. With(k)[2] = Len(NextPackage) /\ Len(With(k)) = Len(cache) + k
  BY <1>1, <1>2, HeaderIsValid, Taken
<1>4. /\ cache \in Seq(Int) /\ in \in Seq(Int)
      /\ Len(cache) \in Nat /\ Len(in) \in Nat \ {0} /\ Len(NextPackage) \in Nat
      /\ HeaderSize <= Len(NextPackage) /\ Len(cache) < Len(NextPackage)
  BY <1>1, NextPackageLemma, LenProperties, EmptySeq DEF IInv, ByteStreams, IsPackage, HeaderSize
<1> DEFINE rest == From(in, k + 1)
           n == FillPayload(With(k), rest)
           m == k + n
<1>5. Len(rest) = Len(in) - k
  BY <1>2, <1>4, SplitAt
<1>6. /\ n \in 0 .. Len(in) - k /\ m \in 1 .. Len(in) /\ Len(cache) + m <= Len(NextPackage)
  <2>1. n = IF Len(NextPackage) - (Len(cache) + k) < Len(in) - k
            THEN Len(NextPackage) - (Len(cache) + k) ELSE Len(in) - k
    <3> HIDE DEF rest
    <3>1. ~(With(k)[2] < Len(With(k)))
      BY <1>2, <1>3, <1>4
    <3>2. QED
      BY <1>3, <1>5, <3>1 DEF FillPayload, Least
  <2> HIDE DEF n
  <2>2. k \in Nat /\ k <= Len(in)
    BY <1>2, <1>4
  <2>3. QED
    BY <1>2, <1>4, <2>1, <2>2 DEF HeaderSize
<1>7. With(k) \o SubSeq(rest, 1, n) = With(m)
  <2> DEFINE a == SubSeq(in, 1, k)
             b == SubSeq(rest, 1, n)
  <2>1. a \o b = SubSeq(in, 1, m)
    BY <1>2, <1>4, <1>6, TakeMore
  <2>2. a \in Seq(Int) /\ rest \in Seq(Int)
    BY <1>2, <1>4, SplitAt
  <2>3. b \in Seq(Int)
    <3> HIDE DEF rest, n
    <3>1. n \in 0 .. Len(rest)
      BY <1>5, <1>6
    <3>2. QED
      BY <2>2, <3>1, SplitAt
  <2>4. (cache \o a) \o b = cache \o (a \o b)
    <3> HIDE DEF a, b
    <3>1. QED
      BY <1>4, <2>2, <2>3, PiecesTogether, ZenonT(40)
  <2>5. QED
    BY <2>1, <2>4 DEF With
<1>8. /\ IF PackageReady(With(m)) THEN got' = Notified(With(m)) /\ cache' = << >>
                                  ELSE cache' = With(m) /\ got' = got
      /\ in' = IF m = 0 THEN << >> ELSE From(in, m + 1)
  <2>1. LET x == Header.cache \o SubSeq(rest, 1, n)
        IN  /\ IF PackageReady(x) THEN got' = Notified(x) /\ cache' = << >>
                                  ELSE cache' = x /\ got' = got
            /\ Eat(m)
    BY <1>2 DEF PayloadFilled
  <2> HIDE DEF rest, n, m
  <2>2. QED
    BY <1>2, <1>7, <2>1 DEF Eat
<1> HIDE DEF rest, n, m
<1>9. Len(With(m)) = Len(cache) + m /\ \A i \in 1 .. Len(With(m)) : With(m)[i] = NextPackage[i]
  <2>1. m \in 0 .. Len(in)
    BY <1>6
  <2>2. QED
    BY <1>1, <1>6, <2>1, Taken
<1>10. With(m)[2] = Len(NextPackage)
  <2>1. NextPackage[2] = Len(NextPackage)
    BY <1>1, NextPackageLemma DEF IsPackage
  <2>2. m >= k /\ Len(With(k)) >= HeaderSize
    BY <1>1, <1>2, <1>6 DEF m
  <2>3. 2 \in 1 .. Len(With(m))
    BY <1>2, <1>3, <1>4, <1>6, <1>9, <2>2 DEF HeaderSize
  <2>4. QED
    BY <1>9, <2>1, <2>3
<1>11. \/ Len(With(m)) < Len(NextPackage) /\ cache' = With(m) /\ got' = got
       \/ Len(With(m)) = Len(NextPackage) /\ cache' = << >> /\ got' = Append(got, With(m))
  <2>1. PackageReady(With(m)) <=> Len(With(m)) >= Len(NextPackage)
    BY <1>10 DEF PackageReady
  <2>2. Len(With(m)) \in Nat /\ Len(With(m)) <= Len(NextPackage)
    BY <1>4, <1>6, <1>9
  <2>3. ASSUME Len(With(m)) = Len(NextPackage)
        PROVE  Notified(With(m)) = Append(got, With(m))
    BY <1>10, <2>3 DEF Notified
  <2>4. QED
    BY <1>4, <1>8, <2>1, <2>2, <2>3
<1>12. in' = From(in, m + 1)
  BY <1>6, <1>8
<1>13. QED
  BY <1>1, <1>6, <1>11, <1>12, TakingKeeps

-----------------------------------------------------------------------------

\* The invariant holds in every state.
THEOREM Invariance == DecoderSpec => []IInv
<1>1. DecoderInit => IInv
  <2> SUFFICES ASSUME DecoderInit PROVE IInv
    OBVIOUS
  <2>1. << >> \in Seq(Int) /\ << >> \in PackageLists /\ Stream(<< >>) = << >>
    BY EmptySeq, StreamBytes DEF PackageLists
  <2>2. IsPrefix(<< >>, << >>) /\ << >> \o << >> = << >>
    BY <2>1, PrefixIs, ConcatEmptySeq
  <2>3. QED
    BY <2>1, <2>2 DEF DecoderInit, IInv, ByteStreams, NothingLost, Begun
<1>2. IInv /\ [DecoderNext]_decoderVars => IInv'
  <2> SUFFICES ASSUME IInv, [DecoderNext]_decoderVars PROVE IInv'
    OBVIOUS
  <2>1. CASE ~clean
    <3>1. clean' = FALSE
      BY <2>1 DEF DecoderNext, Send, Receive, Break, Pushback1Package, HeaderIncomplete,
        HeaderRejected, PayloadFilled, decoderVars, IInv
    <3>2. QED
      BY <3>1 DEF IInv, NothingLost
  <2>2. CASE clean /\ UNCHANGED decoderVars
    BY <2>2 DEF decoderVars, IInv, NothingLost, ByteStreams, Begun, NextPackage
  <2>3. ASSUME clean, NEW p \in Payloads, Send(p) PROVE IInv'
    BY <2>3, SendKeeps
  <2>4. ASSUME clean, NEW n \in 1 .. Len(wire), Receive(n) PROVE IInv'
    BY <2>4, ReceiveKeeps
  <2>5. CASE clean /\ Break
    <3>1. CASE cache = << >>
      BY <2>5, <3>1, BreakKeeps
    <3>2. CASE cache # << >>
      <4>1. clean' = FALSE
        BY <2>5, <3>2 DEF Break
      <4>2. QED
        BY <4>1 DEF IInv, NothingLost
    <3>3. QED
      BY <3>1, <3>2
  <2>6. CASE clean /\ HeaderIncomplete
    BY <2>6, HeaderIncompleteKeeps
  <2>7. CASE clean /\ HeaderRejected
    BY <2>7, HeaderIsValid DEF HeaderRejected
  <2>8. CASE clean /\ PayloadFilled
    BY <2>8, PayloadFilledKeeps
  <2>9. QED
    BY <2>1, <2>2, <2>3, <2>4, <2>5, <2>6, <2>7, <2>8 DEF DecoderNext, Pushback1Package
<1>3. QED
  BY <1>1, <1>2, PTL DEF DecoderSpec

\* As long as no connection broke inside a package, no byte of the stream is lost, doubled,
\* or moved to another package, however recv cut it.
THEOREM NoByteIsLost == DecoderSpec => []NothingLost
<1>1. IInv => NothingLost
  BY DEF IInv
<1>2. QED
  BY <1>1, Invariance, PTL

-----------------------------------------------------------------------------
(* The types, after broken connections too: the cache never fills its buffer. *)

\* A part of a sequence of bytes, and how long it is.
LEMMA BytesTaken ==
    ASSUME NEW s \in Seq(Nat), NEW m \in Nat, NEW n \in 0 .. Len(s), m >= 1
    PROVE  SubSeq(s, m, n) \in Seq(Nat) /\ Len(SubSeq(s, m, n)) = IF m <= n THEN n - m + 1 ELSE 0
<1>1. Len(s) \in Nat /\ \A i \in 1 .. Len(s) : s[i] \in Nat
  BY ElementOfSeq, LenProperties
<1>2. \A i \in m .. n : s[i] \in Nat
  BY <1>1
<1> QED
  BY <1>2, SubSeqProperties

\* What is left behind the first n bytes.
LEMMA BytesLeft ==
    ASSUME NEW s \in Seq(Nat), NEW n \in 0 .. Len(s)
    PROVE  From(s, n + 1) \in Seq(Nat) /\ Len(From(s, n + 1)) = Len(s) - n
<1>1. Len(s) \in Nat
  BY LenProperties
<1>2. Len(s) \in 0 .. Len(s) /\ n + 1 \in Nat /\ n + 1 >= 1
  BY <1>1
<1>3. /\ SubSeq(s, n + 1, Len(s)) \in Seq(Nat)
      /\ Len(SubSeq(s, n + 1, Len(s))) = IF n + 1 <= Len(s) THEN Len(s) - (n + 1) + 1 ELSE 0
  BY <1>2, BytesTaken
<1> QED
  BY <1>1, <1>3 DEF From

\* Where the first start flag is.
LEMMA FlagFound ==
    ASSUME NEW s \in Seq(Nat)
    PROVE  FindHeaderStart(s) \in 0 .. Len(s)
<1> DEFINE I == {i \in 1 .. Len(s) : s[i] = StartFlag}
<1>1. Len(s) \in Nat /\ I \in SUBSET Nat /\ I \subseteq 1 .. Len(s)
  BY LenProperties
<1>2. I # {} => Min(I) \in I
  <2> SUFFICES ASSUME I # {} PROVE Min(I) \in I
    OBVIOUS
  <2> HIDE DEF I
  <2>1. \E n \in I : \A m \in I : n <= m
    BY <1>1, LeastNumber
  <2> QED
    BY <2>1 DEF Min
<1>3. FindHeaderStart(s) = IF I # {} THEN Min(I) ELSE 0
  BY DEF FindHeaderStart, SelectInSeq
<1> QED
  BY <1>1, <1>2, <1>3

\* What is sent is bytes.
LEMMA PackageIsBytes == \A p \in Payloads : Package(p) \in Seq(Nat)
<1> TAKE p \in Payloads
<1>1. p \in Seq(Nat) /\ Len(p) \in Nat
  BY DecoderAssumption, LenProperties
<1> DEFINE n == HeaderSize + Len(p)
<1>2. n \in Nat
  BY <1>1 DEF HeaderSize
<1> HIDE DEF n
<1>3. EndCheck(n) \in Nat
  BY <1>2 DEF EndCheck
<1>4. <<StartFlag, n, EndCheck(n)>> \in Seq(Nat)
  BY <1>2, <1>3 DEF StartFlag
<1>5. <<StartFlag, n, EndCheck(n)>> \o p \in Seq(Nat)
  BY <1>1, <1>4, ConcatProperties
<1> QED
  BY <1>5 DEF Package, n

\* The header is filled with bytes that are there, and is not overfilled.
LEMMA HeaderTypes ==
    ASSUME cache \in Seq(Nat), in \in Seq(Nat), Len(cache) < PackageMax
    PROVE  /\ Header.cache \in Seq(Nat) /\ Len(Header.cache) \in Nat
           /\ Len(Header.cache) < PackageMax
           /\ Header.eaten \in 0 .. Len(in)
<1>0. PackageMax \in Nat /\ HeaderSize < PackageMax /\ HeaderSize = 3
  BY DecoderAssumption DEF HeaderSize
<1>1. Len(cache) \in Nat /\ Len(in) \in Nat
  BY LenProperties
<1>2. CASE ~(Len(cache) < HeaderSize)
  BY <1>1, <1>2 DEF Header
<1>3. CASE Len(cache) < HeaderSize
  <2> DEFINE i    == FindHeaderStart(in)
             skip == IF cache # << >> THEN 0 ELSE IF i = 0 THEN Len(in) ELSE i - 1
             n    == Least(HeaderSize - Len(cache), Len(in) - skip)
             part == SubSeq(in, skip + 1, skip + n)
  <2>1. skip \in 0 .. Len(in)
    BY <1>1, FlagFound
  <2>2. Header.cache = cache \o part /\ Header.eaten = skip + n
    BY <1>3 DEF Header, FillHeader
  <2> HIDE DEF skip
  <2>3. /\ n \in Nat /\ n <= HeaderSize - Len(cache) /\ n <= Len(in) - skip
        /\ skip + n \in 0 .. Len(in) /\ skip + 1 \in Nat /\ skip + 1 >= 1
    BY <1>0, <1>1, <1>3, <2>1 DEF Least
  <2> HIDE DEF n
  <2>4. part \in Seq(Nat) /\ Len(part) = IF skip + 1 <= skip + n THEN (skip + n) - (skip + 1) + 1 ELSE 0
    BY <2>3, BytesTaken
  <2>5. Len(part) = n
    BY <2>1, <2>3, <2>4
  <2> HIDE DEF part
  <2>6. cache \o part \in Seq(Nat) /\ Len(cache \o part) = Len(cache) + Len(part)
    BY <2>4, ConcatProperties
  <2>7. Len(cache \o part) <= HeaderSize
    BY <1>0, <1>1, <2>3, <2>5, <2>6
  <2>8. Len(cache \o part) \in Nat
    BY <1>1, <2>3, <2>5, <2>6
  <2> QED
    BY <1>0, <2>2, <2>3, <2>6, <2>7, <2>8
<1> QED
  BY <1>2, <1>3

\* What is not eaten is bytes.
LEMMA LeftAreBytes ==
    ASSUME in \in Seq(Nat), NEW n \in 0 .. Len(in), Eat(n)
    PROVE  in' \in Seq(Nat)
<1>1. From(in, n + 1) \in Seq(Nat)
  BY BytesLeft
<1>2. << >> \in Seq(Nat)
  OBVIOUS
<1> QED
  BY <1>1, <1>2 DEF Eat

\* Whatever the cache holds, one round leaves it shorter than its buffer.
LEMMA RoundTypes ==
    ASSUME cache \in Seq(Nat), in \in Seq(Nat), Len(cache) < PackageMax, Pushback1Package
    PROVE  /\ cache' \in Seq(Nat) /\ Len(cache') < PackageMax /\ in' \in Seq(Nat)
           /\ got' = got \/ \E c \in Seq(Nat) : got' = Append(got, c)
<1> DEFINE h == Header.cache
           e == Header.eaten
<1>0. PackageMax \in Nat /\ HeaderSize < PackageMax /\ HeaderSize = 3
  BY DecoderAssumption DEF HeaderSize
<1>1. h \in Seq(Nat) /\ Len(h) \in Nat /\ Len(h) < PackageMax /\ e \in 0 .. Len(in)
  BY HeaderTypes
<1>2. Len(in) \in Nat
  BY LenProperties
<1>3. CASE HeaderIncomplete
  <2>1. cache' = h /\ Eat(e) /\ got' = got
    BY <1>3 DEF HeaderIncomplete
  <2> HIDE DEF h, e
  <2>2. in' \in Seq(Nat)
    BY <1>1, <2>1, LeftAreBytes
  <2> QED
    BY <1>1, <2>1, <2>2
<1>4. CASE HeaderRejected
  <2>1. cache' = ReFindHeaderStart(h) /\ Eat(e) /\ got' = got
    BY <1>4 DEF HeaderRejected
  <2> HIDE DEF h, e
  <2>2. in' \in Seq(Nat)
    BY <1>1, <2>1, LeftAreBytes
  <2> DEFINE i == FindHeaderStart(h)
             k == i - 1
  <2>3. i \in 0 .. Len(h)
    BY <1>1, FlagFound
  <2>4. ReFindHeaderStart(h) = IF i = 0 THEN << >> ELSE From(h, i)
    BY DEF ReFindHeaderStart
  <2> HIDE DEF i
  <2>5. CASE i = 0
    <3>1. << >> \in Seq(Nat) /\ Len(<< >>) = 0
      OBVIOUS
    <3> QED
      BY <1>0, <2>1, <2>2, <2>4, <2>5, <3>1
  <2>6. CASE i # 0
    <3>1. k \in 0 .. Len(h) /\ k + 1 = i
      BY <1>1, <2>3, <2>6
    <3> HIDE DEF k
    <3>2. From(h, k + 1) \in Seq(Nat) /\ Len(From(h, k + 1)) = Len(h) - k
      BY <1>1, <3>1, BytesLeft
    <3>3. cache' = From(h, k + 1)
      BY <2>1, <2>4, <2>6, <3>1
    <3>4. Len(h) - k < PackageMax
      BY <1>0, <1>1, <3>1
    <3> QED
      BY <2>1, <2>2, <3>2, <3>3, <3>4
  <2> QED
    BY <2>5, <2>6
<1>5. CASE PayloadFilled
  <2> DEFINE rest == From(in, e + 1)
             n    == FillPayload(h, rest)
             part == SubSeq(rest, 1, n)
             c    == h \o part
  <2>1. /\ Len(h) >= HeaderSize /\ HeaderValid(h)
        /\ IF PackageReady(c) THEN got' = Notified(c) /\ cache' = << >>
                              ELSE cache' = c /\ got' = got
        /\ Eat(e + n)
    BY <1>5 DEF PayloadFilled
  <2> HIDE DEF h, e
  <2>2. rest \in Seq(Nat) /\ Len(rest) = Len(in) - e
    BY <1>1, BytesLeft
  <2>3. h[2] \in Nat /\ h[2] <= PackageMax
    <3>1. 2 \in 1 .. Len(h)
      BY <1>0, <1>1, <2>1
    <3>2. h[2] \in Nat
      BY <1>1, <3>1, ElementOfSeq
    <3> QED
      BY <2>1, <3>2 DEF HeaderValid
  <2> HIDE DEF rest
  <2>4. Len(rest) \in Nat
    BY <1>1, <1>2, <2>2
  <2>5. n \in 0 .. Len(rest)
    BY <1>1, <2>3, <2>4 DEF FillPayload, Least
  <2>6. e + n \in 0 .. Len(in)
    BY <1>1, <1>2, <2>2, <2>5
  <2> HIDE DEF n
  <2>7. in' \in Seq(Nat)
    <3> DEFINE m == e + n
    <3>1. m \in 0 .. Len(in) /\ Eat(m)
      BY <2>1, <2>6
    <3> HIDE DEF m
    <3> QED
      BY <3>1, LeftAreBytes
  <2>8. part \in Seq(Nat)
    <3> DEFINE one == 1
    <3>1. one \in Nat /\ one >= 1
      OBVIOUS
    <3> HIDE DEF one
    <3>2. SubSeq(rest, one, n) \in Seq(Nat)
      BY <2>2, <2>5, <3>1, BytesTaken
    <3> QED
      BY <3>2 DEF one
  <2> HIDE DEF part
  <2>9. /\ c \in Seq(Nat) /\ Len(c) = Len(h) + Len(part) /\ Len(part) \in Nat
        /\ \A i \in 1 .. Len(h) + Len(part) : c[i] = IF i <= Len(h) THEN h[i] ELSE part[i - Len(h)]
    BY <1>1, <2>8, ConcatProperties, LenProperties
  <2>10. c[2] = h[2]
    <3>1. 2 \in 1 .. Len(h) + Len(part) /\ 2 <= Len(h)
      BY <1>0, <1>1, <2>1, <2>9
    <3> QED
      BY <2>9, <3>1
  <2>11. ~PackageReady(c) => Len(c) < PackageMax
    BY <1>0, <1>1, <2>3, <2>9, <2>10 DEF PackageReady
  <2>12. << >> \in Seq(Nat) /\ Len(<< >>) < PackageMax
    BY <1>0
  <2> HIDE DEF c
  <2>13. cache' \in Seq(Nat) /\ Len(cache') < PackageMax
    BY <2>1, <2>9, <2>11, <2>12
  <2>14. got' = got \/ got' = Append(got, c)
    BY <2>1 DEF Notified
  <2> QED
    BY <2>7, <2>9, <2>13, <2>14
<1> QED
  BY <1>3, <1>4, <1>5 DEF Pushback1Package

\* Lists of packages.
ByteLists == Seq(Seq(Nat))

\* Appending, whatever is appended.
LEMMA AppendedTo ==
    ASSUME NEW l \in ByteLists, NEW c \in Seq(Nat)
    PROVE  Append(l, c) \in ByteLists
BY AppendProperties DEF ByteLists

\* The types, with lists of packages named: what the steps keep.
DecoderTypes ==
    /\ sent \in ByteLists /\ got \in ByteLists
    /\ wire \in Seq(Nat) /\ in \in Seq(Nat) /\ cache \in Seq(Nat)
    /\ Len(cache) < PackageMax
    /\ breaks \in 0 .. MaxBreaks /\ clean \in BOOLEAN

\* A step of the decoder, its sender or its connection keeps the types.
LEMMA DecoderTypesKept == DecoderTypes /\ [DecoderNext]_decoderVars => DecoderTypes'
<1> SUFFICES ASSUME DecoderTypes, [DecoderNext]_decoderVars PROVE DecoderTypes'
  OBVIOUS
<1>1. ASSUME NEW p \in Payloads, Send(p) PROVE DecoderTypes'
  <2>1. /\ sent' = Append(sent, Package(p)) /\ wire' = wire \o Package(p)
        /\ in' = in /\ cache' = cache /\ got' = got /\ breaks' = breaks /\ clean' = clean
    BY <1>1 DEF Send
  <2>2. Package(p) \in Seq(Nat)
    BY PackageIsBytes
  <2>3. sent' \in ByteLists
    BY <2>1, <2>2, AppendedTo DEF DecoderTypes
  <2>4. wire' \in Seq(Nat)
    BY <2>1, <2>2, ConcatProperties DEF DecoderTypes
  <2> QED
    BY <2>1, <2>3, <2>4 DEF DecoderTypes
<1>2. ASSUME NEW n \in 1 .. Len(wire), Receive(n) PROVE DecoderTypes'
  <2>1. /\ in' = SubSeq(wire, 1, n) /\ wire' = From(wire, n + 1)
        /\ sent' = sent /\ cache' = cache /\ got' = got /\ breaks' = breaks /\ clean' = clean
    BY <1>2 DEF Receive
  <2>2. n \in 0 .. Len(wire) /\ wire \in Seq(Nat)
    BY LenProperties DEF DecoderTypes
  <2>3. From(wire, n + 1) \in Seq(Nat)
    BY <2>2, BytesLeft
  <2>4. SubSeq(wire, 1, n) \in Seq(Nat)
    <3> DEFINE one == 1
    <3>1. one \in Nat /\ one >= 1
      OBVIOUS
    <3> HIDE DEF one
    <3>2. SubSeq(wire, one, n) \in Seq(Nat)
      BY <2>2, <3>1, BytesTaken
    <3> QED
      BY <3>2 DEF one
  <2> QED
    BY <2>1, <2>3, <2>4 DEF DecoderTypes
<1>3. CASE Break
  <2>1. /\ breaks < MaxBreaks /\ breaks' = breaks + 1
        /\ wire' = << >> /\ sent' = << >> /\ got' = << >> /\ in' = in /\ cache' = cache
    BY <1>3 DEF Break
  <2>2. clean' \in BOOLEAN
    BY <1>3, Zenon DEF Break
  <2>3. << >> \in ByteLists /\ << >> \in Seq(Nat)
    BY DEF ByteLists
  <2>4. breaks' \in 0 .. MaxBreaks
    BY <2>1, DecoderAssumption DEF DecoderTypes
  <2> QED
    BY <2>1, <2>2, <2>3, <2>4 DEF DecoderTypes
<1>4. CASE Pushback1Package
  <2>1. sent' = sent /\ wire' = wire /\ breaks' = breaks /\ clean' = clean
    BY <1>4 DEF Pushback1Package, HeaderIncomplete, HeaderRejected, PayloadFilled
  <2>2. /\ cache' \in Seq(Nat) /\ Len(cache') < PackageMax /\ in' \in Seq(Nat)
        /\ got' = got \/ \E c \in Seq(Nat) : got' = Append(got, c)
    BY <1>4, RoundTypes DEF DecoderTypes
  <2>3. got' \in ByteLists
    BY <2>2, AppendedTo DEF DecoderTypes
  <2> QED
    BY <2>1, <2>2, <2>3 DEF DecoderTypes
<1>5. CASE UNCHANGED decoderVars
  BY <1>5 DEF decoderVars, DecoderTypes
<1> QED
  BY <1>1, <1>2, <1>3, <1>4, <1>5 DEF DecoderNext

\* The decoder's buffers hold bytes, and what it keeps is always shorter than the
\* buffer m_pBufPackageCache, whatever a broken connection left in it.
THEOREM DecoderTypeCorrect == DecoderSpec => []DecoderTypeOK
<1>1. DecoderInit => DecoderTypes
  <2>1. << >> \in ByteLists /\ << >> \in Seq(Nat) /\ Len(<< >>) = 0
    BY DEF ByteLists
  <2>2. 0 < PackageMax
    BY DecoderAssumption DEF HeaderSize
  <2> QED
    BY <2>1, <2>2, DecoderAssumption DEF DecoderInit, DecoderTypes
<1>2. DecoderTypes => DecoderTypeOK
  BY Zenon DEF DecoderTypes, DecoderTypeOK, ByteLists
<1> QED
  BY <1>1, <1>2, DecoderTypesKept, PTL DEF DecoderSpec

(***************************************************************************)
(* ServerLife: who is inside the lock of a dk_socket_server, and whose     *)
(* socket is current, for any number of connections.                       *)
(*                                                                         *)
(* That the receive thread closes the connection it lost rests on the      *)
(* mutual exclusion of LLXTSHelper, which holds until the destructor       *)
(* cancels all access: between the comparison with m_sockConn and the      *)
(* closing nobody else stores a connection.                                *)
(***************************************************************************)

\* Where the threads are.
Places == {"none", "wait", "enter", "accept", "store", "leave", "read", "recv", "callback",
           "lost", "compare", "close", "forget", "sending", "ended"}

\* The types, one variable at a time.
ServerTypes ==
    /\ life \in {"new", "running", "listen closed", "closed", "exit set", "cancelled", "gone"}
    /\ access \in BOOLEAN /\ cancelled \in BOOLEAN
    /\ needExit \in BOOLEAN /\ listening \in BOOLEAN
    /\ cur \in Conns \cup {NoConn}
    /\ open \in SUBSET Conns /\ unused \in SUBSET Conns /\ pending \in SUBSET Conns
    /\ data \in SUBSET Conns /\ ended \in SUBSET Conns
    /\ pc \in [Users -> Places]
    /\ sock \in [Users -> Conns \cup {NoConn}]
    /\ inside \in SUBSET Users
    /\ raced \in SUBSET {"replaced", "late"}

\* The places between safeEnterFunc and safeExitFunc.
Section ==
    [u \in Users |-> IF u = "accept" THEN {"store", "leave"}
                    ELSE IF u = "receive" THEN {"read", "compare", "close", "forget", "leave"}
                    ELSE {"read"}]

\* Until all access is cancelled, one thread at a time is there.
Exclusive ==
    ~cancelled =>
        /\ \A u \in Users : u \in inside <=> pc[u] \in Section[u]
        /\ IF access THEN inside = {} ELSE \E u \in Users : inside = {u}

\* Access is cancelled when the destructor has closed the sockets.
CancelledLate == cancelled => life \in {"cancelled", "gone"}

\* Before start() there is no thread.
NotStarted == life = "new" => \A u \in Users : pc[u] = "none"

\* What the receive thread is about to close is what it lost.
LostIsCurrent ==
    life \in {"new", "running", "listen closed"} /\ pc["receive"] = "close" =>
        cur = sock["receive"]

\* The inductive invariant.
ServerIInv == ServerTypes /\ Exclusive /\ NotStarted /\ CancelledLate /\ LostIsCurrent

\* A thread that goes on is at one of its places.
LEMMA GoesOn ==
    ASSUME pc \in [Users -> Places], NEW u, NEW from, NEW to \in Places, Goes(u, from, to)
    PROVE  pc' \in [Users -> Places]
BY DEF Goes

\* The others stay where they are.
LEMMA OthersStay ==
    ASSUME pc \in [Users -> Places], NEW u, NEW from, NEW to, Goes(u, from, to),
           NEW v \in Users, u # v
    PROVE  pc'[v] = pc[v]
BY DEF Goes

\* The types hold in every state.
LEMMA ServerTypesKept == ServerTypes /\ [ServerNext]_serverVars => ServerTypes'
<1> SUFFICES ASSUME ServerTypes, [ServerNext]_serverVars PROVE ServerTypes'
  OBVIOUS
<1> USE DEF ServerTypes
<1>1. CASE UNCHANGED serverVars
  BY <1>1 DEF serverVars, lockVars, peerVars
<1>2. CASE Peers
  BY <1>2 DEF Peers, Connects, PeerSends, PeerCloses, lockVars
<1>3. CASE AcceptThread
  <2>0. /\ "wait" \in Places /\ "ended" \in Places /\ "accept" \in Places /\ "enter" \in Places
        /\ "store" \in Places /\ "leave" \in Places /\ "accept" \in Users
    BY DEF Places, Users
  <2>1. CASE WaitEnds("accept")
    <3>1. pc' \in [Users -> Places]
      BY <2>0, <2>1, GoesOn DEF WaitEnds
    <3>2. QED
      BY <2>0, <2>1, <3>1 DEF WaitEnds, lockVars, peerVars
  <2>2. CASE WaitTimesOut("accept", "accept")
    <3>1. pc' \in [Users -> Places]
      BY <2>0, <2>2, GoesOn DEF WaitTimesOut
    <3>2. QED
      BY <2>0, <2>2, <3>1 DEF WaitTimesOut, lockVars, peerVars
  <2>3. CASE AcceptFails
    <3>1. pc' \in [Users -> Places]
      BY <2>0, <2>3, GoesOn DEF AcceptFails
    <3>2. QED
      BY <2>0, <2>3, <3>1 DEF AcceptFails, lockVars, peerVars
  <2>4. ASSUME NEW c \in Conns, Accepted(c) PROVE ServerTypes'
    <3>1. pc' \in [Users -> Places]
      BY <2>0, <2>4, GoesOn DEF Accepted
    <3>2. QED
      BY <2>0, <2>4, <3>1 DEF Accepted, lockVars, peerVars
  <2>5. CASE AcceptEnters
    <3>1. pc' \in [Users -> Places]
      BY <2>0, <2>5, GoesOn DEF AcceptEnters
    <3>2. QED
      BY <2>0, <2>5, <3>1 DEF AcceptEnters, SafeEnter, SafeEnterFails, lockVars, peerVars
  <2>6. CASE Stored
    <3>1. pc' \in [Users -> Places]
      BY <2>0, <2>6, GoesOn DEF Stored
    <3>2. QED
      BY <2>0, <2>6, <3>1 DEF Stored, lockVars, peerVars
  <2>7. CASE AcceptLeaves
    <3>1. pc' \in [Users -> Places]
      BY <2>0, <2>7, GoesOn DEF AcceptLeaves
    <3>2. QED
      BY <2>0, <2>7, <3>1 DEF AcceptLeaves, SafeExit, lockVars, peerVars
  <2>9. QED
    BY <1>3, <2>1, <2>2, <2>3, <2>4, <2>5, <2>6, <2>7 DEF AcceptThread
<1>4. CASE ReceiveThread
  <2>0. /\ "wait" \in Places /\ "ended" \in Places /\ "enter" \in Places /\ "leave" \in Places
        /\ "read" \in Places /\ "recv" \in Places /\ "callback" \in Places /\ "lost" \in Places
        /\ "compare" \in Places /\ "close" \in Places /\ "forget" \in Places /\ "receive" \in Users
    BY DEF Places, Users
  <2>1. CASE WaitEnds("receive")
    <3>1. pc' \in [Users -> Places]
      BY <2>0, <2>1, GoesOn DEF WaitEnds
    <3>2. QED
      BY <2>0, <2>1, <3>1 DEF WaitEnds, lockVars, peerVars
  <2>2. CASE WaitTimesOut("receive", "enter")
    <3>1. pc' \in [Users -> Places]
      BY <2>0, <2>2, GoesOn DEF WaitTimesOut
    <3>2. QED
      BY <2>0, <2>2, <3>1 DEF WaitTimesOut, lockVars, peerVars
  <2>3. CASE ReceiveEnters
    <3>1. pc' \in [Users -> Places]
      BY <2>0, <2>3, GoesOn DEF ReceiveEnters
    <3>2. QED
      BY <2>0, <2>3, <3>1 DEF ReceiveEnters, SafeEnter, SafeEnterFails, lockVars, peerVars
  <2>4. CASE ReceiveReads
    <3>1. pc' \in [Users -> Places]
      BY <2>0, <2>4, GoesOn DEF ReceiveReads
    <3>2. QED
      BY <2>0, <2>4, <3>1 DEF ReceiveReads, SafeExit, lockVars, peerVars
  <2>5. CASE Received
    <3>1. pc' \in [Users -> Places]
      BY <2>0, <2>5, GoesOn DEF Received
    <3>2. QED
      BY <2>0, <2>5, <3>1 DEF Received, lockVars, peerVars
  <2>6. CASE CallbackReturns
    <3>1. pc' \in [Users -> Places]
      BY <2>0, <2>6, GoesOn DEF CallbackReturns
    <3>2. QED
      BY <2>0, <2>6, <3>1 DEF CallbackReturns, lockVars, peerVars
  <2>7. CASE ReceiveFails
    <3>1. pc' \in [Users -> Places]
      BY <2>0, <2>7, GoesOn DEF ReceiveFails
    <3>2. QED
      BY <2>0, <2>7, <3>1 DEF ReceiveFails, lockVars, peerVars
  <2>8. CASE LostEnters
    <3>1. pc' \in [Users -> Places]
      BY <2>0, <2>8, GoesOn DEF LostEnters
    <3>2. QED
      BY <2>0, <2>8, <3>1 DEF LostEnters, SafeEnter, SafeEnterFails, lockVars, peerVars
  <2>9. CASE Compares
    <3>1. pc' \in [Users -> Places]
      BY <2>0, <2>9, GoesOn DEF Compares
    <3>2. QED
      BY <2>0, <2>9, <3>1 DEF Compares, lockVars, peerVars
  <2>10. CASE Closes
    <3>1. pc' \in [Users -> Places]
      BY <2>0, <2>10, GoesOn DEF Closes
    <3>2. QED
      BY <2>0, <2>10, <3>1 DEF Closes, Close, lockVars, peerVars
  <2>11. CASE Forgets
    <3>1. pc' \in [Users -> Places]
      BY <2>0, <2>11, GoesOn DEF Forgets
    <3>2. QED
      BY <2>0, <2>11, <3>1 DEF Forgets, lockVars, peerVars
  <2>12. CASE LostLeaves
    <3>1. pc' \in [Users -> Places]
      BY <2>0, <2>12, GoesOn DEF LostLeaves
    <3>2. QED
      BY <2>0, <2>12, <3>1 DEF LostLeaves, SafeExit, lockVars, peerVars
  <2>13. QED
    BY <1>4, <2>1, <2>2, <2>3, <2>4, <2>5, <2>6, <2>7, <2>8, <2>9, <2>10, <2>11, <2>12
    DEF ReceiveThread
<1>5. CASE Sender
  <2>0. "none" \in Places /\ "read" \in Places /\ "sending" \in Places /\ "send" \in Users
    BY DEF Places, Users
  <2>1. CASE SendEnters
    <3>1. pc' \in [Users -> Places]
      BY <2>0, <2>1, GoesOn DEF SendEnters
    <3>2. QED
      BY <2>0, <2>1, <3>1 DEF SendEnters, SafeEnter, lockVars, peerVars
  <2>2. CASE SendReads
    <3>1. pc' \in [Users -> Places]
      BY <2>0, <2>2, GoesOn DEF SendReads
    <3>2. QED
      BY <2>0, <2>2, <3>1 DEF SendReads, SafeExit, lockVars, peerVars
  <2>3. CASE SendReturns
    <3>1. pc' \in [Users -> Places]
      BY <2>0, <2>3, GoesOn DEF SendReturns
    <3>2. QED
      BY <2>0, <2>3, <3>1 DEF SendReturns, lockVars, peerVars
  <2>4. QED
    BY <1>5, <2>1, <2>2, <2>3 DEF Sender
<1>6. CASE Start
  <2>1. pc' \in [Users -> Places]
    BY <1>6 DEF Start, Places
  <2>2. QED
    BY <1>6, <2>1 DEF Start, lockVars, peerVars
<1>7. CASE Destroy
  BY <1>7 DEF Destroy, LifeGoes, lockVars
<1>8. CASE Destructor
  BY <1>8 DEF Destructor, ConnClosed, Close, ExitSet, AccessCancelled, CancelAllAccess, Joined,
    LifeGoes, lockVars, peerVars
<1>9. QED
  BY <1>1, <1>2, <1>3, <1>4, <1>5, <1>6, <1>7, <1>8 DEF ServerNext

-----------------------------------------------------------------------------
(* The lock. *)

\* The section of each thread.
LEMMA Sections ==
    /\ Section["accept"] = {"store", "leave"}
    /\ Section["receive"] = {"read", "compare", "close", "forget", "leave"}
    /\ Section["send"] = {"read"}
    /\ "accept" \in Users /\ "receive" \in Users /\ "send" \in Users
BY DEF Section, Users

\* A thread that goes on on the same side of the lock.
LEMMA SameSide ==
    ASSUME ServerTypes, Exclusive, UNCHANGED lockVars, NEW u \in Users, NEW from, NEW to,
           Goes(u, from, to), from \in Section[u] <=> to \in Section[u]
    PROVE  Exclusive'
<1>1. \A v \in Users : pc[v] \in Section[v] <=> pc'[v] \in Section[v]
  BY DEF Goes, ServerTypes
<1>2. QED
  BY <1>1 DEF Exclusive, lockVars

\* A thread that enters takes the lock from nobody.
LEMMA Entered ==
    ASSUME ServerTypes, Exclusive, NEW u \in Users, NEW from, NEW to,
           SafeEnter(u), Goes(u, from, to), from \notin Section[u], to \in Section[u]
    PROVE  Exclusive'
<1>1. ~cancelled /\ access /\ ~access' /\ inside' = inside \cup {u}
  BY DEF SafeEnter, ServerTypes
<1>2. inside = {} /\ inside' = {u}
  BY <1>1 DEF Exclusive
<1>3. \A v \in Users : pc[v] \notin Section[v]
  BY <1>1, <1>2 DEF Exclusive
<1>4. pc'[u] = to /\ \A v \in Users : v # u => pc'[v] = pc[v]
  BY DEF Goes, ServerTypes
<1>5. \A v \in Users : v \in inside' <=> pc'[v] \in Section[v]
  BY <1>2, <1>3, <1>4
<1>6. QED
  BY <1>1, <1>2, <1>5 DEF Exclusive

\* A thread that leaves leaves nobody inside.
LEMMA HasLeft ==
    ASSUME ServerTypes, Exclusive, NEW u \in Users, NEW from, NEW to,
           SafeExit(u), Goes(u, from, to), from \in Section[u], to \notin Section[u]
    PROVE  Exclusive'
<1> SUFFICES ASSUME ~cancelled' PROVE Exclusive'
  BY DEF Exclusive
<1>1. ~cancelled /\ access' /\ inside' = inside \ {u}
  BY DEF SafeExit, ServerTypes
<1>2. u \in inside
  BY <1>1 DEF Exclusive, Goes
<1>3. inside = {u} /\ inside' = {}
  BY <1>1, <1>2 DEF Exclusive
<1>4. pc'[u] = to /\ \A v \in Users : v # u => pc'[v] = pc[v]
  BY DEF Goes, ServerTypes
<1>5. \A v \in Users : pc'[v] \notin Section[v]
  BY <1>1, <1>3, <1>4 DEF Exclusive
<1>6. QED
  BY <1>1, <1>3, <1>5 DEF Exclusive

\* One thread at a time is inside, until all access is cancelled.
LEMMA ExclusiveKept ==
    ServerTypes /\ Exclusive /\ NotStarted /\ [ServerNext]_serverVars => Exclusive'
<1> SUFFICES ASSUME ServerTypes, Exclusive, NotStarted, [ServerNext]_serverVars, ~cancelled'
             PROVE  Exclusive'
  BY DEF Exclusive
<1>1. CASE UNCHANGED <<lockVars, pc>>
  BY <1>1 DEF Exclusive, lockVars
<1>2. CASE AcceptThread
  <2>1. CASE WaitEnds("accept")
    BY <2>1, SameSide, Sections DEF WaitEnds, lockVars
  <2>2. CASE WaitTimesOut("accept", "accept")
    BY <2>2, SameSide, Sections DEF WaitTimesOut, lockVars
  <2>3. CASE AcceptFails
    BY <2>3, SameSide, Sections DEF AcceptFails, lockVars
  <2>4. ASSUME NEW c \in Conns, Accepted(c) PROVE Exclusive'
    BY <2>4, SameSide, Sections DEF Accepted, lockVars
  <2>5. CASE AcceptEnters
    BY <2>5, Entered, Sections DEF AcceptEnters, SafeEnterFails, lockVars
  <2>6. CASE Stored
    BY <2>6, SameSide, Sections DEF Stored, lockVars
  <2>7. CASE AcceptLeaves
    BY <2>7, HasLeft, Sections DEF AcceptLeaves, lockVars
  <2>9. QED
    BY <1>2, <2>1, <2>2, <2>3, <2>4, <2>5, <2>6, <2>7 DEF AcceptThread
<1>3. CASE ReceiveThread
  <2>1. CASE WaitEnds("receive")
    BY <2>1, SameSide, Sections DEF WaitEnds, lockVars
  <2>2. CASE WaitTimesOut("receive", "enter")
    BY <2>2, SameSide, Sections DEF WaitTimesOut, lockVars
  <2>3. CASE ReceiveEnters
    BY <2>3, Entered, Sections DEF ReceiveEnters, SafeEnterFails, lockVars
  <2>4. CASE ReceiveReads
    BY <2>4, HasLeft, Sections DEF ReceiveReads, lockVars
  <2>5. CASE Received
    BY <2>5, SameSide, Sections DEF Received, lockVars
  <2>6. CASE CallbackReturns
    BY <2>6, SameSide, Sections DEF CallbackReturns, lockVars
  <2>7. CASE ReceiveFails
    BY <2>7, SameSide, Sections DEF ReceiveFails, lockVars
  <2>8. CASE LostEnters
    BY <2>8, Entered, Sections DEF LostEnters, SafeEnterFails, lockVars
  <2>9. CASE Compares
    BY <2>9, SameSide, Sections DEF Compares, lockVars
  <2>10. CASE Closes
    BY <2>10, SameSide, Sections DEF Closes, lockVars
  <2>11. CASE Forgets
    BY <2>11, SameSide, Sections DEF Forgets, lockVars
  <2>12. CASE LostLeaves
    BY <2>12, HasLeft, Sections DEF LostLeaves, lockVars
  <2>13. QED
    BY <1>3, <2>1, <2>2, <2>3, <2>4, <2>5, <2>6, <2>7, <2>8, <2>9, <2>10, <2>11, <2>12
    DEF ReceiveThread
<1>4. CASE Sender
  <2>1. CASE SendEnters
    BY <2>1, Entered, Sections DEF SendEnters, SafeEnterFails, lockVars
  <2>2. CASE SendReads
    BY <2>2, HasLeft, Sections DEF SendReads, lockVars
  <2>3. CASE SendReturns
    BY <2>3, SameSide, Sections DEF SendReturns, lockVars
  <2>4. QED
    BY <1>4, <2>1, <2>2, <2>3 DEF Sender
<1>5. CASE Start
  <2>1. \A u \in Users : pc[u] = "none" /\ (pc'[u] = "none" \/ pc'[u] = "wait")
    <3>1. pc \in [Users -> Places] /\ \A u \in Users : pc[u] = "none"
      BY <1>5 DEF Start, ServerTypes, NotStarted
    <3>2. pc' = [pc EXCEPT !["accept"] = "wait", !["receive"] = "wait"]
      BY <1>5 DEF Start
    <3>3. QED
      BY <3>1, <3>2
  <2>2. \A u \in Users : "none" \notin Section[u] /\ "wait" \notin Section[u]
    BY DEF Section
  <2>3. \A u \in Users : pc[u] \in Section[u] <=> pc'[u] \in Section[u]
    BY <2>1, <2>2
  <2>4. QED
    BY <1>5, <2>3 DEF Start, Exclusive, lockVars
<1>6. CASE AccessCancelled
  BY <1>6 DEF AccessCancelled, CancelAllAccess
<1>7. QED
  BY <1>1, <1>2, <1>3, <1>4, <1>5, <1>6 DEF ServerNext, Peers, Connects, PeerSends, PeerCloses,
    Destroy, Destructor, ConnClosed, ExitSet, Joined, lockVars, serverVars

-----------------------------------------------------------------------------
(* The life of the object and the current connection. *)

\* The threads begin with start(), and the lock is cancelled once the destructor is
\* past the closing of its sockets.
LEMMA LifeKept ==
    ServerTypes /\ NotStarted /\ CancelledLate /\ [ServerNext]_serverVars
        => NotStarted' /\ CancelledLate'
<1> SUFFICES ASSUME ServerTypes, NotStarted, CancelledLate, [ServerNext]_serverVars
             PROVE  NotStarted' /\ CancelledLate'
  OBVIOUS
<1>1. CASE UNCHANGED <<life, pc, cancelled>>
  BY <1>1 DEF NotStarted, CancelledLate
<1>2. CASE AcceptThread
  <2>1. life' = life /\ cancelled' = cancelled /\ pc["accept"] # "none"
    BY <1>2 DEF AcceptThread, WaitEnds, WaitTimesOut, AcceptFails, Accepted, AcceptEnters, Stored,
      AcceptLeaves, SafeEnter, SafeEnterFails, SafeExit, Goes, lockVars
  <2>2. QED
    BY <2>1 DEF NotStarted, CancelledLate, Users
<1>3. CASE ReceiveThread
  <2>1. life' = life /\ cancelled' = cancelled /\ pc["receive"] # "none"
    BY <1>3 DEF ReceiveThread, WaitEnds, WaitTimesOut, ReceiveEnters, ReceiveReads, Received,
      CallbackReturns, ReceiveFails, LostEnters, Compares, Closes, Forgets, LostLeaves,
      SafeEnter, SafeEnterFails, SafeExit, Goes, lockVars
  <2>2. QED
    BY <2>1 DEF NotStarted, CancelledLate, Users
<1>4. CASE Sender
  <2>1. life' = life /\ cancelled' = cancelled /\ (pc["send"] # "none" \/ life = "running")
    BY <1>4 DEF Sender, SendEnters, SendReads, SendReturns, SafeEnter, SafeExit, Goes, lockVars
  <2>2. QED
    BY <2>1 DEF NotStarted, CancelledLate, Users
<1>5. CASE Start \/ Destroy \/ Destructor
  <2>1. life' # "new"
    BY <1>5 DEF Start, Destroy, Destructor, ConnClosed, ExitSet, AccessCancelled, Joined, LifeGoes
  <2>2. CASE AccessCancelled \/ Joined
    BY <2>1, <2>2 DEF AccessCancelled, Joined, LifeGoes, NotStarted, CancelledLate
  <2>3. CASE Start \/ Destroy \/ ConnClosed \/ ExitSet
    <3>1. cancelled' = cancelled /\ life \notin {"cancelled", "gone"}
      BY <2>3 DEF Start, Destroy, ConnClosed, ExitSet, LifeGoes, lockVars
    <3>2. QED
      BY <2>1, <3>1 DEF NotStarted, CancelledLate
  <2>4. QED
    BY <1>5, <2>2, <2>3 DEF Destructor
<1>6. QED
  BY <1>1, <1>2, <1>3, <1>4, <1>5 DEF ServerNext, Peers, Connects, PeerSends, PeerCloses, lockVars,
    serverVars

\* Nobody makes another connection current while the receive thread is about to close
\* the one it lost.
LEMMA LostStaysCurrent ==
    ServerIInv /\ [ServerNext]_serverVars => LostIsCurrent'
<1> SUFFICES ASSUME ServerIInv, [ServerNext]_serverVars,
                    life' \in {"new", "running", "listen closed"}, pc'["receive"] = "close"
             PROVE  cur' = sock'["receive"]
  BY DEF LostIsCurrent
<1>0. ServerTypes /\ Exclusive /\ CancelledLate /\ LostIsCurrent
  BY DEF ServerIInv
<1>1. CASE UNCHANGED <<life, cur, pc, sock>>
  BY <1>0, <1>1 DEF LostIsCurrent
<1>2. CASE AcceptThread
  <2>1. CASE Stored
    <3>1. pc["accept"] = "store" /\ pc'["receive"] = pc["receive"] /\ life' = life
      BY <1>0, <2>1, OthersStay, Sections DEF Stored, Goes, ServerTypes
    <3>2. ~cancelled
      BY <1>0, <3>1 DEF CancelledLate
    <3>3. "accept" \in inside /\ "receive" \in inside
      BY <1>0, <3>1, <3>2, Sections DEF Exclusive
    <3>4. "accept" # "receive"
      OBVIOUS
    <3>5. ASSUME NEW u, inside = {u} PROVE FALSE
      <4>1. "accept" = u /\ "receive" = u
        BY <3>3, <3>5
      <4>2. QED
        BY <3>4, <4>1
    <3>6. QED
      BY <1>0, <3>2, <3>3, <3>5 DEF Exclusive
  <2>2. CASE ~Stored
    <3>1. /\ life' = life /\ cur' = cur
          /\ pc'["receive"] = pc["receive"] /\ sock'["receive"] = sock["receive"]
      <4>1. pc'["receive"] = pc["receive"]
        <5>1. PICK from, to : Goes("accept", from, to)
          BY <1>2, <2>2 DEF AcceptThread, WaitEnds, WaitTimesOut, AcceptFails, Accepted,
            AcceptEnters, AcceptLeaves
        <5>2. "accept" # "receive" /\ "receive" \in Users
          BY Sections
        <5>3. pc \in [Users -> Places]
          BY <1>0 DEF ServerTypes
        <5>4. QED
          BY <5>1, <5>2, <5>3 DEF Goes
      <4>2. sock' = sock \/ \E c : sock' = [sock EXCEPT !["accept"] = c]
        BY <1>2, <2>2 DEF AcceptThread, WaitEnds, WaitTimesOut,
          AcceptFails, Accepted, AcceptEnters, AcceptLeaves
      <4>3. life' = life /\ cur' = cur
        BY <1>2, <2>2 DEF AcceptThread, WaitEnds, WaitTimesOut,
          AcceptFails, Accepted, AcceptEnters, AcceptLeaves
      <4>4. QED
        BY <1>0, <4>1, <4>2, <4>3, Sections DEF ServerTypes
    <3>2. QED
      BY <1>0, <3>1 DEF LostIsCurrent
  <2>3. QED
    BY <2>1, <2>2
<1>3. CASE ReceiveThread
  <2>1. Compares
    BY <1>0, <1>3, Sections, ZenonT(40) DEF ReceiveThread, WaitEnds, WaitTimesOut, ReceiveEnters, ReceiveReads,
      Received, CallbackReturns, ReceiveFails, LostEnters, Closes, Forgets, LostLeaves, Goes,
      ServerTypes
  <2>2. QED
    BY <1>0, <2>1, Sections DEF Compares, Goes, ServerTypes
<1>4. CASE Sender
  <2>1. /\ life' = life /\ cur' = cur
        /\ pc'["receive"] = pc["receive"] /\ sock'["receive"] = sock["receive"]
    <3>1. pc'["receive"] = pc["receive"]
      BY <1>0, <1>4, OthersStay, Sections DEF Sender, SendEnters, SendReads, SendReturns, ServerTypes
    <3>2. sock' = sock \/ \E c : sock' = [sock EXCEPT !["send"] = c]
      BY <1>4 DEF Sender, SendEnters, SendReads, SendReturns
    <3>3. life' = life /\ cur' = cur
      BY <1>4 DEF Sender, SendEnters, SendReads, SendReturns
    <3>4. QED
      BY <1>0, <3>1, <3>2, <3>3, Sections DEF ServerTypes
  <2>2. QED
    BY <1>0, <2>1 DEF LostIsCurrent
<1>5. CASE Start
  BY <1>0, <1>5, Sections DEF Start, ServerTypes
<1>6. CASE Destroy
  BY <1>0, <1>6 DEF Destroy, LifeGoes, LostIsCurrent
<1>7. CASE Destructor
  BY <1>7 DEF Destructor, ConnClosed, ExitSet, AccessCancelled, Joined, LifeGoes
<1>8. QED
  BY <1>1, <1>2, <1>3, <1>4, <1>5, <1>6, <1>7 DEF ServerNext, Peers, Connects, PeerSends,
    PeerCloses, serverVars

-----------------------------------------------------------------------------

\* The invariant holds in every state.
THEOREM ServerInvariance == ServerSpec => []ServerIInv
<1>1. ServerInit => ServerIInv
  <2> SUFFICES ASSUME ServerInit PROVE ServerIInv
    OBVIOUS
  <2>1. ServerTypes /\ NotStarted /\ CancelledLate
    BY DEF ServerInit, LockInit, ServerTypes, Places, NotStarted, CancelledLate
  <2>2. Exclusive
    BY DEF ServerInit, LockInit, Exclusive, Section
  <2>3. LostIsCurrent
    BY Sections DEF ServerInit, LostIsCurrent
  <2>4. QED
    BY <2>1, <2>2, <2>3 DEF ServerIInv
<1>2. ServerIInv /\ [ServerNext]_serverVars => ServerIInv'
  BY ServerTypesKept, ExclusiveKept, LifeKept, LostStaysCurrent DEF ServerIInv
<1>3. QED
  BY <1>1, <1>2, PTL DEF ServerSpec

\* Every variable of the server keeps its type, and its lock lets one thread in at a
\* time until the destructor cancels all access.
THEOREM ServerTypeCorrect == ServerSpec => []ServerTypeOK
<1>1. ServerIInv => ServerTypeOK
  <2> SUFFICES ASSUME ServerIInv PROVE ServerTypeOK
    OBVIOUS
  <2>1. LockOK
    <3>1. Cardinality({}) = 0 /\ \A u : Cardinality({u}) = 1
      BY FS_EmptySet, FS_Singleton
    <3>2. QED
      BY <3>1 DEF LockOK, ServerIInv, ServerTypes, Exclusive
  <2>2. QED
    BY <2>1 DEF ServerTypeOK, ServerIInv, ServerTypes, Places
<1>2. QED
  BY <1>1, ServerInvariance, PTL

\* While the server lives its receive thread closes the connection it lost and no other,
\* however many are accepted meanwhile.
THEOREM AlwaysClosesItsOwn == ServerSpec => ClosesItsOwn
<1>1. ServerIInv /\ [ServerNext]_serverVars =>
        (life = "running" /\ open' # open /\ pc["receive"] = "close" /\ pc'["receive"] # "close"
           => open \ open' = {sock["receive"]})
  <2> SUFFICES ASSUME ServerIInv, [ServerNext]_serverVars, life = "running", open' # open,
                      pc["receive"] = "close", pc'["receive"] # "close"
               PROVE  open \ open' = {sock["receive"]}
    OBVIOUS
  <2>1. ServerTypes /\ cur = sock["receive"]
    BY DEF ServerIInv, LostIsCurrent
  <2>2. Closes
    <3>1. ServerNext
      BY DEF serverVars
    <3>2. ~Peers /\ ~Sender /\ ~Start /\ ~Destroy /\ ~Destructor
      BY <2>1 DEF Peers, Connects, PeerSends, PeerCloses, Sender, SendEnters, SendReads, SendReturns,
        Start, Destroy, Destructor, ConnClosed, ExitSet, AccessCancelled, Joined, LifeGoes, Goes,
        ServerTypes, peerVars
    <3>3. ~AcceptThread
      BY <2>1, OthersStay, Sections DEF AcceptThread, WaitEnds, WaitTimesOut, AcceptFails, Accepted,
        AcceptEnters, Stored, AcceptLeaves, ServerTypes
    <3>4. ReceiveThread
      BY <3>1, <3>2, <3>3 DEF ServerNext
    <3>5. QED
      BY <3>4 DEF ReceiveThread, WaitEnds, WaitTimesOut, ReceiveEnters, ReceiveReads, Received,
        CallbackReturns, ReceiveFails, LostEnters, Compares, Forgets, LostLeaves, Goes
  <2>3. open' = open \ {cur}
    BY <2>2 DEF Closes, Close
  <2>4. QED
    BY <2>1, <2>3
<1>2. QED
  BY <1>1, ServerInvariance, PTL DEF ServerSpec, ClosesItsOwn

(***************************************************************************)
(* ClientLife: who is inside the lock of a dk_socket_client, for any       *)
(* number of connections.  Its names are those of ServerLife, so that the  *)
(* proofs are about the instance in MCLibrary.                             *)
(***************************************************************************)

\* Where the threads of the client are.
ClientPlaces == {"none", "wait", "enter", "look", "inside", "leave", "connecting",
                 "callback", "sending", "recv", "test", "close", "clear", "ended"}

\* The types, one variable at a time.
ClientTypes ==
    /\ cLife \in {"new", "running", "told", "cancelled", "gone"}
    /\ cAccess \in BOOLEAN /\ cCancelled \in BOOLEAN
    /\ cNeedExit \in BOOLEAN /\ cDest \in BOOLEAN
    /\ cCur \in Conns \cup {NoConn} /\ cSock \in Conns \cup {NoConn}
    /\ cUnused \in SUBSET Conns /\ cOpen \in SUBSET Conns
    /\ cData \in SUBSET Conns /\ cEnded \in SUBSET Conns
    /\ cPc \in [Client!Users -> ClientPlaces]
    /\ cInside \in SUBSET Client!Users

\* The places between safeEnterFunc and safeExitFunc.
ClientSection ==
    [u \in Client!Users |-> IF u = "owner" THEN {"inside", "leave"}
                            ELSE IF u = "connect" THEN {"look", "connecting", "sending"}
                            ELSE {"look", "sending"}]

\* Until all access is cancelled, one thread at a time is there.
ClientExclusive ==
    ~cCancelled =>
        /\ \A u \in Client!Users : u \in cInside <=> cPc[u] \in ClientSection[u]
        /\ IF cAccess THEN cInside = {} ELSE \E u \in Client!Users : cInside = {u}

\* Before the constructor there is no thread.
ClientNotStarted == cLife = "new" => \A u \in Client!Users : cPc[u] = "none"

\* The inductive invariant.
ClientIInv == ClientTypes /\ ClientExclusive /\ ClientNotStarted

\* A thread goes from one place to another, and the others stay.
LEMMA ClientGoes ==
    ASSUME ClientTypes, NEW u \in Client!Users, NEW from, NEW to \in ClientPlaces,
           Client!Goes(u, from, to)
    PROVE  /\ cPc' \in [Client!Users -> ClientPlaces]
           /\ cPc[u] = from /\ cPc'[u] = to
           /\ \A v \in Client!Users : v # u => cPc'[v] = cPc[v]
BY DEF ClientTypes, Client!Goes

\* Where the threads are inside.
LEMMA ClientSections ==
    /\ ClientSection["owner"] = {"inside", "leave"}
    /\ ClientSection["connect"] = {"look", "connecting", "sending"}
    /\ ClientSection["receive"] = {"look", "sending"}
    /\ "owner" \in Client!Users /\ "connect" \in Client!Users /\ "receive" \in Client!Users
BY DEF ClientSection, Client!Users

\* A step of a thread that neither enters nor leaves.
ClientStays(u, from, to) ==
    Client!Goes(u, from, to) /\ (from \in ClientSection[u] <=> to \in ClientSection[u])
                             /\ UNCHANGED Client!lockVars

\* A step that enters, one that leaves, and one that is turned away.
ClientIn(u, from, to) ==
    Client!Goes(u, from, to) /\ to \in ClientSection[u] /\ Client!SafeEnter(u)
ClientOut(u, from, to) ==
    Client!Goes(u, from, to) /\ to \notin ClientSection[u] /\ Client!SafeExit(u)
ClientRefused(u, from, to) == Client!Goes(u, from, to) /\ Client!SafeEnterFails

\* What a thread does with its place and the lock.
ClientMoves(u, from, to) ==
    /\ u \in Client!Users /\ to \in ClientPlaces
    /\ from = "none" => cLife = "running"
    /\ \/ ClientStays(u, from, to)
       \/ ClientIn(u, from, to)
       \/ from \in ClientSection[u] /\ ClientOut(u, from, to)
       \/ ClientRefused(u, from, to)

\* Such a step keeps the places and the lock as they should be.
LEMMA ClientMovesKeep ==
    ASSUME ClientIInv, NEW u, NEW from, NEW to, ClientMoves(u, from, to), cLife' = cLife
    PROVE  /\ cPc' \in [Client!Users -> ClientPlaces]
           /\ cAccess' \in BOOLEAN /\ cCancelled' \in BOOLEAN /\ cInside' \in SUBSET Client!Users
           /\ ClientExclusive' /\ ClientNotStarted'
<1>1. /\ u \in Client!Users /\ to \in ClientPlaces
      /\ from = "none" => cLife = "running"
      /\ Client!Goes(u, from, to) /\ ClientTypes
  BY DEF ClientMoves, ClientIInv, ClientStays, ClientIn, ClientOut, ClientRefused
<1>2. /\ cPc' \in [Client!Users -> ClientPlaces]
      /\ cPc[u] = from /\ cPc'[u] = to
      /\ \A v \in Client!Users : v # u => cPc'[v] = cPc[v]
  BY <1>1, ClientGoes
<1>3. ClientNotStarted'
  BY <1>1, <1>2 DEF ClientIInv, ClientNotStarted
<1>4. /\ \A v \in Client!Users : ~cCancelled => (v \in cInside <=> cPc[v] \in ClientSection[v])
      /\ ~cCancelled => IF cAccess THEN cInside = {} ELSE \E v \in Client!Users : cInside = {v}
  BY DEF ClientIInv, ClientExclusive
<1>5. CASE ClientStays(u, from, to)
  <2>1. cAccess' = cAccess /\ cCancelled' = cCancelled /\ cInside' = cInside
    BY <1>5 DEF ClientStays, Client!lockVars
  <2>2. from \in ClientSection[u] <=> to \in ClientSection[u]
    BY <1>5 DEF ClientStays
  <2>3. \A v \in Client!Users : ~cCancelled => (v \in cInside <=> cPc'[v] \in ClientSection[v])
    BY <1>1, <1>2, <1>4, <2>2
  <2> QED
    BY <1>1, <1>2, <1>3, <1>4, <2>1, <2>3 DEF ClientTypes, ClientExclusive
<1>6. CASE ClientIn(u, from, to)
  <2>1. /\ ~cCancelled /\ cAccess /\ cAccess' = FALSE /\ cInside' = cInside \cup {u}
        /\ cCancelled' = cCancelled /\ to \in ClientSection[u]
    BY <1>6 DEF ClientIn, Client!SafeEnter
  <2>2. cInside = {}
    BY <1>4, <2>1
  <2>3. \A v \in Client!Users : v \in cInside' <=> cPc'[v] \in ClientSection[v]
    BY <1>1, <1>2, <1>4, <2>1, <2>2
  <2> QED
    BY <1>1, <1>2, <1>3, <2>1, <2>2, <2>3 DEF ClientTypes, ClientExclusive
<1>7. CASE from \in ClientSection[u] /\ ClientOut(u, from, to)
  <2>1. /\ cAccess' = TRUE /\ cInside' = cInside \ {u} /\ cCancelled' = cCancelled
        /\ from \in ClientSection[u] /\ to \notin ClientSection[u]
    BY <1>7 DEF ClientOut, Client!SafeExit
  <2>2. ~cCancelled => u \in cInside /\ cInside' = {}
    BY <1>1, <1>2, <1>4, <2>1
  <2>3. ~cCancelled => \A v \in Client!Users : v \in cInside' <=> cPc'[v] \in ClientSection[v]
    BY <1>1, <1>2, <1>4, <2>1, <2>2
  <2> QED
    BY <1>1, <1>2, <1>3, <2>1, <2>2, <2>3 DEF ClientTypes, ClientExclusive
<1>8. CASE ClientRefused(u, from, to)
  <2>1. cCancelled /\ cAccess' = cAccess /\ cInside' = cInside /\ cCancelled' = cCancelled
    BY <1>8 DEF ClientRefused, Client!SafeEnterFails, Client!lockVars
  <2> QED
    BY <1>1, <1>2, <1>3, <2>1 DEF ClientTypes, ClientExclusive
<1> QED
  BY <1>5, <1>6, <1>7, <1>8 DEF ClientMoves

\* So do steps that touch nothing else.
LEMMA ClientMovesOnly ==
    ASSUME ClientIInv, NEW u, NEW from, NEW to, ClientMoves(u, from, to),
           UNCHANGED Client!Rest
    PROVE  ClientIInv'
<1>1. cLife' = cLife
  BY DEF Client!Rest
<1>2. /\ cPc' \in [Client!Users -> ClientPlaces]
      /\ cAccess' \in BOOLEAN /\ cCancelled' \in BOOLEAN /\ cInside' \in SUBSET Client!Users
      /\ ClientExclusive' /\ ClientNotStarted'
  BY <1>1, ClientMovesKeep
<1> QED
  BY <1>2 DEF ClientIInv, ClientTypes, Client!Rest

\* The rounds of both threads.
LEMMA ClientRounds ==
    ASSUME ClientIInv, NEW u \in {"connect", "receive"}, Client!Rounds(u)
    PROVE  ClientIInv'
<1>0. /\ {"wait", "ended", "enter", "look", "callback", "sending"} \subseteq ClientPlaces
      /\ {"look", "sending"} \subseteq ClientSection[u]
      /\ \A p \in {"wait", "ended", "enter", "callback"} : p \notin ClientSection[u]
      /\ u \in Client!Users
  BY ClientSections DEF ClientPlaces
<1>1. CASE Client!WaitEnds(u)
  <2>1. ClientMoves(u, "wait", "ended") /\ UNCHANGED Client!Rest
    BY <1>0, <1>1 DEF Client!WaitEnds, ClientMoves, ClientStays
  <2> QED
    BY <2>1, ClientMovesOnly
<1>2. CASE Client!WaitTimesOut(u)
  <2>1. ClientMoves(u, "wait", "enter") /\ UNCHANGED Client!Rest
    BY <1>0, <1>2 DEF Client!WaitTimesOut, ClientMoves, ClientStays
  <2> QED
    BY <2>1, ClientMovesOnly
<1>3. CASE Client!RoundEnters(u)
  <2>1. /\ ClientMoves(u, "enter", "look") \/ ClientMoves(u, "enter", "ended")
        /\ UNCHANGED Client!Rest
    BY <1>0, <1>3 DEF Client!RoundEnters, Client!Enters, ClientMoves, ClientIn, ClientRefused
  <2> QED
    BY <2>1, ClientMovesOnly
<1>4. CASE Client!CallbackEnters(u)
  <2>1. /\ ClientMoves(u, "callback", "sending") \/ ClientMoves(u, "callback", "wait")
        /\ UNCHANGED Client!Rest
    BY <1>0, <1>4 DEF Client!CallbackEnters, Client!Enters, ClientMoves, ClientIn, ClientRefused
  <2> QED
    BY <2>1, ClientMovesOnly
<1>5. CASE Client!CallbackReturns(u)
  <2>1. ClientMoves(u, "sending", "wait") /\ UNCHANGED Client!Rest
    BY <1>0, <1>5 DEF Client!CallbackReturns, Client!Leaves, ClientMoves, ClientOut
  <2> QED
    BY <2>1, ClientMovesOnly
<1> QED
  BY <1>1, <1>2, <1>3, <1>4, <1>5 DEF Client!Rounds

\* The calls of the owner.
LEMMA ClientOwner ==
    ASSUME ClientIInv, Client!Owner
    PROVE  ClientIInv'
<1>0. /\ {"none", "enter", "inside", "leave"} \subseteq ClientPlaces
      /\ {"inside", "leave"} \subseteq ClientSection["owner"]
      /\ "none" \notin ClientSection["owner"] /\ "enter" \notin ClientSection["owner"]
      /\ "owner" \in Client!Users
  BY ClientSections DEF ClientPlaces
<1>1. CASE Client!OwnerCalls
  <2>1. ClientMoves("owner", "none", "enter") /\ UNCHANGED Client!Rest
    BY <1>0, <1>1 DEF Client!OwnerCalls, ClientMoves, ClientStays
  <2> QED
    BY <2>1, ClientMovesOnly
<1>2. CASE Client!OwnerEnters
  <2>1. /\ ClientMoves("owner", "enter", "inside") \/ ClientMoves("owner", "enter", "none")
        /\ UNCHANGED Client!Rest
    BY <1>0, <1>2 DEF Client!OwnerEnters, Client!Enters, ClientMoves, ClientIn, ClientRefused
  <2> QED
    BY <2>1, ClientMovesOnly
<1>3. CASE Client!Connect
  <2>1. ClientMoves("owner", "inside", "leave") /\ cLife' = cLife
    BY <1>0, <1>3 DEF Client!Connect, ClientMoves, ClientStays
  <2>2. /\ cNeedExit' = cNeedExit /\ cDest' = TRUE /\ cCur' = NoConn /\ cSock' = cSock
        /\ cUnused' = cUnused /\ cOpen' = cOpen \ {cCur} /\ cData' = cData \ {cCur}
        /\ cEnded' = cEnded \ {cCur}
    BY <1>3 DEF Client!Connect, Client!Close
  <2> QED
    BY <2>1, <2>2, ClientMovesKeep DEF ClientIInv, ClientTypes
<1>4. CASE Client!CloseConnect
  <2>1. ClientMoves("owner", "inside", "leave") /\ cLife' = cLife
    BY <1>0, <1>4 DEF Client!CloseConnect, ClientMoves, ClientStays
  <2>2. /\ cNeedExit' = cNeedExit /\ cDest' = cDest /\ cCur' = NoConn /\ cSock' = cSock
        /\ cUnused' = cUnused /\ cOpen' = cOpen \ {cCur} /\ cData' = cData \ {cCur}
        /\ cEnded' = cEnded \ {cCur}
    BY <1>4 DEF Client!CloseConnect, Client!Close
  <2> QED
    BY <2>1, <2>2, ClientMovesKeep DEF ClientIInv, ClientTypes
<1>5. CASE Client!SendOrAsk
  <2>1. ClientMoves("owner", "inside", "leave") /\ UNCHANGED Client!Rest
    BY <1>0, <1>5 DEF Client!SendOrAsk, ClientMoves, ClientStays
  <2> QED
    BY <2>1, ClientMovesOnly
<1>6. CASE Client!OwnerLeaves
  <2>1. ClientMoves("owner", "leave", "none") /\ UNCHANGED Client!Rest
    BY <1>0, <1>6 DEF Client!OwnerLeaves, Client!Leaves, ClientMoves, ClientOut
  <2> QED
    BY <2>1, ClientMovesOnly
<1> QED
  BY <1>1, <1>2, <1>3, <1>4, <1>5, <1>6 DEF Client!Owner

\* The connect thread.
LEMMA ClientConnects ==
    ASSUME ClientIInv, Client!ConnectThread
    PROVE  ClientIInv'
<1>0. /\ {"wait", "look", "connecting", "callback"} \subseteq ClientPlaces
      /\ {"look", "connecting"} \subseteq ClientSection["connect"]
      /\ "wait" \notin ClientSection["connect"] /\ "callback" \notin ClientSection["connect"]
      /\ "connect" \in Client!Users
  BY ClientSections DEF ClientPlaces
<1>1. CASE Client!Rounds("connect")
  BY <1>1, ClientRounds
<1>2. CASE Client!NothingToDo
  <2>1. ClientMoves("connect", "look", "wait") /\ UNCHANGED Client!Rest
    BY <1>0, <1>2 DEF Client!NothingToDo, Client!Leaves, ClientMoves, ClientOut
  <2> QED
    BY <2>1, ClientMovesOnly
<1>3. CASE Client!Opens
  <2>1. ClientMoves("connect", "look", "connecting") /\ cLife' = cLife
    BY <1>0, <1>3 DEF Client!Opens, ClientMoves, ClientStays
  <2>2. /\ cUnused # {} /\ cCur' = CHOOSE c \in cUnused : TRUE
        /\ cOpen' = cOpen \cup {cCur'} /\ cUnused' = cUnused \ {cCur'}
        /\ cNeedExit' = cNeedExit /\ cDest' = cDest /\ cSock' = cSock
        /\ cData' = cData /\ cEnded' = cEnded
    BY <1>3 DEF Client!Opens
  <2>3. cCur' \in cUnused
    BY <2>2
  <2> QED
    BY <2>1, <2>2, <2>3, ClientMovesKeep DEF ClientIInv, ClientTypes
<1>4. CASE Client!Connected
  <2>1. ClientMoves("connect", "connecting", "callback") /\ UNCHANGED Client!Rest
    BY <1>0, <1>4 DEF Client!Connected, Client!Leaves, ClientMoves, ClientOut
  <2> QED
    BY <2>1, ClientMovesOnly
<1>5. CASE Client!ConnectFails
  <2>1. ClientMoves("connect", "connecting", "wait") /\ cLife' = cLife
    BY <1>0, <1>5 DEF Client!ConnectFails, ClientMoves, ClientOut
  <2>2. /\ cNeedExit' = cNeedExit /\ cDest' = cDest /\ cCur' = NoConn /\ cSock' = cSock
        /\ cUnused' = cUnused /\ cOpen' = cOpen \ {cCur} /\ cData' = cData \ {cCur}
        /\ cEnded' = cEnded \ {cCur}
    BY <1>5 DEF Client!ConnectFails, Client!Close
  <2> QED
    BY <2>1, <2>2, ClientMovesKeep DEF ClientIInv, ClientTypes
<1> QED
  BY <1>1, <1>2, <1>3, <1>4, <1>5 DEF Client!ConnectThread

\* The receive thread, which closes a connection without the lock.
LEMMA ClientReceives ==
    ASSUME ClientIInv, Client!ReceiveThread
    PROVE  ClientIInv'
<1>0. /\ {"wait", "look", "callback", "recv", "test", "close", "clear"} \subseteq ClientPlaces
      /\ "look" \in ClientSection["receive"]
      /\ \A p \in {"wait", "callback", "recv", "test", "close", "clear"} :
            p \notin ClientSection["receive"]
      /\ "receive" \in Client!Users
  BY ClientSections DEF ClientPlaces
<1>1. CASE Client!Rounds("receive")
  BY <1>1, ClientRounds
<1>2. CASE Client!NotConnected
  <2>1. ClientMoves("receive", "look", "wait") /\ UNCHANGED Client!Rest
    BY <1>0, <1>2 DEF Client!NotConnected, Client!Leaves, ClientMoves, ClientOut
  <2> QED
    BY <2>1, ClientMovesOnly
<1>3. CASE Client!Picks
  <2>1. ClientMoves("receive", "look", "recv") /\ cLife' = cLife
    BY <1>0, <1>3 DEF Client!Picks, ClientMoves, ClientOut
  <2>2. /\ cNeedExit' = cNeedExit /\ cDest' = cDest /\ cCur' = cCur /\ cSock' = cCur
        /\ cUnused' = cUnused /\ cOpen' = cOpen /\ cData' = cData /\ cEnded' = cEnded
    BY <1>3 DEF Client!Picks
  <2> QED
    BY <2>1, <2>2, ClientMovesKeep DEF ClientIInv, ClientTypes
<1>4. CASE Client!Received
  <2>1. ClientMoves("receive", "recv", "callback") /\ cLife' = cLife
    BY <1>0, <1>4 DEF Client!Received, ClientMoves, ClientStays
  <2>2. /\ cNeedExit' = cNeedExit /\ cDest' = cDest /\ cCur' = cCur /\ cSock' = NoConn
        /\ cUnused' = cUnused /\ cOpen' = cOpen /\ cData' = cData \ {cSock} /\ cEnded' = cEnded
    BY <1>4 DEF Client!Received
  <2> QED
    BY <2>1, <2>2, ClientMovesKeep DEF ClientIInv, ClientTypes
<1>5. CASE Client!ReceiveFails
  <2>1. ClientMoves("receive", "recv", "test") /\ cLife' = cLife
    BY <1>0, <1>5 DEF Client!ReceiveFails, ClientMoves, ClientStays
  <2>2. /\ cNeedExit' = cNeedExit /\ cDest' = cDest /\ cCur' = cCur /\ cSock' = NoConn
        /\ cUnused' = cUnused /\ cOpen' = cOpen /\ cData' = cData /\ cEnded' = cEnded
    BY <1>5 DEF Client!ReceiveFails
  <2> QED
    BY <2>1, <2>2, ClientMovesKeep DEF ClientIInv, ClientTypes
<1>6. CASE Client!Tests
  <2>1. /\ ClientMoves("receive", "test", "clear") \/ ClientMoves("receive", "test", "close")
        /\ UNCHANGED Client!Rest
    BY <1>0, <1>6 DEF Client!Tests, ClientMoves, ClientStays
  <2> QED
    BY <2>1, ClientMovesOnly
<1>7. CASE Client!Closes
  <2>1. ClientMoves("receive", "close", "clear") /\ cLife' = cLife
    BY <1>0, <1>7 DEF Client!Closes, ClientMoves, ClientStays
  <2>2. /\ cNeedExit' = cNeedExit /\ cDest' = cDest /\ cCur' = cCur /\ cSock' = cSock
        /\ cUnused' = cUnused /\ cOpen' = cOpen \ {cCur} /\ cData' = cData \ {cCur}
        /\ cEnded' = cEnded \ {cCur}
    BY <1>7 DEF Client!Closes, Client!Close
  <2> QED
    BY <2>1, <2>2, ClientMovesKeep DEF ClientIInv, ClientTypes
<1>8. CASE Client!Clears
  <2>1. ClientMoves("receive", "clear", "wait") /\ cLife' = cLife
    BY <1>0, <1>8 DEF Client!Clears, ClientMoves, ClientStays
  <2>2. /\ cNeedExit' = cNeedExit /\ cDest' = cDest /\ cCur' = NoConn /\ cSock' = cSock
        /\ cUnused' = cUnused /\ cOpen' = cOpen /\ cData' = cData /\ cEnded' = cEnded
    BY <1>8 DEF Client!Clears
  <2> QED
    BY <2>1, <2>2, ClientMovesKeep DEF ClientIInv, ClientTypes
<1> QED
  BY <1>1, <1>2, <1>3, <1>4, <1>5, <1>6, <1>7, <1>8 DEF Client!ReceiveThread

\* The peers, the constructor and the destructor, which is never inside: it
\* cancels all access.
LEMMA ClientOthers ==
    ASSUME ClientIInv,
           Client!Peers \/ Client!Construct \/ Client!Destroy \/ Client!Destructor
    PROVE  ClientIInv'
<1>1. CASE Client!Peers
  BY <1>1 DEF Client!Peers, Client!PeerSends, Client!PeerCloses, Client!lockVars,
              ClientIInv, ClientTypes, ClientExclusive, ClientNotStarted
<1>2. CASE Client!Construct
  <2>1. /\ cLife = "new" /\ cLife' = "running"
        /\ cPc' = [cPc EXCEPT !["connect"] = "wait", !["receive"] = "wait"]
        /\ cAccess' = cAccess /\ cCancelled' = cCancelled /\ cInside' = cInside
        /\ cNeedExit' = cNeedExit /\ cDest' = cDest /\ cCur' = cCur /\ cSock' = cSock
        /\ cUnused' = cUnused /\ cOpen' = cOpen /\ cData' = cData /\ cEnded' = cEnded
    BY <1>2 DEF Client!Construct, Client!lockVars
  <2>2. \A u \in Client!Users : cPc[u] = "none"
    BY <2>1 DEF ClientIInv, ClientNotStarted
  <2>3. \A u \in Client!Users : cPc'[u] \in {"none", "wait"}
    BY <2>1, <2>2 DEF ClientIInv, ClientTypes
  <2>4. cPc' \in [Client!Users -> ClientPlaces]
    BY <2>1 DEF ClientIInv, ClientTypes, ClientPlaces
  <2>5. \A u \in Client!Users : "none" \notin ClientSection[u] /\ "wait" \notin ClientSection[u]
    BY ClientSections DEF Client!Users
  <2>6. ClientExclusive'
    BY <2>1, <2>2, <2>3, <2>5 DEF ClientIInv, ClientExclusive
  <2> QED
    BY <2>1, <2>4, <2>6 DEF ClientIInv, ClientTypes, ClientNotStarted
<1>3. CASE Client!Destroy
  BY <1>3 DEF Client!Destroy, Client!LifeGoes, Client!lockVars,
              ClientIInv, ClientTypes, ClientExclusive, ClientNotStarted
<1>4. CASE Client!AccessCancelled
  BY <1>4 DEF Client!AccessCancelled, Client!LifeGoes, Client!CancelAllAccess,
              ClientIInv, ClientTypes, ClientExclusive, ClientNotStarted
<1>5. CASE Client!Joined
  BY <1>5 DEF Client!Joined, Client!LifeGoes, Client!lockVars,
              ClientIInv, ClientTypes, ClientExclusive, ClientNotStarted
<1> QED
  BY <1>1, <1>2, <1>3, <1>4, <1>5 DEF Client!Destructor

\* The invariant of the client holds in every state.
THEOREM ClientInvariance == Client!Spec => []ClientIInv
<1>1. Client!Init => ClientIInv
  <2> SUFFICES ASSUME Client!Init PROVE ClientIInv
    OBVIOUS
  <2>1. /\ \A u \in Client!Users : cPc[u] = "none"
        /\ cPc \in [Client!Users -> ClientPlaces]
    BY DEF Client!Init, ClientPlaces
  <2>2. \A u \in Client!Users : "none" \notin ClientSection[u]
    BY ClientSections DEF Client!Users
  <2> QED
    BY <2>1, <2>2 DEF Client!Init, Client!LockInit, ClientIInv, ClientTypes,
                      ClientExclusive, ClientNotStarted
<1>2. ClientIInv /\ [Client!Next]_(Client!vars) => ClientIInv'
  <2> SUFFICES ASSUME ClientIInv, [Client!Next]_(Client!vars) PROVE ClientIInv'
    OBVIOUS
  <2>1. CASE UNCHANGED Client!vars
    BY <2>1 DEF Client!vars, Client!lockVars, ClientIInv, ClientTypes, ClientExclusive,
                ClientNotStarted
  <2> QED
    BY <2>1, ClientOwner, ClientConnects, ClientReceives, ClientOthers DEF Client!Next
<1> QED
  BY <1>1, <1>2, PTL DEF Client!Spec

\* Until the destructor cancels all access one thread at a time is inside the
\* lock of the client, callbacks that send included.
THEOREM ClientTypeCorrect == Client!Spec => []Client!TypeOK
<1>1. ClientIInv => Client!TypeOK
  <2> SUFFICES ASSUME ClientIInv PROVE Client!TypeOK
    OBVIOUS
  <2>1. Client!LockOK
    <3>1. Cardinality({}) = 0 /\ \A u : Cardinality({u}) = 1
      BY FS_EmptySet, FS_Singleton
    <3>2. \A S : Client!Cardinality(S) = Cardinality(S)
      BY DEF Client!Cardinality, Cardinality
    <3> QED
      BY <3>1, <3>2 DEF Client!LockOK, ClientIInv, ClientTypes, ClientExclusive
  <2> QED
    BY <2>1 DEF Client!TypeOK, ClientIInv, ClientTypes, ClientPlaces
<1> QED
  BY <1>1, ClientInvariance, PTL

(***************************************************************************)
(* RingCache, for every size of the buffer and whatever bytes are pushed   *)
(* and lengths asked for: the copies stay in the buffer, and the cache     *)
(* implements BoundedFifo.                                                 *)
(***************************************************************************)

USE SizeAssumption, BytesAssumption, DataAssumption, LengthsAssumption

-----------------------------------------------------------------------------
(* Positions and lengths. *)

\* The remainder of a position that is at most one round ahead.
LEMMA Around ==
  ASSUME NEW x \in 0 .. 2 * Size - 1
  PROVE  /\ x % Size \in Positions
         /\ x < Size => x % Size = x
         /\ x >= Size => x % Size = x - Size
<1>1. CASE x < Size
  BY <1>1, Z3 DEF Positions
<1>2. CASE x >= Size
  <2>1. x % Size = x - Size
    BY <1>2, Z3
  <2> QED
    BY <1>2, <2>1 DEF Positions
<1> QED
  BY <1>1, <1>2

\* What _dk_ring_flush leaves: the newest bytes, never more than asked for if
\* that is less than there are.
LEMMA FlushedFacts ==
  ASSUME TypeOK, NEW keep \in Nat
  PROVE  /\ Flushed(keep).start \in Positions
         /\ Flushed(keep).len \in 0 .. len
         /\ keep < len => Flushed(keep).len = keep
         /\ ~(keep < len) => Flushed(keep) = [start |-> start, len |-> len]
<1>1. CASE keep >= Size \/ keep >= len
  BY <1>1 DEF Flushed, TypeOK
<1>2. CASE keep < Size /\ keep < len /\ keep = 0
  BY <1>2 DEF Flushed, TypeOK, Positions
<1>3. CASE keep < Size /\ keep < len /\ keep # 0
  <2>1. start + (len - keep) \in 0 .. 2 * Size - 1
    BY <1>3 DEF TypeOK, Positions
  <2>2. (start + (len - keep)) % Size \in Positions
    BY <2>1, Around
  <2>3. Flushed(keep) = [start |-> (start + (len - keep)) % Size, len |-> keep]
    BY <1>3 DEF Flushed, TypeOK
  <2> QED
    BY <1>3, <2>2, <2>3 DEF TypeOK
<1> QED
  BY <1>1, <1>2, <1>3 DEF TypeOK

\* There is room for n bytes after dk_ring_pushback has flushed.
LEMMA MadeRoomFacts ==
  ASSUME TypeOK, NEW n \in 0 .. Size
  PROVE  /\ MadeRoom(n).start \in Positions
         /\ MadeRoom(n).len \in 0 .. Size - n
<1>1. CASE len + n > Size
  <2>1. Size - n \in Nat /\ Size - n < len
    BY <1>1 DEF TypeOK
  <2> QED
    BY <1>1, <2>1, FlushedFacts DEF MadeRoom, TypeOK
<1>2. CASE len + n <= Size
  BY <1>2 DEF MadeRoom, TypeOK
<1> QED
  BY <1>1, <1>2 DEF TypeOK

\* The two copies of at most Size bytes stay in the buffer.
LEMMA CopyFits ==
  ASSUME NEW at \in Positions, NEW n \in 0 .. Size
  PROVE  Fits(at, n)
BY DEF Fits, Segment, Positions

\* No copy of dk_ring_pushback, dk_ring_popfront or dk_ring_copyback leaves the
\* buffer, in any state that is typed.
LEMMA TypedCopiesFit == TypeOK => CopiesFit
<1> SUFFICES ASSUME TypeOK PROVE CopiesFit
  OBVIOUS
<1>1. ASSUME NEW bytes \in Data, Len(bytes) <= Size
      PROVE  /\ MadeRoom(Len(bytes)).len + Len(bytes) <= Size
             /\ Fits((MadeRoom(Len(bytes)).start + MadeRoom(Len(bytes)).len) % Size, Len(bytes))
  <2>1. Len(bytes) \in 0 .. Size
    BY <1>1
  <2>2. /\ MadeRoom(Len(bytes)).start \in Positions
        /\ MadeRoom(Len(bytes)).len \in 0 .. Size - Len(bytes)
    BY <2>1, MadeRoomFacts
  <2>3. MadeRoom(Len(bytes)).start + MadeRoom(Len(bytes)).len \in 0 .. 2 * Size - 1
    BY <2>1, <2>2 DEF Positions
  <2>4. (MadeRoom(Len(bytes)).start + MadeRoom(Len(bytes)).len) % Size \in Positions
    BY <2>3, Around
  <2> QED
    BY <2>1, <2>2, <2>4, CopyFits
<1>2. ASSUME NEW n \in Lengths
      PROVE  Fits(start, Smaller(n, len))
  <2>1. Smaller(n, len) \in 0 .. Size /\ start \in Positions
    BY DEF Smaller, TypeOK
  <2> QED
    BY <2>1, CopyFits
<1> QED
  BY <1>1, <1>2 DEF CopiesFit

-----------------------------------------------------------------------------
(* The bytes copied. *)

\* Both copies into the buffer together: data from position at on, around the
\* end, and every other byte as it was.
LEMMA WrittenBytes ==
  ASSUME TypeOK, NEW at \in Positions, NEW bytes \in Seq(Bytes), Len(bytes) \in 0 .. Size
  PROVE  /\ Written(at, bytes) \in [Positions -> Bytes]
         /\ \A i \in 1 .. Len(bytes) : Written(at, bytes)[(at + i - 1) % Size] = bytes[i]
         /\ \A p \in Positions :
               (\A i \in 1 .. Len(bytes) : p # (at + i - 1) % Size) => Written(at, bytes)[p] = buf[p]
<1> DEFINE n == Len(bytes)
           first == Segment(at, n)
<1>1. /\ first \in 0 .. n
      /\ at + first <= Size
      /\ first < n => at + first = Size
      /\ n - first <= at
  BY DEF Segment, Positions
<1>2. \A i \in 1 .. n : bytes[i] \in Bytes
  BY ElementOfSeq
<1>3. \A p \in Positions :
         Written(at, bytes)[p] = IF p < n - first THEN bytes[first + p + 1]
                                ELSE IF p >= at /\ p - at < first THEN bytes[p - at + 1]
                                ELSE buf[p]
  BY DEF Written
<1>4. ASSUME NEW i \in 1 .. n
      PROVE  (at + i - 1) % Size = IF i <= first THEN at + i - 1 ELSE i - first - 1
  <2> DEFINE x == at + i - 1
  <2>1. x \in 0 .. 2 * Size - 1
    BY DEF Positions
  <2>2. (x < Size => x % Size = x) /\ (x >= Size => x % Size = x - Size)
    <3> HIDE DEF x
    <3> QED
      BY <2>1, Around
  <2>3. i <= first => x < Size
    BY <1>1 DEF Positions
  <2>4. i > first => x >= Size /\ x - Size = i - first - 1
    BY <1>1 DEF Positions
  <2> QED
    BY <1>1, <2>2, <2>3, <2>4
<1>5. Written(at, bytes) \in [Positions -> Bytes]
  <2>1. ASSUME NEW p \in Positions PROVE Written(at, bytes)[p] \in Bytes
    <3>1. p < n - first => first + p + 1 \in 1 .. n
      BY <1>1 DEF Positions
    <3>2. p >= at /\ p - at < first => p - at + 1 \in 1 .. n
      BY <1>1 DEF Positions
    <3>3. buf[p] \in Bytes
      BY DEF TypeOK
    <3> QED
      BY <1>2, <1>3, <3>1, <3>2, <3>3
  <2> QED
    BY <2>1 DEF Written
<1>6. ASSUME NEW i \in 1 .. n
      PROVE  Written(at, bytes)[(at + i - 1) % Size] = bytes[i]
  <2>1. CASE i <= first
    <3>1. (at + i - 1) % Size = at + i - 1 /\ at + i - 1 \in Positions
      BY <1>1, <1>4, <2>1 DEF Positions
    <3>2. ~(at + i - 1 < n - first) /\ (at + i - 1) - at + 1 = i
      BY <1>1, <2>1 DEF Positions
    <3> DEFINE p == at + i - 1
    <3>3. p \in Positions /\ p >= at /\ p - at < first /\ ~(p < n - first) /\ p - at + 1 = i
      BY <1>1, <2>1, <3>1, <3>2 DEF Positions
    <3> HIDE DEF p
    <3>4. Written(at, bytes)[p] = bytes[p - at + 1]
      BY <1>3, <3>3
    <3> QED
      BY <3>1, <3>3, <3>4 DEF p
  <2>2. CASE i > first
    <3>1. (at + i - 1) % Size = i - first - 1 /\ i - first - 1 \in Positions
      BY <1>1, <1>4, <2>2 DEF Positions
    <3>2. i - first - 1 < n - first /\ first + (i - first - 1) + 1 = i
      BY <1>1, <2>2
    <3> QED
      BY <1>3, <3>1, <3>2
  <2> QED
    BY <1>1, <2>1, <2>2
<1>7. ASSUME NEW p \in Positions, \A i \in 1 .. n : p # (at + i - 1) % Size
      PROVE  Written(at, bytes)[p] = buf[p]
  <2>1. ~(p < n - first)
    <3>1. SUFFICES ASSUME p < n - first PROVE FALSE
      OBVIOUS
    <3> DEFINE i == first + p + 1
    <3>2. i \in 1 .. n /\ ~(i <= first) /\ i - first - 1 = p
      BY <1>1, <3>1 DEF Positions
    <3> HIDE DEF i
    <3> QED
      BY <1>4, <1>7, <3>2
  <2>2. ~(p >= at /\ p - at < first)
    <3>1. SUFFICES ASSUME p >= at, p - at < first PROVE FALSE
      OBVIOUS
    <3> DEFINE i == p - at + 1
    <3>2. i \in 1 .. n /\ i <= first /\ at + i - 1 = p
      BY <1>1, <3>1 DEF Positions
    <3> HIDE DEF i
    <3> QED
      BY <1>4, <1>7, <3>2
  <2> QED
    BY <1>3, <2>1, <2>2
<1> HIDE DEF n
<1> QED
  BY <1>5, <1>6, <1>7 DEF n

\* Both copies out of the buffer together: the oldest n bytes, in order.
LEMMA ReadBytes ==
  ASSUME TypeOK, NEW n \in 0 .. len
  PROVE  /\ Read(n) \in [1 .. n -> Bytes]
         /\ \A i \in 1 .. n : Read(n)[i] = buf[(start + i - 1) % Size]
<1>1. ASSUME NEW i \in 1 .. n
      PROVE  /\ Read(n)[i] = buf[(start + i - 1) % Size]
             /\ Read(n)[i] \in Bytes
  <2> DEFINE x == start + i - 1
  <2>1. x \in 0 .. 2 * Size - 1
    BY DEF TypeOK, Positions
  <2>2. /\ x % Size \in Positions
        /\ x < Size => x % Size = x
        /\ x >= Size => x % Size = x - Size
    <3> HIDE DEF x
    <3> QED
      BY <2>1, Around
  <2>3. IF i <= Segment(start, n) THEN x % Size = start + i - 1
        ELSE x % Size = i - Segment(start, n) - 1
    <3>1. i <= Segment(start, n) => x < Size
      BY DEF Segment, TypeOK, Positions
    <3>2. ~(i <= Segment(start, n)) => x >= Size /\ x - Size = i - Segment(start, n) - 1
      BY DEF Segment, TypeOK, Positions
    <3> QED
      BY <2>2, <3>1, <3>2
  <2>4. Read(n)[i] = buf[(start + i - 1) % Size]
    BY <2>3 DEF Read
  <2> QED
    BY <2>2, <2>4 DEF TypeOK
<1> QED
  BY <1>1 DEF Read

-----------------------------------------------------------------------------
(* The queue in the buffer. *)

\* The position i places after another that is k places after at.
LEMMA Shift ==
  ASSUME NEW at \in Positions, NEW k \in 0 .. Size, NEW i \in 1 .. Size, k + i <= Size
  PROVE  (((at + k) % Size) + i - 1) % Size = (at + (k + i) - 1) % Size
<1> DEFINE x == at + k
           y == (x % Size) + i - 1
           z == at + (k + i) - 1
<1>1. x \in 0 .. 2 * Size - 1 /\ z \in 0 .. 2 * Size - 1 /\ z = x + i - 1
  BY DEF Positions
<1>2. x % Size \in Positions /\ (x < Size => x % Size = x) /\ (x >= Size => x % Size = x - Size)
  <2> HIDE DEF x
  <2> QED
    BY <1>1, Around
<1>3. y \in 0 .. 2 * Size - 1
  <2> HIDE DEF x
  <2> QED
    BY <1>2 DEF Positions
<1>4. (y < Size => y % Size = y) /\ (y >= Size => y % Size = y - Size)
  <2> HIDE DEF y
  <2> QED
    BY <1>3, Around
<1>5. (z < Size => z % Size = z) /\ (z >= Size => z % Size = z - Size)
  <2> HIDE DEF z
  <2> QED
    BY <1>1, Around
<1>6. CASE x < Size
  BY <1>1, <1>2, <1>6
<1>7. CASE x >= Size
  <2>1. y = z - Size /\ y < Size /\ z >= Size
    BY <1>1, <1>2, <1>7 DEF Positions
  <2> QED
    BY <2>1, <1>4, <1>5
<1> QED
  BY <1>1, <1>6, <1>7

\* Two different bytes of the queue are in two different places.
LEMMA Apart ==
  ASSUME NEW at \in Positions, NEW i \in 1 .. Size, NEW j \in 1 .. Size, i # j
  PROVE  (at + i - 1) % Size # (at + j - 1) % Size
<1> DEFINE x == at + i - 1
           y == at + j - 1
<1>1. x \in 0 .. 2 * Size - 1 /\ y \in 0 .. 2 * Size - 1 /\ x # y /\ x - y < Size /\ y - x < Size
  BY DEF Positions
<1> HIDE DEF x, y
<1>2. (x < Size => x % Size = x) /\ (x >= Size => x % Size = x - Size)
  BY <1>1, Around
<1>3. (y < Size => y % Size = y) /\ (y >= Size => y % Size = y - Size)
  BY <1>1, Around
<1>4. x % Size # y % Size
  BY <1>1, <1>2, <1>3
<1> QED
  BY <1>4 DEF x, y

\* A range of the buffer is a sequence of bytes.
LEMMA RangeFacts ==
  ASSUME NEW b \in [Positions -> Bytes], NEW at \in Positions, NEW n \in 0 .. Size
  PROVE  /\ BytesFrom(b, at, n) \in Seq(Bytes)
         /\ Len(BytesFrom(b, at, n)) = n
         /\ \A i \in 1 .. n : BytesFrom(b, at, n)[i] = b[(at + i - 1) % Size]
<1>1. ASSUME NEW i \in 1 .. n PROVE b[(at + i - 1) % Size] \in Bytes
  <2> DEFINE x == at + i - 1
  <2>1. x \in 0 .. 2 * Size - 1
    BY DEF Positions
  <2> HIDE DEF x
  <2>2. x % Size \in Positions
    BY <2>1, Around
  <2> QED
    BY <2>2 DEF x
<1>2. BytesFrom(b, at, n) \in [1 .. n -> Bytes]
  BY <1>1 DEF BytesFrom
<1> QED
  BY <1>2 DEF BytesFrom

\* Appending data behind l bytes of the queue leaves those where they are.
LEMMA PutContents ==
  ASSUME TypeOK, NEW at \in Positions, NEW bytes \in Seq(Bytes), Len(bytes) \in 0 .. Size,
         NEW l \in 0 .. Size - Len(bytes)
  PROVE  BytesFrom(Written((at + l) % Size, bytes), at, l + Len(bytes))
           = BytesFrom(buf, at, l) \o bytes
<1> DEFINE n == Len(bytes)
           tail == (at + l) % Size
           new == Written(tail, bytes)
           s == BytesFrom(new, at, l + n)
           t == BytesFrom(buf, at, l) \o bytes
<1>1. tail \in Positions
  <2> DEFINE x == at + l
  <2>1. x \in 0 .. 2 * Size - 1
    BY DEF Positions
  <2> HIDE DEF x
  <2>2. x % Size \in Positions
    BY <2>1, Around
  <2> QED
    BY <2>2 DEF x
<1>2. /\ new \in [Positions -> Bytes]
      /\ \A i \in 1 .. n : new[(tail + i - 1) % Size] = bytes[i]
      /\ \A p \in Positions :
            (\A i \in 1 .. n : p # (tail + i - 1) % Size) => new[p] = buf[p]
  <2> HIDE DEF tail
  <2> QED
    BY <1>1, WrittenBytes
<1>3. \A i \in 1 .. n : (tail + i - 1) % Size = (at + (l + i) - 1) % Size
  <2> TAKE i \in 1 .. n
  <2>1. l \in 0 .. Size /\ i \in 1 .. Size /\ l + i <= Size
    OBVIOUS
  <2> QED
    BY <2>1, Shift
<1>4. /\ s \in Seq(Bytes) /\ Len(s) = l + n
      /\ \A i \in 1 .. l + n : s[i] = new[(at + i - 1) % Size]
  <2>1. l + n \in 0 .. Size
    OBVIOUS
  <2> HIDE DEF new, n
  <2> QED
    BY <1>2, <2>1, RangeFacts
<1>5. /\ BytesFrom(buf, at, l) \in Seq(Bytes) /\ Len(BytesFrom(buf, at, l)) = l
      /\ \A i \in 1 .. l : BytesFrom(buf, at, l)[i] = buf[(at + i - 1) % Size]
  <2>1. buf \in [Positions -> Bytes] /\ l \in 0 .. Size
    BY DEF TypeOK
  <2> QED
    BY <2>1, RangeFacts
<1>6. /\ t \in Seq(Bytes) /\ Len(t) = l + n
      /\ \A i \in 1 .. l + n : t[i] = IF i <= l THEN BytesFrom(buf, at, l)[i] ELSE bytes[i - l]
  <2> DEFINE q == BytesFrom(buf, at, l)
  <2>1. q \in Seq(Bytes) /\ Len(q) = l
    BY <1>5
  <2> HIDE DEF q
  <2>2. /\ q \o bytes \in Seq(Bytes)
        /\ Len(q \o bytes) = Len(q) + Len(bytes)
        /\ \A i \in 1 .. Len(q) + Len(bytes) :
              (q \o bytes)[i] = IF i <= Len(q) THEN q[i] ELSE bytes[i - Len(q)]
    BY <2>1, ConcatProperties
  <2> QED
    BY <2>1, <2>2 DEF q
<1>7. ASSUME NEW i \in 1 .. l + n PROVE s[i] = t[i]
  <2>1. CASE i <= l
    <3>1. (at + i - 1) % Size \in Positions
      <4> DEFINE x == at + i - 1
      <4>1. x \in 0 .. 2 * Size - 1
        BY DEF Positions
      <4> HIDE DEF x
      <4>2. x % Size \in Positions
        BY <4>1, Around
      <4> QED
        BY <4>2 DEF x
    <3>2. ASSUME NEW j \in 1 .. n PROVE (at + i - 1) % Size # (tail + j - 1) % Size
      <4>1. i \in 1 .. Size /\ l + j \in 1 .. Size /\ i # l + j
        BY <2>1
      <4>2. (at + i - 1) % Size # (at + (l + j) - 1) % Size
        BY <4>1, Apart
      <4> QED
        BY <1>3, <4>2
    <3>3. new[(at + i - 1) % Size] = buf[(at + i - 1) % Size]
      <4> HIDE DEF new, tail, n
      <4> QED
        BY <1>2, <3>1, <3>2
    <3> HIDE DEF s, t, new, n
    <3> QED
      BY <1>4, <1>5, <1>6, <2>1, <3>3
  <2>2. CASE i > l
    <3> DEFINE j == i - l
    <3>1. j \in 1 .. n /\ l + j = i
      BY <2>2
    <3>2. new[(at + i - 1) % Size] = bytes[j]
      <4> HIDE DEF j, new, tail, n
      <4>1. new[(tail + j - 1) % Size] = bytes[j]
        BY <1>2, <3>1
      <4>2. (tail + j - 1) % Size = (at + (l + j) - 1) % Size
        BY <1>3, <3>1
      <4> QED
        BY <3>1, <4>1, <4>2
    <3>3. s[i] = new[(at + i - 1) % Size]
      <4> HIDE DEF s, new, n
      <4> QED
        BY <1>4
    <3>4. t[i] = bytes[j]
      <4> HIDE DEF t, n
      <4> QED
        BY <1>6, <2>2
    <3> QED
      BY <3>2, <3>3, <3>4
  <2>3. i <= l \/ i > l
    OBVIOUS
  <2> HIDE DEF s, t
  <2> QED
    BY <2>1, <2>2, <2>3
<1>8. s = t
  <2> HIDE DEF s, t, n
  <2>1. Len(s) = Len(t) /\ \A i \in 1 .. Len(s) : s[i] = t[i]
    BY <1>4, <1>6, <1>7
  <2> QED
    BY <1>4, <1>6, <2>1, SeqEqual
<1> QED
  BY <1>8

\* The newest n elements of a sequence, element by element.
LEMMA NewestFacts ==
  ASSUME NEW q \in Seq(Bytes), NEW n \in Nat
  PROVE  LET r == Fifo!Newest(q, n)
             m == IF n < Len(q) THEN n ELSE Len(q)
         IN  /\ r \in Seq(Bytes)
             /\ Len(r) = m
             /\ \A i \in 1 .. m : r[i] = q[(Len(q) - m) + i]
<1>1. CASE n < Len(q)
  <2> DEFINE from == Len(q) - n + 1
  <2>1. from \in Int /\ Len(q) \in Int /\ \A i \in from .. Len(q) : q[i] \in Bytes
    BY <1>1, ElementOfSeq, LenProperties
  <2> HIDE DEF from
  <2>2. /\ SubSeq(q, from, Len(q)) \in Seq(Bytes)
        /\ Len(SubSeq(q, from, Len(q))) = IF from <= Len(q) THEN Len(q) - from + 1 ELSE 0
        /\ \A i \in 1 .. Len(q) - from + 1 : SubSeq(q, from, Len(q))[i] = q[from + i - 1]
    BY <2>1, SubSeqProperties
  <2> USE DEF from
  <2>3. (from <= Len(q) => Len(q) - from + 1 = n) /\ (~(from <= Len(q)) => n = 0) /\ Len(q) \in Nat
    BY <1>1, LenProperties
  <2>4. \A i \in 1 .. n : from + i - 1 = (Len(q) - n) + i
    BY <2>3
  <2>5. Fifo!Newest(q, n) = SubSeq(q, from, Len(q))
    BY <1>1 DEF Fifo!Newest
  <2> HIDE DEF from
  <2> QED
    BY <1>1, <2>2, <2>3, <2>4, <2>5
<1>2. CASE ~(n < Len(q))
  <2>1. Fifo!Newest(q, n) = q /\ Len(q) \in Nat
    BY <1>2, LenProperties DEF Fifo!Newest
  <2> QED
    BY <1>2, <2>1
<1> QED
  BY <1>1, <1>2

\* The queue of a typed state.
LEMMA ContentsFacts ==
  ASSUME TypeOK
  PROVE  /\ Contents \in Seq(Bytes)
         /\ Len(Contents) = len
         /\ \A i \in 1 .. len : Contents[i] = buf[(start + i - 1) % Size]
<1>1. buf \in [Positions -> Bytes] /\ start \in Positions /\ len \in 0 .. Size
  BY DEF TypeOK
<1> QED
  BY <1>1, RangeFacts DEF Contents

\* Flushing keeps the newest bytes of the queue.
LEMMA FlushedContents ==
  ASSUME TypeOK, NEW keep \in Nat
  PROVE  BytesFrom(buf, Flushed(keep).start, Flushed(keep).len) = Fifo!Newest(Contents, keep)
<1> DEFINE s == BytesFrom(buf, Flushed(keep).start, Flushed(keep).len)
           t == Fifo!Newest(Contents, keep)
<1>1. CASE ~(keep < len)
  <2>1. Flushed(keep) = [start |-> start, len |-> len]
    BY <1>1, FlushedFacts
  <2>2. t = Contents
    BY <1>1, ContentsFacts DEF Fifo!Newest
  <2> QED
    BY <2>1, <2>2 DEF Contents
<1>2. CASE keep < len
  <2>1. Flushed(keep).start \in Positions /\ Flushed(keep).len = keep /\ keep \in 0 .. Size
    BY <1>2, FlushedFacts DEF TypeOK
  <2>2. buf \in [Positions -> Bytes]
    BY DEF TypeOK
  <2>3. /\ s \in Seq(Bytes) /\ Len(s) = keep
        /\ \A i \in 1 .. keep : s[i] = buf[(Flushed(keep).start + i - 1) % Size]
    <3> DEFINE f == Flushed(keep).start
               l == Flushed(keep).len
    <3>1. f \in Positions /\ l = keep /\ l \in 0 .. Size
      BY <2>1
    <3> HIDE DEF f, l
    <3>2. /\ BytesFrom(buf, f, l) \in Seq(Bytes) /\ Len(BytesFrom(buf, f, l)) = l
          /\ \A i \in 1 .. l : BytesFrom(buf, f, l)[i] = buf[(f + i - 1) % Size]
      BY <2>2, <3>1, RangeFacts
    <3> QED
      BY <3>1, <3>2 DEF f, l
  <2>4. /\ t \in Seq(Bytes) /\ Len(t) = keep
        /\ \A i \in 1 .. keep : t[i] = Contents[(len - keep) + i]
    <3> DEFINE q == Contents
    <3>1. q \in Seq(Bytes) /\ Len(q) = len
      BY ContentsFacts
    <3> HIDE DEF q
    <3>2. LET m == IF keep < Len(q) THEN keep ELSE Len(q)
          IN  /\ Fifo!Newest(q, keep) \in Seq(Bytes)
              /\ Len(Fifo!Newest(q, keep)) = m
              /\ \A i \in 1 .. m : Fifo!Newest(q, keep)[i] = q[(Len(q) - m) + i]
      BY <3>1, NewestFacts
    <3> QED
      BY <1>2, <3>1, <3>2 DEF q
  <2>5. ASSUME NEW i \in 1 .. keep
        PROVE  (Flushed(keep).start + i - 1) % Size = (start + ((len - keep) + i) - 1) % Size
    <3>1. keep # 0
      OBVIOUS
    <3>2. Flushed(keep).start = (start + (len - keep)) % Size
      BY <1>2, <3>1 DEF Flushed, TypeOK
    <3> DEFINE k == len - keep
    <3>3. start \in Positions /\ k \in 0 .. Size /\ i \in 1 .. Size /\ k + i <= Size
      BY <1>2, <2>1 DEF TypeOK
    <3> HIDE DEF k
    <3>4. (((start + k) % Size) + i - 1) % Size = (start + (k + i) - 1) % Size
      BY <3>3, Shift
    <3> QED
      BY <3>2, <3>4 DEF k
  <2>6. ASSUME NEW i \in 1 .. keep PROVE s[i] = t[i]
    <3> DEFINE j == (len - keep) + i
    <3>1. j \in 1 .. len
      BY <1>2 DEF TypeOK
    <3>2. Contents[j] = buf[(start + j - 1) % Size]
      <4> HIDE DEF j
      <4> QED
        BY <3>1, ContentsFacts
    <3> HIDE DEF s, t
    <3> QED
      BY <2>3, <2>4, <2>5, <3>2
  <2> HIDE DEF s, t
  <2>7. Len(s) = Len(t) /\ \A i \in 1 .. Len(s) : s[i] = t[i]
    BY <2>3, <2>4, <2>6
  <2>8. s = t
    BY <2>3, <2>4, <2>7, SeqEqual
  <2> QED
    BY <2>8 DEF s, t
<1> QED
  BY <1>1, <1>2 DEF TypeOK

\* What dk_ring_pushback forgets to make room is what the queue forgets.
LEMMA RoomContents ==
  ASSUME TypeOK, NEW bytes \in Seq(Bytes), Len(bytes) \in 1 .. Size
  PROVE  BytesFrom(buf, MadeRoom(Len(bytes)).start, MadeRoom(Len(bytes)).len) \o bytes
           = Fifo!Newest(Contents \o bytes, Size)
<1> DEFINE n == Len(bytes)
           q == Contents
<1>1. q \in Seq(Bytes) /\ Len(q) = len /\ len \in 0 .. Size
  BY ContentsFacts DEF TypeOK
<1>2. CASE len + n <= Size
  <2>1. MadeRoom(n) = [start |-> start, len |-> len]
    BY <1>1, <1>2 DEF MadeRoom
  <2>2. Len(q \o bytes) = len + n
    <3> HIDE DEF q
    <3> QED
      BY <1>1, ConcatProperties
  <2>3. Fifo!Newest(q \o bytes, Size) = q \o bytes
    <3> HIDE DEF q
    <3> QED
      BY <1>1, <1>2, <2>2 DEF Fifo!Newest
  <2> QED
    BY <2>1, <2>3 DEF Contents
<1>3. CASE len + n > Size
  <2> DEFINE keep == Size - n
             old == Fifo!Newest(q, keep)
             s == old \o bytes
             t == Fifo!Newest(q \o bytes, Size)
  <2>1. keep \in Nat /\ keep < len /\ keep + n = Size
    BY <1>1, <1>3
  <2>2. BytesFrom(buf, MadeRoom(n).start, MadeRoom(n).len) = old
    <3>1. MadeRoom(n) = Flushed(keep)
      BY <1>3 DEF MadeRoom
    <3> HIDE DEF keep
    <3> QED
      BY <2>1, <3>1, FlushedContents
  <2> HIDE DEF q, keep
  <2>3. /\ old \in Seq(Bytes) /\ Len(old) = keep
        /\ \A i \in 1 .. keep : old[i] = q[(len - keep) + i]
    BY <1>1, <2>1, NewestFacts
  <2> HIDE DEF old
  <2>4. /\ s \in Seq(Bytes) /\ Len(s) = Size
        /\ \A i \in 1 .. Size : s[i] = IF i <= keep THEN old[i] ELSE bytes[i - keep]
    <3>1. /\ s \in Seq(Bytes) /\ Len(s) = Len(old) + Len(bytes)
          /\ \A i \in 1 .. Len(old) + Len(bytes) :
                s[i] = IF i <= Len(old) THEN old[i] ELSE bytes[i - Len(old)]
      BY <2>3, ConcatProperties, ZenonT(40)
    <3>2. Len(old) = keep /\ Len(old) + Len(bytes) = Size
      BY <2>1, <2>3
    <3> HIDE DEF s
    <3> QED
      BY <3>1, <3>2
  <2> DEFINE c == q \o bytes
  <2>5. /\ c \in Seq(Bytes) /\ Len(c) = len + n
        /\ \A i \in 1 .. len + n : c[i] = IF i <= len THEN q[i] ELSE bytes[i - len]
    BY <1>1, ConcatProperties, ZenonT(40)
  <2> HIDE DEF c
  <2>6. /\ Fifo!Newest(c, Size) \in Seq(Bytes) /\ Len(Fifo!Newest(c, Size)) = Size
        /\ \A i \in 1 .. Size : Fifo!Newest(c, Size)[i] = c[((len + n) - Size) + i]
    <3> DEFINE m == IF Size < Len(c) THEN Size ELSE Len(c)
    <3>1. /\ Fifo!Newest(c, Size) \in Seq(Bytes) /\ Len(Fifo!Newest(c, Size)) = m
          /\ \A i \in 1 .. m : Fifo!Newest(c, Size)[i] = c[(Len(c) - m) + i]
      BY <2>5, NewestFacts
    <3>2. m = Size /\ Len(c) = len + n
      BY <1>1, <1>3, <2>5
    <3> HIDE DEF m
    <3> QED
      BY <3>1, <3>2
  <2>7. ASSUME NEW i \in 1 .. Size PROVE s[i] = Fifo!Newest(c, Size)[i]
    <3> DEFINE j == ((len + n) - Size) + i
    <3>1. j \in 1 .. len + n /\ j = (len - keep) + i
      BY <1>1, <1>3, <2>1
    <3>2. Fifo!Newest(c, Size)[i] = IF j <= len THEN q[j] ELSE bytes[j - len]
      BY <2>5, <2>6, <3>1
    <3>3. (i <= keep <=> j <= len) /\ j - len = i - keep
      BY <1>1, <2>1, <3>1
    <3>4. i <= keep => i \in 1 .. keep
      BY <2>1
    <3> HIDE DEF j, s
    <3> QED
      BY <2>3, <2>4, <3>1, <3>2, <3>3, <3>4
  <2> HIDE DEF s
  <2>8. s = Fifo!Newest(c, Size)
    BY <2>4, <2>6, <2>7, SeqEqual
  <2> QED
    BY <2>2, <2>8 DEF s, c, q
<1> QED
  BY <1>1, <1>2, <1>3

\* Of more than the buffer holds the end is left, and nothing of the queue.
LEMMA PushAllContents ==
  ASSUME TypeOK, NEW bytes \in Seq(Bytes), Len(bytes) > Size, PushAll(bytes)
  PROVE  Contents' = Fifo!Newest(Contents \o bytes, Size)
<1> DEFINE n == Len(bytes)
           q == Contents
           c == q \o bytes
           t == Fifo!Newest(c, Size)
<1>1. q \in Seq(Bytes) /\ Len(q) = len /\ len \in 0 .. Size /\ n \in Nat
  BY ContentsFacts DEF TypeOK
<1> HIDE DEF q
<1>2. /\ c \in Seq(Bytes) /\ Len(c) = len + n
      /\ \A i \in 1 .. len + n : c[i] = IF i <= len THEN q[i] ELSE bytes[i - len]
  BY <1>1, ConcatProperties, ZenonT(40)
<1> HIDE DEF c
<1>3. /\ t \in Seq(Bytes) /\ Len(t) = Size
      /\ \A i \in 1 .. Size : t[i] = c[((len + n) - Size) + i]
  <2> DEFINE m == IF Size < Len(c) THEN Size ELSE Len(c)
  <2>1. /\ t \in Seq(Bytes) /\ Len(t) = m
        /\ \A i \in 1 .. m : t[i] = c[(Len(c) - m) + i]
    BY <1>2, NewestFacts
  <2>2. m = Size /\ Len(c) = len + n
    BY <1>1, <1>2
  <2> HIDE DEF m, t
  <2> QED
    BY <2>1, <2>2
<1> HIDE DEF t
<1>4. /\ buf' \in [Positions -> Bytes] /\ start' = 0 /\ len' = Size
      /\ \A p \in Positions : buf'[p] = bytes[n - Size + p + 1]
  <2>1. \A p \in Positions : bytes[n - Size + p + 1] \in Bytes
    <3> TAKE p \in Positions
    <3>1. n - Size + p + 1 \in 1 .. n
      BY <1>1 DEF Positions
    <3> QED
      BY <3>1, ElementOfSeq
  <2> QED
    BY <2>1 DEF PushAll
<1>5. /\ Contents' \in Seq(Bytes) /\ Len(Contents') = Size
      /\ \A i \in 1 .. Size : Contents'[i] = bytes[(n - Size) + i]
  <2> DEFINE b == buf'
             s == BytesFrom(b, 0, Size)
  <2>1. b \in [Positions -> Bytes] /\ 0 \in Positions
    BY <1>4 DEF Positions
  <2> HIDE DEF b
  <2>2. /\ s \in Seq(Bytes) /\ Len(s) = Size
        /\ \A i \in 1 .. Size : s[i] = b[(0 + i - 1) % Size]
    <3>1. Size \in 0 .. Size
      OBVIOUS
    <3> QED
      BY <2>1, <3>1, RangeFacts
  <2>3. ASSUME NEW i \in 1 .. Size PROVE s[i] = bytes[(n - Size) + i]
    <3>1. i - 1 \in Positions /\ i - 1 \in 0 .. 2 * Size - 1 /\ i - 1 < Size /\ 0 + i - 1 = i - 1
      BY DEF Positions
    <3>2. (0 + i - 1) % Size = i - 1
      <4> DEFINE x == i - 1
      <4> HIDE DEF x
      <4>1. x % Size = x
        BY <3>1, Around DEF x
      <4> QED
        BY <3>1, <4>1 DEF x
    <3>3. b[i - 1] = bytes[n - Size + (i - 1) + 1]
      BY <1>4, <3>1 DEF b
    <3>4. n - Size + (i - 1) + 1 = (n - Size) + i
      BY <1>1
    <3> HIDE DEF s
    <3> QED
      BY <2>2, <3>2, <3>3, <3>4
  <2>4. Contents' = s
    BY <1>4 DEF Contents, BytesFrom, b
  <2> HIDE DEF s
  <2> QED
    BY <2>2, <2>3, <2>4
<1>6. ASSUME NEW i \in 1 .. Size PROVE Contents'[i] = t[i]
  <2> DEFINE j == ((len + n) - Size) + i
  <2>1. j \in 1 .. len + n /\ ~(j <= len) /\ j - len = (n - Size) + i
    BY <1>1
  <2>2. t[i] = bytes[j - len]
    BY <1>2, <1>3, <2>1
  <2> HIDE DEF j
  <2> QED
    BY <1>5, <2>1, <2>2
<1>7. Contents' = t
  BY <1>3, <1>5, <1>6, SeqEqual
<1> QED
  BY <1>7 DEF t, c, q

\* What is read is the beginning of the queue.
LEMMA ReadContents ==
  ASSUME TypeOK, NEW n \in 0 .. len
  PROVE  /\ Read(n) \in Seq(Bytes)
         /\ Len(Read(n)) = n
         /\ Read(n) = SubSeq(Contents, 1, n)
<1>1. Read(n) \in Seq(Bytes) /\ Len(Read(n)) = n
  BY ReadBytes DEF TypeOK
<1>2. \A i \in 1 .. n : Read(n)[i] = Contents[i] /\ Contents[i] \in Bytes
  <2> TAKE i \in 1 .. n
  <2>1. i \in 1 .. len
    BY DEF TypeOK
  <2>2. Contents[i] = buf[(start + i - 1) % Size]
    BY <2>1, ContentsFacts
  <2>3. Contents[i] \in Bytes
    BY <2>1, ContentsFacts, ElementOfSeq
  <2> QED
    BY <2>2, <2>3, ReadBytes
<1>3. /\ SubSeq(Contents, 1, n) \in Seq(Bytes)
      /\ Len(SubSeq(Contents, 1, n)) = IF 1 <= n THEN n - 1 + 1 ELSE 0
      /\ \A i \in 1 .. n - 1 + 1 : SubSeq(Contents, 1, n)[i] = Contents[1 + i - 1]
  <2>1. 1 \in Int /\ n \in Int /\ \A i \in 1 .. n : Contents[i] \in Bytes
    BY <1>2 DEF TypeOK
  <2> QED
    BY <2>1, SubSeqProperties
<1>4. Read(n) = SubSeq(Contents, 1, n)
  <2> DEFINE s == SubSeq(Contents, 1, n)
  <2>1. s \in Seq(Bytes) /\ Len(s) = n /\ \A i \in 1 .. n : s[i] = Contents[i]
    BY <1>3 DEF TypeOK
  <2> HIDE DEF s
  <2>2. s = Read(n)
    BY <1>1, <1>2, <2>1, SeqEqual
  <2> QED
    BY <2>2 DEF s
<1> QED
  BY <1>1, <1>4

\* Where dk_ring_popfront leaves the start, in both of its branches.
LEMMA PopStart ==
  ASSUME TypeOK, NEW k \in 0 .. len
  PROVE  /\ (start + k) % Size \in Positions
         /\ ~(start + k <= Size) => (k - Segment(start, k)) % Size = (start + k) % Size
<1> DEFINE x == start + k
           y == k - Segment(start, k)
<1>1. x \in 0 .. 2 * Size - 1
  BY DEF TypeOK, Positions
<1>2. x % Size \in Positions /\ (x >= Size => x % Size = x - Size)
  <2> HIDE DEF x
  <2> QED
    BY <1>1, Around
<1>3. ASSUME ~(x <= Size) PROVE y % Size = x % Size
  <2>1. y = x - Size /\ y \in 0 .. 2 * Size - 1 /\ y < Size /\ x >= Size
    BY <1>3 DEF TypeOK, Positions, Segment
  <2>2. y % Size = y
    <3> HIDE DEF y
    <3> QED
      BY <2>1, Around
  <2> QED
    BY <1>2, <2>1, <2>2
<1> QED
  BY <1>2, <1>3

\* What is popped is the beginning of the queue, and the rest of it is left.
LEMMA PopContents ==
  ASSUME TypeOK, NEW n \in Nat, Popfront(n)
  PROVE  /\ start' \in Positions /\ len' \in 0 .. Size
         /\ out' \in Seq(Bytes)
         /\ Len(out') = Fifo!Least(n, Len(Contents))
         /\ Contents = out' \o Contents'
<1> DEFINE k == Smaller(n, len)
           q == Contents
           rest == Contents'
           c == out' \o rest
<1>1. k \in 0 .. len /\ len \in 0 .. Size /\ start \in Positions /\ buf \in [Positions -> Bytes]
  BY DEF Smaller, TypeOK
<1>2. /\ out' = Read(k) /\ buf' = buf /\ len' = len - k
      /\ start' = (start + k) % Size
  <2>1. ~(start + k <= Size) => (k - Segment(start, k)) % Size = (start + k) % Size
    <3> HIDE DEF k
    <3> QED
      BY <1>1, PopStart
  <2> HIDE DEF k
  <2> QED
    BY <2>1 DEF Popfront, k
<1>3. start' \in Positions /\ len' \in 0 .. Size
  <2> HIDE DEF k
  <2>1. (start + k) % Size \in Positions
    BY <1>1, PopStart
  <2> QED
    BY <1>1, <1>2, <2>1
<1>4. q \in Seq(Bytes) /\ Len(q) = len /\ \A i \in 1 .. len : q[i] = buf[(start + i - 1) % Size]
  BY ContentsFacts
<1>5. k = Fifo!Least(n, Len(q))
  BY <1>4 DEF Fifo!Least, Smaller
<1> HIDE DEF k
<1>6. /\ out' \in Seq(Bytes) /\ Len(out') = k
      /\ \A i \in 1 .. k : out'[i] = buf[(start + i - 1) % Size]
  BY <1>1, <1>2, ReadBytes, ReadContents
<1>7. /\ rest \in Seq(Bytes) /\ Len(rest) = len - k
      /\ \A i \in 1 .. len - k : rest[i] = buf[(start' + i - 1) % Size]
  <2> DEFINE at == start'
             l == len'
  <2>1. rest = BytesFrom(buf, at, l)
    BY <1>2 DEF Contents, BytesFrom
  <2>2. at \in Positions /\ l \in 0 .. Size /\ l = len - k
    BY <1>2, <1>3
  <2> HIDE DEF at, l
  <2>3. /\ BytesFrom(buf, at, l) \in Seq(Bytes) /\ Len(BytesFrom(buf, at, l)) = l
        /\ \A i \in 1 .. l : BytesFrom(buf, at, l)[i] = buf[(at + i - 1) % Size]
    BY <1>1, <2>2, RangeFacts
  <2> HIDE DEF rest
  <2> QED
    BY <2>1, <2>2, <2>3 DEF at
<1>8. ASSUME NEW i \in 1 .. len - k PROVE rest[i] = q[k + i]
  <2>1. k \in 0 .. Size /\ i \in 1 .. Size /\ k + i <= Size /\ k + i \in 1 .. len
    BY <1>1
  <2>2. (((start + k) % Size) + i - 1) % Size = (start + (k + i) - 1) % Size
    BY <1>1, <2>1, Shift
  <2> DEFINE j == k + i
  <2>3. q[j] = buf[(start + j - 1) % Size]
    <3>1. j \in 1 .. len
      BY <2>1
    <3> HIDE DEF j, q
    <3> QED
      BY <1>4, <3>1
  <2> HIDE DEF q, rest
  <2> QED
    BY <1>2, <1>7, <2>2, <2>3
<1> HIDE DEF q, rest
<1>9. /\ c \in Seq(Bytes) /\ Len(c) = len
      /\ \A i \in 1 .. len : c[i] = IF i <= k THEN out'[i] ELSE rest[i - k]
  <2> DEFINE o == out'
  <2>1. o \in Seq(Bytes) /\ Len(o) = k /\ Len(o) + Len(rest) = len
    BY <1>1, <1>6, <1>7
  <2> HIDE DEF o
  <2>2. /\ o \o rest \in Seq(Bytes) /\ Len(o \o rest) = Len(o) + Len(rest)
        /\ \A i \in 1 .. Len(o) + Len(rest) :
              (o \o rest)[i] = IF i <= Len(o) THEN o[i] ELSE rest[i - Len(o)]
    BY <1>7, <2>1, ConcatProperties
  <2> QED
    BY <2>1, <2>2 DEF o
<1>10. ASSUME NEW i \in 1 .. len PROVE q[i] = c[i]
  <2>1. CASE i <= k
    <3>1. i \in 1 .. k
      BY <1>1, <2>1
    <3> HIDE DEF c
    <3> QED
      BY <1>4, <1>6, <1>9, <2>1, <3>1
  <2>2. CASE ~(i <= k)
    <3> DEFINE j == i - k
    <3>1. j \in 1 .. len - k /\ k + j = i
      BY <1>1, <2>2
    <3>2. c[i] = rest[j]
      <4> HIDE DEF c
      <4> QED
        BY <1>9, <2>2
    <3> HIDE DEF c, j
    <3>3. rest[j] = q[k + j]
      BY <1>8, <3>1
    <3> QED
      BY <3>1, <3>2, <3>3
  <2> HIDE DEF c
  <2> QED
    BY <2>1, <2>2
<1>11. q = c
  <2> HIDE DEF c
  <2> QED
    BY <1>4, <1>9, <1>10, SeqEqual
<1> QED
  BY <1>3, <1>5, <1>6, <1>11 DEF q, rest

-----------------------------------------------------------------------------
(* The theorems. *)

\* dk_ring_pushback keeps the types and appends to the queue.
LEMMA PushStep ==
  ASSUME TypeOK, NEW bytes \in Data, Pushback(bytes)
  PROVE  TypeOK' /\ Fifo!Put(bytes)
<1>1. bytes \in Seq(Bytes) /\ Len(bytes) \in Nat /\ Len(bytes) # 0
  <2>1. bytes \in Seq(Bytes) /\ bytes # << >>
    OBVIOUS
  <2> QED
    BY <2>1, LenProperties, EmptySeq
<1>2. call' = Call("pushback", bytes, 0) /\ out' = << >>
  BY DEF Pushback, PushAll, PushFitting
<1>3. /\ call' = Fifo!Call("pushback", bytes, 0)
      /\ call' \in [op : {"create", "pushback", "popfront", "copyback", "flush", "reset"},
                     data : Data \cup {<< >>}, n : Lengths \cup {0}]
      /\ out' \in Seq(Bytes)
  BY <1>2 DEF Call, Fifo!Call
<1>4. CASE PushAll(bytes)
  <2>1. Contents' = Fifo!Newest(Contents \o bytes, Size)
    BY <1>1, <1>4, PushAllContents DEF PushAll
  <2>2. /\ buf' \in [Positions -> Bytes] /\ start' \in Positions /\ len' \in 0 .. Size
    <3>1. ASSUME NEW p \in Positions PROVE bytes[Len(bytes) - Size + p + 1] \in Bytes
      <4>1. Len(bytes) - Size + p + 1 \in 1 .. Len(bytes)
        BY <1>1, <1>4 DEF PushAll, Positions
      <4> QED
        BY <1>1, <4>1, ElementOfSeq
    <3> QED
      BY <1>4, <3>1 DEF PushAll, Positions
  <2> QED
    BY <1>2, <1>3, <2>1, <2>2 DEF TypeOK, Fifo!Put
<1>5. CASE PushFitting(bytes)
  <2> DEFINE n == Len(bytes)
             from == MadeRoom(n).start
             l == MadeRoom(n).len
             at == (from + l) % Size
  <2>1. n \in 1 .. Size
    BY <1>1, <1>5 DEF PushFitting
  <2>2. buf' = Written(at, bytes) /\ start' = from /\ len' = l + n
    BY <1>5 DEF PushFitting
  <2>3. from \in Positions /\ l \in 0 .. Size - n
    BY <2>1, MadeRoomFacts
  <2> HIDE DEF from, l, n
  <2>4. at \in Positions
    <3> DEFINE x == from + l
    <3>1. x \in 0 .. 2 * Size - 1
      BY <2>1, <2>3 DEF Positions
    <3> HIDE DEF x
    <3>2. x % Size \in Positions
      BY <3>1, Around
    <3> QED
      BY <3>2 DEF x
  <2>5. /\ buf' \in [Positions -> Bytes] /\ start' \in Positions /\ len' \in 0 .. Size
    <3> HIDE DEF at
    <3>1. Len(bytes) \in 0 .. Size
      BY <2>1 DEF n
    <3>2. Written(at, bytes) \in [Positions -> Bytes]
      BY <1>1, <2>4, <3>1, WrittenBytes
    <3> QED
      BY <2>1, <2>2, <2>3, <3>2
  <2>6. BytesFrom(Written(at, bytes), from, l + n) = BytesFrom(buf, from, l) \o bytes
    BY <1>1, <2>1, <2>3, PutContents DEF n
  <2>7. BytesFrom(buf, from, l) \o bytes = Fifo!Newest(Contents \o bytes, Size)
    BY <1>1, <2>1, RoomContents DEF n, from, l
  <2>8. Contents' = BytesFrom(Written(at, bytes), from, l + n)
    BY <2>2 DEF Contents, BytesFrom
  <2> QED
    BY <1>2, <1>3, <2>5, <2>6, <2>7, <2>8 DEF TypeOK, Fifo!Put
<1> QED
  BY <1>4, <1>5 DEF Pushback

\* dk_ring_popfront, dk_ring_copyback and dk_ring_flush keep the types and do
\* to the queue what their names say.
LEMMA LengthStep ==
  ASSUME TypeOK, NEW n \in Lengths, Popfront(n) \/ Copyback(n) \/ Flush(n)
  PROVE  TypeOK' /\ (Fifo!Take(n) \/ Fifo!Look(n) \/ Fifo!Keep(n))
<1> USE DEF Call, Fifo!Call
<1>1. n \in Nat
  OBVIOUS
<1>2. CASE Popfront(n)
  <2>1. /\ start' \in Positions /\ len' \in 0 .. Size /\ out' \in Seq(Bytes)
        /\ Len(out') = Fifo!Least(n, Len(Contents))
        /\ Contents = out' \o Contents'
    BY <1>1, <1>2, PopContents
  <2>2. buf' = buf /\ call' = Call("popfront", << >>, n)
    BY <1>2 DEF Popfront
  <2> QED
    BY <2>1, <2>2 DEF TypeOK, Fifo!Take
<1>3. CASE Copyback(n)
  <2> DEFINE k == Smaller(n, len)
  <2>1. k \in 0 .. len /\ k = Fifo!Least(n, Len(Contents))
    BY ContentsFacts DEF Smaller, TypeOK, Fifo!Least
  <2>2. out' = Read(k) /\ UNCHANGED <<buf, start, len>> /\ call' = Call("copyback", << >>, n)
    BY <1>3 DEF Copyback
  <2> HIDE DEF k
  <2>3. out' \in Seq(Bytes) /\ out' = SubSeq(Contents, 1, k)
    BY <2>1, <2>2, ReadContents
  <2>4. Contents' = Contents
    BY <2>2 DEF Contents, BytesFrom
  <2> QED
    BY <2>1, <2>2, <2>3, <2>4 DEF TypeOK, Fifo!Look
<1>4. CASE Flush(n)
  <2>1. /\ start' = Flushed(n).start /\ len' = Flushed(n).len /\ out' = << >>
        /\ buf' = buf /\ call' = Call("flush", << >>, n)
    BY <1>4 DEF Flush
  <2>2. start' \in Positions /\ len' \in 0 .. Size
    BY <1>1, <2>1, FlushedFacts DEF TypeOK
  <2>3. Contents' = Fifo!Newest(Contents, n)
    <3>1. Contents' = BytesFrom(buf, Flushed(n).start, Flushed(n).len)
      BY <2>1 DEF Contents, BytesFrom
    <3> QED
      BY <1>1, <3>1, FlushedContents
  <2> QED
    BY <2>1, <2>2, <2>3 DEF TypeOK, Fifo!Keep
<1> QED
  BY <1>2, <1>3, <1>4

\* dk_ring_reset keeps the types and empties the queue.
LEMMA ResetStep ==
  ASSUME TypeOK, Reset
  PROVE  TypeOK' /\ Fifo!Clear
<1>1. Contents' = << >>
  BY DEF Reset, Contents, BytesFrom
<1>2. 0 \in Positions /\ 0 \in 0 .. Size
  BY DEF Positions
<1> QED
  BY <1>1, <1>2 DEF Reset, TypeOK, Fifo!Clear, Call, Fifo!Call

\* A step of the cache is a step of the queue, or changes nothing, and keeps
\* the types.
LEMMA EveryStep == TypeOK /\ [Next]_vars => TypeOK' /\ [Fifo!FifoNext]_(Fifo!fifoVars)
<1> SUFFICES ASSUME TypeOK, [Next]_vars
             PROVE  TypeOK' /\ [Fifo!FifoNext]_(Fifo!fifoVars)
  OBVIOUS
<1>1. ASSUME NEW bytes \in Data, Pushback(bytes)
      PROVE  TypeOK' /\ Fifo!FifoNext
  BY <1>1, PushStep DEF Fifo!FifoNext
<1>2. ASSUME NEW n \in Lengths, Popfront(n) \/ Copyback(n) \/ Flush(n)
      PROVE  TypeOK' /\ Fifo!FifoNext
  BY <1>2, LengthStep DEF Fifo!FifoNext
<1>3. CASE Reset
  BY <1>3, ResetStep DEF Fifo!FifoNext
<1>4. CASE UNCHANGED vars
  <2>1. Contents' = Contents
    BY <1>4 DEF vars, Contents, BytesFrom
  <2> QED
    BY <1>4, <2>1 DEF vars, TypeOK, Positions, Fifo!fifoVars
<1> QED
  BY <1>1, <1>2, <1>3, <1>4 DEF Next

\* A cache that has just been created is empty.
LEMMA AtFirst == Init => TypeOK /\ Fifo!FifoInit
<1> SUFFICES ASSUME Init PROVE TypeOK /\ Fifo!FifoInit
  OBVIOUS
<1>1. Contents = << >>
  BY DEF Init, Contents, BytesFrom
<1>2. TypeOK
  BY DEF Init, TypeOK, Positions, Call
<1> QED
  BY <1>1, <1>2 DEF Init, Fifo!FifoInit, Call, Fifo!Call

\* m_uPosStart stays in the buffer and m_uLenData does not exceed it.
THEOREM TypeCorrect == Spec => []TypeOK
<1> QED
  BY AtFirst, EveryStep, PTL DEF Spec

\* Nothing is ever copied from or to a place outside the buffer, and the
\* assertion in dk_ring_pushback never fails.
THEOREM CopiesAlwaysFit == Spec => []CopiesFit
<1> QED
  BY TypeCorrect, TypedCopiesFit, PTL

\* The cache implements the queue: the bytes popped are the bytes pushed, in
\* order, and only the oldest ones are forgotten, when there is no room.
THEOREM ImplementsFifo == Spec => AsFifo
<1>1. TypeOK /\ [Next]_vars => [Fifo!FifoNext]_(Fifo!fifoVars)
  BY EveryStep
<1>2. Init => Fifo!FifoInit
  BY AtFirst
<1> QED
  BY <1>1, <1>2, TypeCorrect, PTL DEF Spec, AsFifo, Fifo!FifoSpec

HIDE LengthsAssumption
HIDE DataAssumption
HIDE BytesAssumption
HIDE SizeAssumption

(***************************************************************************)
(* MCLibrary.                                                              *)
(***************************************************************************)

\* What is proved about BlockCache, about the block cache of MCLibrary.
Proved ==
    INSTANCE BlockCacheProofs
      WITH Size <- 8, Header <- 2, Bytes <- 0 .. 3, Longs <- 0 .. 15, Memory <- Memories,
           Data <- SomeBlocks, Lengths <- BlockLengths,
           buf <- bBuf, start <- bStart, len <- bLen,
           call <- bCall, out <- bOut, answer <- bAnswer

\* A behaviour of MCLibrary is one of each of its classes.
LEMMA ClassBehaviours ==
    LibrarySpec => Spec /\ DecoderSpec /\ Block!Spec /\ ServerSpec /\ Client!Spec
<1>1. LibraryInit => Init /\ DecoderInit /\ Block!Init /\ ServerInit /\ Client!Init
  BY DEF LibraryInit
<1>2. [LibraryNext]_libraryVars => [Next]_vars
  BY DEF LibraryNext, RingStep, DecoderStep, BlockStep, ServerStep, ClientStep, libraryVars
<1>3. [LibraryNext]_libraryVars => [DecoderNext]_decoderVars
  BY DEF LibraryNext, RingStep, DecoderStep, BlockStep, ServerStep, ClientStep, libraryVars
<1>4. [LibraryNext]_libraryVars => [Block!Next]_(Block!vars)
  BY DEF LibraryNext, RingStep, DecoderStep, BlockStep, ServerStep, ClientStep, libraryVars,
         blockVars, Block!vars
<1>5. [LibraryNext]_libraryVars => [ServerNext]_serverVars
  BY DEF LibraryNext, RingStep, DecoderStep, BlockStep, ServerStep, ClientStep, libraryVars,
         socketVars
<1>6. [LibraryNext]_libraryVars => [Client!Next]_(Client!vars)
  BY DEF LibraryNext, RingStep, DecoderStep, BlockStep, ServerStep, ClientStep, libraryVars,
         socketVars, clientVars, Client!vars, Client!lockVars
<1> QED
  BY <1>1, <1>2, <1>3, <1>4, <1>5, <1>6, PTL
     DEF LibrarySpec, Spec, DecoderSpec, Block!Spec, ServerSpec, Client!Spec

\* The two instances of BlockCache have the same blocks in the same buffer.
LEMMA SameBlocks == Block!Blocks = Proved!Blocks
<1>1. \A b, at, first, n : Block!Copied(b, at, first, n) = Proved!Copied(b, at, first, n)
  BY DEF Block!Copied, Proved!Copied, Block!Segment, Proved!Segment
<1>2. \A at : Block!NumberAt(at) = Proved!NumberAt(at)
  BY DEF Block!NumberAt, Proved!NumberAt, Block!NumberOf, Proved!NumberOf, Block!Copied,
      Proved!Copied, Block!Segment, Proved!Segment
<1>3. Block!Rest = Proved!Rest
  BY DEF Block!Rest, Proved!Rest, Block!WithoutFirst, Proved!WithoutFirst, Block!NumberAt,
      Proved!NumberAt, Block!NumberOf, Proved!NumberOf, Block!Copied, Proved!Copied,
      Block!Segment, Proved!Segment
<1>4. Block!Rounds(0) = Proved!Rounds(0)
  BY <1>3 DEF Block!Rounds, Proved!Rounds
<1> QED
  BY <1>1, <1>2, <1>3, <1>4 DEF Block!Blocks, Proved!Blocks

\* The two instances of BlockCache are the same.
LEMMA SameBlockCache ==
    /\ Block!Spec <=> Proved!Spec
    /\ Block!TypeOK <=> Proved!TypeOK
    /\ Block!AsBlocks <=> Proved!AsBlocks
<1>1. Block!TypeOK <=> Proved!TypeOK
  BY DEF Block!TypeOK, Proved!TypeOK, Block!Positions, Proved!Positions
<1>2. Block!Spec <=> Proved!Spec
  BY DEF Block!Spec, Proved!Spec, Block!Init, Proved!Init, Block!Next, Proved!Next,
      Block!vars, Proved!vars, Block!Positions, Proved!Positions, Block!Segment,
      Proved!Segment, Block!Written, Proved!Written, Block!Copied, Proved!Copied,
      Block!NumberOf, Proved!NumberOf, Block!NumberAt, Proved!NumberAt,
      Block!WithoutFirst, Proved!WithoutFirst, Block!Rest, Proved!Rest, Block!Rounds,
      Proved!Rounds, Block!MadeRoom, Proved!MadeRoom, Block!PushNewBlock,
      Proved!PushNewBlock, Block!FirstBlock, Proved!FirstBlock, Block!FirstCopy,
      Proved!FirstCopy, Block!Pushback, Proved!Pushback, Block!Pop1stBlock,
      Proved!Pop1stBlock, Block!Get1stBlockSize, Proved!Get1stBlockSize,
      Block!GetAllDataLength, Proved!GetAllDataLength, Block!Reset, Proved!Reset
<1>3. Block!AsBlocks <=> Proved!AsBlocks
  <2>1. Block!Blocks = Proved!Blocks /\ (Block!Blocks = Proved!Blocks)'
    BY SameBlocks, PTL
  <2>2. \A q, n : Block!Queue!CostOf(q, n) = Proved!Queue!CostOf(q, n)
    BY DEF Block!Queue!Cost, Proved!Queue!Cost, Block!Queue!CostOf, Proved!Queue!CostOf
  <2>3. \A q : Block!Queue!TotalCost(q) = Proved!Queue!TotalCost(q)
    BY <2>2 DEF Block!Queue!TotalCost, Proved!Queue!TotalCost
  <2>4. \A block, i : Block!Queue!Fits(block, i) <=> Proved!Queue!Fits(block, i)
    BY <2>1, <2>2, <2>3 DEF Block!Queue!Cost, Proved!Queue!Cost, Block!Queue!Fits,
        Proved!Queue!Fits
  <2>5. \A block : Block!Queue!Put(block) <=> Proved!Queue!Put(block)
    BY <2>1, <2>4 DEF Block!Queue!Cost, Proved!Queue!Cost, Block!Queue!Put, Proved!Queue!Put
  <2>6. \A n : Block!Queue!Take(n) <=> Proved!Queue!Take(n)
    BY <2>1 DEF Block!Queue!Take, Proved!Queue!Take
  <2>7. Block!Queue!Look <=> Proved!Queue!Look
    BY <2>1 DEF Block!Queue!Look, Proved!Queue!Look
  <2>8. Block!Queue!Total <=> Proved!Queue!Total
    BY <2>1, <2>3 DEF Block!Queue!Total, Proved!Queue!Total
  <2>9. Block!Queue!Clear <=> Proved!Queue!Clear
    BY <2>1 DEF Block!Queue!Clear, Proved!Queue!Clear
  <2>10. Block!Queue!BlockNext <=> Proved!Queue!BlockNext
    BY <2>5, <2>6, <2>7, <2>8, <2>9 DEF Block!Queue!BlockNext, Proved!Queue!BlockNext
  <2>11. UNCHANGED Block!Queue!blockVars <=> UNCHANGED Proved!Queue!blockVars
    BY <2>1 DEF Block!Queue!blockVars, Proved!Queue!blockVars
  <2>12. Block!Queue!BlockInit <=> Proved!Queue!BlockInit
    BY <2>1 DEF Block!Queue!BlockInit, Proved!Queue!BlockInit
  <2> QED
    BY <2>10, <2>11, <2>12, PTL
       DEF Block!AsBlocks, Proved!AsBlocks, Block!Queue!BlockSpec, Proved!Queue!BlockSpec
<1> QED
  BY <1>1, <1>2, <1>3

\* The block cache of MCLibrary implements the queue of whole blocks.
THEOREM LibraryImplementsQueue == LibrarySpec => AsBlocks
<1>1. Proved!BlockAssumption
  BY LibraryAssumption DEF Block!BlockAssumption, Proved!BlockAssumption
<1>2. Proved!Spec => Proved!AsBlocks
  BY <1>1, Proved!ImplementsQueue
<1> QED
  BY <1>2, ClassBehaviours, SameBlockCache, PTL DEF AsBlocks

\* The state of every class has its type: positions of the buffers are positions,
\* the decoder's cache is shorter than its buffer, one thread at a time is inside
\* a lock.
THEOREM LibraryTypesCorrect == LibrarySpec => []TypesOK
<1>1. Proved!BlockAssumption
  BY LibraryAssumption DEF Block!BlockAssumption, Proved!BlockAssumption
<1>2. Proved!Spec => []Proved!TypeOK
  BY <1>1, Proved!TypeCorrect
<1> QED
  BY <1>2, ClassBehaviours, SameBlockCache, TypeCorrect, DecoderTypeCorrect,
     ServerTypeCorrect, ClientTypeCorrect, PTL DEF TypesOK

=============================================================================
