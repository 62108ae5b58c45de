--------------------------- MODULE BlockCacheProofs ---------------------------
(***************************************************************************)
(* Proofs about BlockCache, for every size of the buffer, however many     *)
(* bytes a number has and in whatever order, and whatever blocks are       *)
(* pushed: the cache implements BlockFifo.  The module that instantiates   *)
(* BlockCache assumes BlockAssumption; here it is a hypothesis.            *)
(***************************************************************************)
EXTENDS BlockCache, SequenceTheorems, NaturalsInduction, WellFoundedInduction, TLAPS

\* Queues of blocks; blocks are not empty.
Queues == Seq(Seq(Bytes) \ {<< >>})

\* The block lies in the buffer b, behind its number, at bytes from position s.
IsBlock(b, s, at, block) ==
    /\ \A j \in 1 .. Header : b[(s + (at + (j - 1))) % Size] = Memory[Len(block)][j]
    /\ \A j \in 1 .. Len(block) : b[(s + (at + Header + (j - 1))) % Size] = block[j]

\* The l bytes of the buffer b from position s on are the blocks of q, one
\* behind the other.
Holds(b, s, l, q) ==
    /\ q \in Queues
    /\ Queue!CostOf(q, Len(q)) = l
    /\ \A i \in 1 .. Len(q) : IsBlock(b, s, Queue!CostOf(q, i - 1), q[i])

\* The inductive invariant: the queue is made of whole blocks.
Inv == TypeOK /\ Holds(buf, start, len, Blocks)

-----------------------------------------------------------------------------
(* Numbers and sums. *)

\* Every set of numbers that is not empty has a least one: what is shown by
\* induction is shown by the least number it fails for.
LEMMA LeastNumber ==
    ASSUME NEW T \in SUBSET Nat, T # {}
    PROVE  \E n \in T : \A m \in T : n <= m
<1> DEFINE Below == {p \in Nat \X Nat : p[1] < p[2]}
<1>1. IsWellFoundedOn(Below, Nat)
  BY NatLessThanWellFounded, Zenon DEF OpToRel
<1>2. \A x \in Nat, y \in Nat : <<y, x>> \in Below <=> y < x
  OBVIOUS
<1> HIDE DEF Below
<1>3. PICK n \in T : \A m \in T : ~(<<m, n>> \in Below)
  BY <1>1, WFMin
<1>4. \A m \in T : n <= m
  <2> TAKE m \in T
  <2>1. n \in Nat /\ m \in Nat /\ ~(m < n)
    BY <1>2, <1>3
  <2> QED
    BY <2>1
<1> QED
  BY <1>4

\* The same bytes in the same order are the same.
LEMMA SameValues ==
    ASSUME NEW n \in Nat, NEW V, NEW f \in [1 .. n -> V], NEW g \in [1 .. n -> V],
           \A i \in 1 .. n : f[i] = g[i]
    PROVE  f = g
OBVIOUS

\* The remainder of a position that is at most one round ahead.
LEMMA Around ==
    ASSUME BlockAssumption, NEW x \in 0 .. 2 * Size - 1
    PROVE  /\ x % Size \in Positions
           /\ x < Size => x % Size = x
           /\ x >= Size => x % Size = x - Size
<1>0. Size \in Nat \ {0}
  BY DEF BlockAssumption
<1>1. CASE x < Size
  BY <1>0, <1>1, Z3 DEF Positions
<1>2. CASE x >= Size
  <2>1. x % Size = x - Size
    BY <1>0, <1>2, Z3
  <2> QED
    BY <1>0, <1>2, <2>1 DEF Positions
<1> QED
  BY <1>0, <1>1, <1>2

\* The position c places after the one that is a places after s.
LEMMA Shift ==
    ASSUME BlockAssumption, NEW s \in Positions,
           NEW a \in 0 .. Size, NEW c \in 0 .. Size, a + c <= Size
    PROVE  (((s + a) % Size) + c) % Size = (s + (a + c)) % Size
<1> DEFINE x == s + a
           y == (x % Size) + c
           z == s + (a + c)
<1>0. Size \in Nat \ {0}
  BY DEF BlockAssumption
<1>1. x \in 0 .. 2 * Size - 1 /\ z \in 0 .. 2 * Size - 1 /\ z = x + c
  BY <1>0 DEF Positions
<1>2. x % Size \in Positions /\ (x < Size => x % Size = x) /\ (x >= Size => x % Size = x - Size)
  <2> HIDE DEF x
  <2> QED
    BY <1>1, Around
<1>3. y \in 0 .. 2 * Size - 1
  <2> HIDE DEF x
  <2>1. CASE x < Size
    BY <1>0, <1>1, <1>2, <2>1
  <2>2. CASE x >= Size
    BY <1>0, <1>1, <1>2, <2>2
  <2> QED
    BY <1>0, <1>1, <2>1, <2>2
<1>4. (y < Size => y % Size = y) /\ (y >= Size => y % Size = y - Size)
  <2> HIDE DEF y
  <2> QED
    BY <1>3, Around
<1>5. (z < Size => z % Size = z) /\ (z >= Size => z % Size = z - Size)
  <2> HIDE DEF z
  <2> QED
    BY <1>1, Around
<1>6. CASE x < Size
  <2>1. y = z
    BY <1>1, <1>2, <1>6
  <2> QED
    BY <2>1
<1>7. CASE x >= Size
  <2>1. y = z - Size /\ y < Size /\ z >= Size
    BY <1>0, <1>1, <1>2, <1>7 DEF Positions
  <2> HIDE DEF y, z
  <2>2. y % Size = z % Size
    BY <1>4, <1>5, <2>1
  <2> QED
    BY <2>2 DEF y, z
<1> QED
  BY <1>0, <1>1, <1>6, <1>7

\* A number is read as it was written.
LEMMA NumberRead ==
    ASSUME BlockAssumption, NEW n \in 0 .. Size
    PROVE  NumberOf(Memory[n]) = n
<1>1. n \in Longs /\ \A m \in Longs : Memory[m] = Memory[n] => m = n
  BY DEF BlockAssumption
<1> QED
  BY <1>1 DEF NumberOf

-----------------------------------------------------------------------------
(* What blocks cost. *)

\* g is what the first blocks of q, as many as n, cost together.
AreCosts(g, q, n) ==
    g = [i \in 0 .. n |-> IF i = 0 THEN 0 ELSE g[i - 1] + Queue!Cost(q[i])]

\* There is such a function for every n.
LEMMA CostsExist ==
    ASSUME NEW q, NEW n \in Nat
    PROVE  \E g : AreCosts(g, q, n)
<1> DEFINE T == {i \in Nat : ~\E g : AreCosts(g, q, i)}
<1> SUFFICES ASSUME T # {} PROVE FALSE
  OBVIOUS
<1>1. PICK m \in T : \A k \in T : m <= k
  BY LeastNumber
<1>2. m \in Nat /\ ~\E g : AreCosts(g, q, m)
  OBVIOUS
<1>3. m # 0
  <2>1. AreCosts([i \in 0 .. 0 |-> 0], q, 0)
    BY DEF AreCosts
  <2> QED
    BY <1>2, <2>1
<1>4. m - 1 \in Nat /\ m - 1 \notin T
  BY <1>1, <1>2, <1>3
<1>5. PICK g : AreCosts(g, q, m - 1)
  BY <1>4
<1> DEFINE h == [i \in 0 .. m |-> IF i = m THEN g[m - 1] + Queue!Cost(q[m]) ELSE g[i]]
<1>6. \A i \in 0 .. m : h[i] = IF i = 0 THEN 0 ELSE h[i - 1] + Queue!Cost(q[i])
  <2> TAKE i \in 0 .. m
  <2>1. CASE i = m
    BY <1>2, <1>3, <2>1
  <2>2. CASE i # m
    <3>1. i \in 0 .. m - 1
      BY <1>2, <2>2
    <3>2. h[i] = g[i] /\ (i # 0 => h[i - 1] = g[i - 1])
      BY <1>2, <3>1
    <3> QED
      BY <1>5, <3>1, <3>2 DEF AreCosts
  <2> QED
    BY <2>1, <2>2
<1>7. AreCosts(h, q, m)
  BY <1>6 DEF AreCosts
<1> QED
  BY <1>2, <1>7

\* What one block more costs.
LEMMA CostSteps ==
    ASSUME NEW q, Len(q) \in Nat
    PROVE  /\ Queue!CostOf(q, 0) = 0
           /\ \A i \in 1 .. Len(q) : Queue!CostOf(q, i) = Queue!CostOf(q, i - 1) + Queue!Cost(q[i])
<1> DEFINE n == Len(q)
           F(g) == g = [i \in 0 .. n |-> IF i = 0 THEN 0 ELSE g[i - 1] + Queue!Cost(q[i])]
           f == CHOOSE g : F(g)
<1> HIDE DEF n
<1>1. \E g : F(g)
  <2>1. PICK h : AreCosts(h, q, n)
    BY CostsExist DEF n
  <2> QED
    BY <2>1 DEF AreCosts
<1>2. F(f)
  BY <1>1
<1>3. \A i : Queue!CostOf(q, i) = f[i]
  BY DEF Queue!CostOf, n
<1> HIDE DEF f
<1>4. n \in Nat
  BY DEF n
<1>5. f[0] = 0 /\ \A i \in 1 .. n : f[i] = f[i - 1] + Queue!Cost(q[i])
  BY <1>2, <1>4
<1> QED
  BY <1>3, <1>5 DEF n

\* Nothing else grows like that.
LEMMA CostsUnique ==
    ASSUME NEW q, Len(q) \in Nat, NEW g, g[0] = 0,
           \A i \in 1 .. Len(q) : g[i] = g[i - 1] + Queue!Cost(q[i])
    PROVE  \A i \in 0 .. Len(q) : Queue!CostOf(q, i) = g[i]
<1> DEFINE T == {i \in 0 .. Len(q) : Queue!CostOf(q, i) # g[i]}
<1> SUFFICES ASSUME T # {} PROVE FALSE
  OBVIOUS
<1>1. PICK m \in T : \A k \in T : m <= k
  <2>1. T \in SUBSET Nat
    OBVIOUS
  <2> QED
    BY <2>1, LeastNumber
<1>2. m \in 0 .. Len(q) /\ Queue!CostOf(q, m) # g[m]
  OBVIOUS
<1>3. m # 0
  BY <1>2, CostSteps
<1>4. m - 1 \in 0 .. Len(q) /\ m - 1 \notin T /\ m \in 1 .. Len(q)
  BY <1>1, <1>2, <1>3
<1>5. Queue!CostOf(q, m - 1) = g[m - 1]
  BY <1>4
<1>6. Queue!CostOf(q, m) = g[m]
  BY <1>4, <1>5, CostSteps
<1> QED
  BY <1>2, <1>6

\* The blocks of a queue are sequences that are not empty, and cost more than
\* their numbers.
LEMMA BlockFacts ==
    ASSUME BlockAssumption, NEW q \in Queues
    PROVE  /\ Len(q) \in Nat
           /\ \A i \in 1 .. Len(q) :
                 /\ q[i] \in Seq(Bytes) /\ Len(q[i]) \in Nat \ {0}
                 /\ Queue!Cost(q[i]) = Header + Len(q[i])
                 /\ Queue!Cost(q[i]) \in Nat
<1>1. q \in Seq(Seq(Bytes) \ {<< >>})
  BY DEF Queues
<1>2. Len(q) \in Nat /\ \A i \in 1 .. Len(q) : q[i] \in Seq(Bytes) \ {<< >>}
  <2> DEFINE S == Seq(Bytes) \ {<< >>}
  <2>1. q \in Seq(S)
    BY <1>1
  <2> HIDE DEF S
  <2>2. Len(q) \in Nat /\ \A i \in 1 .. Len(q) : q[i] \in S
    BY <2>1, ElementOfSeq, LenProperties
  <2> QED
    BY <2>2 DEF S
<1>3. ASSUME NEW i \in 1 .. Len(q)
      PROVE  /\ q[i] \in Seq(Bytes) /\ Len(q[i]) \in Nat \ {0}
             /\ Queue!Cost(q[i]) = Header + Len(q[i])
             /\ Queue!Cost(q[i]) \in Nat
  <2> DEFINE block == q[i]
  <2>1. block \in Seq(Bytes) /\ block # << >>
    BY <1>2
  <2> HIDE DEF block
  <2>2. Len(block) \in Nat \ {0}
    BY <2>1, EmptySeq, LenProperties
  <2>3. Queue!Cost(block) = Header + Len(block) /\ Queue!Cost(block) \in Nat
    BY <2>2 DEF Queue!Cost, BlockAssumption
  <2> QED
    BY <2>1, <2>2, <2>3 DEF block
<1> QED
  BY <1>2, <1>3

\* More blocks cost more.
LEMMA CostGrows ==
    ASSUME BlockAssumption, NEW q \in Queues, NEW i \in 0 .. Len(q)
    PROVE  /\ Queue!CostOf(q, i) \in Nat
           /\ \A j \in i .. Len(q) : Queue!CostOf(q, j) \in Nat /\ Queue!CostOf(q, j) >= Queue!CostOf(q, i) + (j - i)
<1> DEFINE n == Len(q)
           c(k) == Queue!CostOf(q, k)
           d(k) == Queue!Cost(q[k])
<1>0. n \in Nat /\ \A k \in 1 .. n : d(k) \in Nat /\ d(k) >= 1
  BY BlockFacts DEF BlockAssumption
<1>1. c(0) = 0 /\ \A k \in 1 .. n : c(k) = c(k - 1) + d(k)
  BY <1>0, CostSteps
<1> HIDE DEF n, c, d
<1>2. \A k \in 0 .. n : c(k) \in Nat
  <2> DEFINE T == {k \in 0 .. n : c(k) \notin Nat}
  <2> SUFFICES ASSUME T # {} PROVE FALSE
    OBVIOUS
  <2>1. PICK m \in T : \A k \in T : m <= k
    <3>1. T \in SUBSET Nat
      BY <1>0
    <3> QED
      BY <3>1, LeastNumber
  <2>2. m \in 0 .. n /\ c(m) \notin Nat
    OBVIOUS
  <2>3. m # 0
    BY <1>1, <2>2
  <2>4. m - 1 \in 0 .. n /\ m - 1 \notin T /\ m \in 1 .. n
    BY <1>0, <2>1, <2>2, <2>3
  <2>5. c(m - 1) \in Nat /\ c(m) = c(m - 1) + d(m) /\ d(m) \in Nat
    BY <1>0, <1>1, <2>4
  <2> QED
    BY <2>2, <2>5
<1>3. i \in 0 .. n
  BY DEF n
<1>4. \A j \in i .. n : c(j) >= c(i) + (j - i)
  <2> DEFINE T == {k \in i .. n : ~(c(k) >= c(i) + (k - i))}
  <2> SUFFICES ASSUME T # {} PROVE FALSE
    OBVIOUS
  <2>1. PICK m \in T : \A k \in T : m <= k
    <3>1. T \in SUBSET Nat
      BY <1>0, <1>3
    <3> QED
      BY <3>1, LeastNumber
  <2>2. m \in i .. n /\ ~(c(m) >= c(i) + (m - i))
    OBVIOUS
  <2>3. m # i
    BY <1>2, <1>3, <2>2
  <2>4. m - 1 \in i .. n /\ m - 1 \notin T /\ m \in 1 .. n
    BY <1>0, <1>3, <2>1, <2>2, <2>3
  <2>5. c(m - 1) >= c(i) + (m - 1 - i) /\ c(m) = c(m - 1) + d(m) /\ d(m) \in Nat /\ d(m) >= 1
    BY <1>0, <1>1, <2>4
  <2>6. c(m - 1) \in Nat /\ c(i) \in Nat
    BY <1>2, <1>3, <2>4
  <2> QED
    BY <1>3, <2>2, <2>5, <2>6
<1>5. \A j \in i .. n : c(j) \in Nat
  BY <1>0, <1>2, <1>3
<1> QED
  BY <1>2, <1>3, <1>4, <1>5 DEF n, c

-----------------------------------------------------------------------------
(* The bytes copied. *)

\* Both copies out of the buffer together: n bytes from position at on, around the end.
LEMMA CopiedBytes ==
    ASSUME BlockAssumption, NEW b \in [Positions -> Bytes],
           NEW at \in Positions, NEW n \in 0 .. Size
    PROVE  /\ Copied(b, at, at, n) \in [1 .. n -> Bytes]
           /\ \A i \in 1 .. n : Copied(b, at, at, n)[i] = b[(at + (i - 1)) % Size]
<1>0. Size \in Nat \ {0} /\ at \in 0 .. Size - 1
  BY DEF BlockAssumption, Positions
<1>1. ASSUME NEW i \in 1 .. n
      PROVE  /\ Copied(b, at, at, n)[i] = b[(at + (i - 1)) % Size]
             /\ Copied(b, at, at, n)[i] \in Bytes
  <2> DEFINE x == at + (i - 1)
  <2>1. x \in 0 .. 2 * Size - 1
    BY <1>0
  <2>2. /\ x % Size \in Positions
        /\ x < Size => x % Size = x
        /\ x >= Size => x % Size = x - Size
    <3> HIDE DEF x
    <3> QED
      BY <2>1, Around
  <2>3. IF i <= Segment(at, n) THEN x % Size = at + i - 1
        ELSE x % Size = i - Segment(at, n) - 1
    <3>1. i <= Segment(at, n) => x < Size
      BY <1>0 DEF Segment
    <3>2. ~(i <= Segment(at, n)) => x >= Size /\ x - Size = i - Segment(at, n) - 1
      BY <1>0 DEF Segment
    <3> QED
      BY <1>0, <2>2, <3>1, <3>2
  <2>4. Copied(b, at, at, n)[i] = b[x % Size]
    BY <2>3 DEF Copied
  <2> QED
    BY <2>2, <2>4
<1> QED
  BY <1>1 DEF Copied

\* Both copies into the buffer together: data from position at on, around the
\* end, and every other byte as it was.
LEMMA WrittenBytes ==
    ASSUME BlockAssumption, NEW b \in [Positions -> Bytes], NEW at \in Positions,
           NEW data, Len(data) \in 0 .. Size, \A i \in 1 .. Len(data) : data[i] \in Bytes
    PROVE  /\ Written(b, at, data) \in [Positions -> Bytes]
           /\ \A y \in 0 .. Size - 1 :
                 Written(b, at, data)[(at + y) % Size]
                   = IF y < Len(data) THEN data[y + 1] ELSE b[(at + y) % Size]
<1> DEFINE n == Len(data)
           first == Segment(at, n)
           new == Written(b, at, data)
<1>0. Size \in Nat \ {0} /\ at \in 0 .. Size - 1 /\ n \in 0 .. Size
  BY DEF BlockAssumption, Positions
<1>1. /\ first \in 0 .. n
      /\ at + first <= Size
      /\ first < n => at + first = Size
      /\ n - first <= at
      /\ first = n \/ at + first = Size
  <2> HIDE DEF n
  <2> QED
    BY <1>0 DEF Segment
<1>2. \A p \in Positions :
         new[p] = IF p < n - first THEN data[first + p + 1]
                  ELSE IF p >= at /\ p - at < first THEN data[p - at + 1]
                  ELSE b[p]
  BY DEF Written
<1>3. new \in [Positions -> Bytes]
  <2>1. ASSUME NEW p \in Positions PROVE new[p] \in Bytes
    <3> HIDE DEF n, first
    <3>1. p < n - first => first + p + 1 \in 1 .. n
      BY <1>0, <1>1 DEF Positions
    <3>2. p >= at /\ p - at < first => p - at + 1 \in 1 .. n
      BY <1>0, <1>1 DEF Positions
    <3>3. \A i \in 1 .. n : data[i] \in Bytes
      BY DEF n
    <3> HIDE DEF new
    <3> QED
      BY <1>2, <3>1, <3>2, <3>3
  <2> QED
    BY <2>1 DEF Written
<1>4. ASSUME NEW y \in 0 .. Size - 1
      PROVE  new[(at + y) % Size] = IF y < n THEN data[y + 1] ELSE b[(at + y) % Size]
  <2> DEFINE x == at + y
             p == x % Size
  <2>1. x \in 0 .. 2 * Size - 1
    BY <1>0
  <2>2. p \in Positions /\ (x < Size => p = x) /\ (x >= Size => p = x - Size)
    <3> HIDE DEF x
    <3> QED
      BY <2>1, Around
  <2>3. new[p] = IF p < n - first THEN data[first + p + 1]
                 ELSE IF p >= at /\ p - at < first THEN data[p - at + 1]
                 ELSE b[p]
    BY <1>2, <2>2
  <2> HIDE DEF p, n, first, new
  <2>4. CASE y < first
    <3>1. p = at + y /\ ~(p < n - first) /\ p >= at /\ p - at < first /\ p - at + 1 = y + 1 /\ y < n
      BY <1>0, <1>1, <2>2, <2>4
    <3> QED
      BY <2>3, <3>1 DEF p
  <2>5. CASE first <= y /\ y < n
    <3>1. p = x - Size /\ p < n - first /\ first + p + 1 = y + 1
      BY <1>0, <1>1, <2>2, <2>5
    <3> QED
      BY <2>3, <2>5, <3>1 DEF p
  <2>6. CASE n <= y
    <3>1. ~(p < n - first) /\ ~(p >= at /\ p - at < first)
      <4>1. CASE x < Size
        BY <1>0, <1>1, <2>2, <2>6, <4>1
      <4>2. CASE x >= Size
        BY <1>0, <1>1, <2>2, <2>6, <4>2
      <4> QED
        BY <1>0, <2>1, <4>1, <4>2
    <3>2. ~(y < n)
      BY <1>0, <2>6
    <3> QED
      BY <2>3, <3>1, <3>2 DEF p
  <2> QED
    BY <1>0, <1>1, <2>4, <2>5, <2>6
<1> HIDE DEF n, new
<1> QED
  BY <1>3, <1>4 DEF n, new

\* Data that is written behind l bytes from position s on.
LEMMA WrittenBehind ==
    ASSUME BlockAssumption, NEW b \in [Positions -> Bytes], NEW s \in Positions,
           NEW data, Len(data) \in 0 .. Size, \A i \in 1 .. Len(data) : data[i] \in Bytes,
           NEW l \in 0 .. Size - Len(data)
    PROVE  /\ Written(b, (s + l) % Size, data) \in [Positions -> Bytes]
           /\ \A x \in 0 .. Size - 1 :
                 Written(b, (s + l) % Size, data)[(s + x) % Size]
                   = IF l <= x /\ x < l + Len(data) THEN data[x - l + 1] ELSE b[(s + x) % Size]
<1> DEFINE n == Len(data)
           t == s + l
           at == t % Size
           new == Written(b, at, data)
<1>0. Size \in Nat \ {0} /\ s \in 0 .. Size - 1 /\ n \in 0 .. Size /\ l \in 0 .. Size /\ l + n <= Size
  BY DEF BlockAssumption, Positions
<1>1. at \in Positions /\ (t < Size => at = t) /\ (t >= Size => at = t - Size)
  <2>1. t \in 0 .. 2 * Size - 1
    BY <1>0
  <2> HIDE DEF t
  <2> QED
    BY <2>1, Around
<1> HIDE DEF at
<1>2. /\ new \in [Positions -> Bytes]
      /\ \A y \in 0 .. Size - 1 :
            new[(at + y) % Size] = IF y < n THEN data[y + 1] ELSE b[(at + y) % Size]
  BY <1>1, WrittenBytes
<1>3. ASSUME NEW x \in 0 .. Size - 1
      PROVE  new[(s + x) % Size]
               = IF l <= x /\ x < l + n THEN data[x - l + 1] ELSE b[(s + x) % Size]
  <2> DEFINE y == IF l <= x THEN x - l ELSE Size + x - l
             v == at + y
             w == s + x
  <2>1. y \in 0 .. Size - 1 /\ (y < n <=> l <= x /\ x < l + n) /\ (y < n => y + 1 = x - l + 1)
    <3> HIDE DEF n
    <3> QED
      BY <1>0
  <2>2. v \in 0 .. 2 * Size - 1 /\ w \in 0 .. 2 * Size - 1
    BY <1>0, <1>1, <2>1 DEF Positions
  <2>3. v = w \/ v = w + Size \/ w = v + Size
    <3>1. CASE t < Size
      BY <1>0, <1>1, <3>1
    <3>2. CASE t >= Size
      BY <1>0, <1>1, <3>2
    <3> QED
      BY <1>0, <3>1, <3>2
  <2> HIDE DEF v, w
  <2>4. /\ (v < Size => v % Size = v) /\ (v >= Size => v % Size = v - Size)
        /\ (w < Size => w % Size = w) /\ (w >= Size => w % Size = w - Size)
    BY <2>2, Around
  <2>5. v % Size = w % Size
    <3> DEFINE vr == v % Size
               wr == w % Size
    <3>1. /\ (v < Size => vr = v) /\ (v >= Size => vr = v - Size)
          /\ (w < Size => wr = w) /\ (w >= Size => wr = w - Size)
      BY <2>4
    <3> HIDE DEF vr, wr
    <3>2. vr = wr
      BY <1>0, <2>2, <2>3, <3>1
    <3> QED
      BY <3>2 DEF vr, wr
  <2> HIDE DEF y, new, n
  <2>6. new[v % Size] = IF y < n THEN data[y + 1] ELSE b[v % Size]
    BY <1>2, <2>1 DEF v
  <2>7. new[w % Size] = IF y < n THEN data[y + 1] ELSE b[w % Size]
    BY <2>5, <2>6
  <2>8. CASE y < n
    BY <2>1, <2>7, <2>8 DEF w
  <2>9. CASE ~(y < n)
    BY <2>1, <2>7, <2>9 DEF w
  <2> QED
    BY <2>8, <2>9
<1> HIDE DEF n, new
<1> QED
  BY <1>2, <1>3 DEF n, new, at, t

-----------------------------------------------------------------------------
(* The blocks of the queue. *)

\* At a block the number read is its length, and the bytes behind it are the block's.
LEMMA BlockRead ==
    ASSUME BlockAssumption, buf \in [Positions -> Bytes], NEW s \in Positions, NEW a \in Nat,
           NEW block \in Seq(Bytes), a + Header + Len(block) <= Size, IsBlock(buf, s, a, block)
    PROVE  /\ NumberAt((s + a) % Size) = Len(block)
           /\ (s + a) % Size \in Positions
           /\ (((s + a) % Size) + Header) % Size \in Positions
           /\ Copied(buf, (((s + a) % Size) + Header) % Size,
                     (((s + a) % Size) + Header) % Size, Len(block)) = block
<1> DEFINE at == (s + a) % Size
           from == (at + Header) % Size
           n == Len(block)
<1>0. /\ Size \in Nat \ {0} /\ Header \in Nat \ {0} /\ s \in 0 .. Size - 1 /\ n \in Nat
      /\ a \in 0 .. Size /\ Header \in 0 .. Size /\ n \in 0 .. Size
      /\ a + Header <= Size /\ a + Header \in 0 .. Size
  <2>1. Size \in Nat \ {0} /\ Header \in Nat \ {0} /\ s \in 0 .. Size - 1 /\ n \in Nat
    BY LenProperties DEF BlockAssumption, Positions
  <2>2. a + Header + n <= Size
    OBVIOUS
  <2> HIDE DEF n
  <2> QED
    BY <2>1, <2>2
<1>1. at \in Positions
  <2> DEFINE x == s + a
  <2>1. x \in 0 .. 2 * Size - 1
    BY <1>0
  <2> HIDE DEF x
  <2>2. x % Size \in Positions
    BY <2>1, Around
  <2> QED
    BY <2>2 DEF x
<1>2. from = (s + (a + Header)) % Size
  BY <1>0, Shift
<1>3. from \in Positions
  <2> DEFINE x == s + (a + Header)
  <2>1. x \in 0 .. 2 * Size - 1
    BY <1>0
  <2> HIDE DEF x
  <2>2. x % Size \in Positions
    BY <2>1, Around
  <2> QED
    BY <1>2, <2>2 DEF x
<1>4. NumberAt(at) = n
  <2> DEFINE bytes == Copied(buf, at, at, Header)
  <2>1. bytes \in [1 .. Header -> Bytes] /\ \A i \in 1 .. Header : bytes[i] = buf[(at + (i - 1)) % Size]
    <3> HIDE DEF at
    <3> QED
      BY <1>0, <1>1, CopiedBytes
  <2>2. Memory[n] \in [1 .. Header -> Bytes]
    BY <1>0 DEF BlockAssumption
  <2>3. ASSUME NEW i \in 1 .. Header PROVE bytes[i] = Memory[n][i]
    <3> DEFINE c == i - 1
    <3>1. c \in 0 .. Size /\ a + c <= Size
      BY <1>0
    <3> HIDE DEF c
    <3>2. (at + c) % Size = (s + (a + c)) % Size
      BY <1>0, <3>1, Shift
    <3>3. buf[(s + (a + c)) % Size] = Memory[n][i]
      BY DEF IsBlock, c
    <3> HIDE DEF bytes, at, n
    <3> QED
      BY <2>1, <3>2, <3>3 DEF c
  <2> HIDE DEF bytes, n
  <2>4. bytes = Memory[n]
    <3>1. bytes \in [1 .. Header -> Bytes]
      BY <2>1
    <3> QED
      BY <1>0, <2>2, <2>3, <3>1, SameValues
  <2>5. NumberOf(Memory[n]) = n
    BY <1>0, NumberRead
  <2> QED
    BY <2>4, <2>5 DEF NumberAt, bytes
<1>5. Copied(buf, from, from, n) = block
  <2> DEFINE bytes == Copied(buf, from, from, n)
  <2>1. bytes \in [1 .. n -> Bytes] /\ \A i \in 1 .. n : bytes[i] = buf[(from + (i - 1)) % Size]
    <3> HIDE DEF from, n
    <3> QED
      BY <1>0, <1>3, CopiedBytes
  <2>2. ASSUME NEW i \in 1 .. n PROVE bytes[i] = block[i]
    <3> DEFINE c == i - 1
               d == a + Header
    <3>1. c \in 0 .. Size /\ d + c <= Size /\ d \in 0 .. Size
      <4>1. a + Header + n <= Size
        OBVIOUS
      <4> HIDE DEF n
      <4> QED
        BY <1>0, <4>1
    <3>2. (s + (d + c)) % Size = (s + (a + Header + (i - 1))) % Size
      OBVIOUS
    <3>3. buf[(s + (a + Header + (i - 1))) % Size] = block[i]
      BY DEF IsBlock
    <3> HIDE DEF c, d
    <3>4. (((s + d) % Size) + c) % Size = (s + (d + c)) % Size
      BY <3>1, Shift
    <3>5. from = (s + d) % Size
      BY <1>2 DEF d
    <3> HIDE DEF bytes, from, n
    <3>6. bytes[i] = buf[(from + c) % Size]
      BY <2>1 DEF c
    <3> QED
      BY <3>2, <3>3, <3>4, <3>5, <3>6
  <2>3. block \in [1 .. n -> Bytes]
    BY LenProperties, ElementOfSeq
  <2> HIDE DEF bytes, n
  <2>4. bytes = block
    <3>1. bytes \in [1 .. n -> Bytes]
      BY <2>1
    <3> QED
      BY <1>0, <2>2, <2>3, <3>1, SameValues
  <2> QED
    BY <2>4 DEF bytes
<1> QED
  BY <1>1, <1>3, <1>4, <1>5

\* r is what the first rounds of the loop leave, as many as n.
AreRests(r, n) ==
    r = [k \in 0 .. n |->
            IF k = 0 THEN [start |-> start, len |-> len]
            ELSE WithoutFirst(r[k - 1].start, r[k - 1].len)]

\* There is such a function for every n.
LEMMA RestsExist ==
    ASSUME NEW n \in Nat
    PROVE  \E r : AreRests(r, n)
<1> DEFINE T == {i \in Nat : ~\E r : AreRests(r, i)}
<1> SUFFICES ASSUME T # {} PROVE FALSE
  OBVIOUS
<1>1. PICK m \in T : \A k \in T : m <= k
  BY LeastNumber
<1>2. m \in Nat /\ ~\E r : AreRests(r, m)
  OBVIOUS
<1>3. m # 0
  <2>1. AreRests([i \in 0 .. 0 |-> [start |-> start, len |-> len]], 0)
    BY DEF AreRests
  <2> QED
    BY <1>2, <2>1
<1>4. m - 1 \in Nat /\ m - 1 \notin T
  BY <1>1, <1>2, <1>3
<1>5. PICK r : AreRests(r, m - 1)
  BY <1>4
<1> DEFINE last == WithoutFirst(r[m - 1].start, r[m - 1].len)
           h == [i \in 0 .. m |-> IF i = m THEN last ELSE r[i]]
<1>6. \A i \in 0 .. m : h[i] = IF i = 0 THEN [start |-> start, len |-> len]
                               ELSE WithoutFirst(h[i - 1].start, h[i - 1].len)
  <2> TAKE i \in 0 .. m
  <2>1. CASE i = m
    <3>1. h[i] = last /\ h[i - 1] = r[m - 1]
      BY <1>2, <1>3, <2>1
    <3> QED
      BY <1>3, <2>1, <3>1
  <2>2. CASE i # m
    <3>1. i \in 0 .. m - 1
      BY <1>2, <2>2
    <3>2. h[i] = r[i] /\ (i # 0 => h[i - 1] = r[i - 1])
      BY <1>2, <3>1
    <3> QED
      BY <1>5, <3>1, <3>2 DEF AreRests
  <2> QED
    BY <2>1, <2>2
<1>7. AreRests(h, m)
  BY <1>6 DEF AreRests
<1> QED
  BY <1>2, <1>7

\* What one round more leaves.
LEMMA RestSteps ==
    ASSUME BlockAssumption
    PROVE  /\ Rest[0] = [start |-> start, len |-> len]
           /\ \A k \in 1 .. Size : Rest[k] = WithoutFirst(Rest[k - 1].start, Rest[k - 1].len)
<1> DEFINE F(r) == r = [k \in 0 .. Size |->
                         IF k = 0 THEN [start |-> start, len |-> len]
                         ELSE WithoutFirst(r[k - 1].start, r[k - 1].len)]
           f == CHOOSE r : F(r)
<1>0. Size \in Nat
  BY DEF BlockAssumption
<1>1. \E r : F(r)
  <2>1. PICK r : AreRests(r, Size)
    BY <1>0, RestsExist
  <2> QED
    BY <2>1 DEF AreRests
<1>2. F(f)
  BY <1>1
<1>3. Rest = f
  BY DEF Rest
<1> HIDE DEF f
<1>4. f[0] = [start |-> start, len |-> len]
  BY <1>0, <1>2
<1>5. ASSUME NEW k \in 1 .. Size PROVE f[k] = WithoutFirst(f[k - 1].start, f[k - 1].len)
  <2>1. k \in 0 .. Size /\ k # 0
    BY <1>0
  <2> QED
    BY <1>2, <2>1
<1> QED
  BY <1>3, <1>4, <1>5

\* After k rounds the start and the length are those of the block k + 1.
LEMMA RestIs ==
    ASSUME BlockAssumption, TypeOK, NEW q, Holds(buf, start, len, q)
    PROVE  /\ Len(q) \in 0 .. Size
           /\ \A k \in 0 .. Len(q) :
                 /\ Queue!CostOf(q, k) \in 0 .. len
                 /\ Rest[k].len = len - Queue!CostOf(q, k)
                 /\ Rest[k].start \in Positions
                 /\ k < Len(q) => Rest[k].start = (start + Queue!CostOf(q, k)) % Size
<1> DEFINE n == Len(q)
           c(k) == Queue!CostOf(q, k)
<1>0. /\ Size \in Nat \ {0} /\ Header \in Nat \ {0} /\ start \in 0 .. Size - 1 /\ len \in 0 .. Size
      /\ q \in Queues /\ n \in Nat
  BY BlockFacts DEF BlockAssumption, TypeOK, Positions, Holds
<1>1. /\ c(0) = 0 /\ c(n) = len
      /\ \A k \in 1 .. n : c(k) = c(k - 1) + (Header + Len(q[k])) /\ Len(q[k]) \in Nat \ {0} /\ q[k] \in Seq(Bytes)
  <2>1. \A k \in 1 .. n : Queue!Cost(q[k]) = Header + Len(q[k]) /\ Len(q[k]) \in Nat \ {0} /\ q[k] \in Seq(Bytes)
    BY <1>0, BlockFacts
  <2> QED
    BY <1>0, <2>1, CostSteps DEF Holds
<1>2. \A i \in 0 .. n : c(i) \in Nat /\ \A j \in i .. n : c(j) >= c(i) + (j - i)
  BY <1>0, CostGrows
<1>3. \A k \in 1 .. n : IsBlock(buf, start, c(k - 1), q[k])
  BY DEF Holds
<1> HIDE DEF n, c
<1>4. \A k \in 0 .. n : c(k) \in 0 .. len /\ (k < n => c(k) < len) /\ k <= c(k)
  <2> TAKE k \in 0 .. n
  <2>1. n \in k .. n /\ k \in 0 .. n /\ 0 \in 0 .. n
    BY <1>0
  <2>2. c(k) \in Nat /\ c(n) >= c(k) + (n - k) /\ c(k) >= c(0) + (k - 0)
    BY <1>2, <2>1
  <2> QED
    BY <1>0, <1>1, <2>2
<1>5. n \in 0 .. Size
  <2>1. n <= c(n)
    BY <1>0, <1>4
  <2> QED
    BY <1>0, <1>1, <2>1
<1> DEFINE P(k) == /\ Rest[k].len = len - c(k)
                   /\ Rest[k].start \in Positions
                   /\ k < n => Rest[k].start = (start + c(k)) % Size
<1>6. P(0)
  <2>1. Rest[0].start = start /\ Rest[0].len = len
    BY RestSteps
  <2>2. start % Size = start
    <3>1. start \in 0 .. 2 * Size - 1 /\ start < Size
      BY <1>0
    <3> QED
      BY <3>1, Around
  <2>3. start + c(0) = start /\ len - c(0) = len
    BY <1>0, <1>1
  <2> QED
    BY <2>1, <2>2, <2>3 DEF TypeOK
<1>7. ASSUME NEW k \in 1 .. n, P(k - 1) PROVE P(k)
  <2> DEFINE from == Rest[k - 1].start
             l == Rest[k - 1].len
             cost == Header + Len(q[k])
  <2>1. k - 1 \in 0 .. n /\ k - 1 < n /\ k \in 0 .. n
    BY <1>0
  <2>2. /\ l = len - c(k - 1) /\ from = (start + c(k - 1)) % Size /\ from \in Positions
    BY <1>7, <2>1
  <2>3. c(k) = c(k - 1) + cost /\ cost \in Nat /\ c(k - 1) \in 0 .. len /\ c(k) \in 0 .. len
    BY <1>0, <1>1, <1>4, <2>1
  <2>4. NumberAt(from) = Len(q[k])
    <3> DEFINE a == c(k - 1)
               block == q[k]
    <3>1. a \in Nat /\ block \in Seq(Bytes) /\ a + Header + Len(block) <= Size /\ IsBlock(buf, start, a, block)
      BY <1>0, <1>1, <1>3, <2>3
    <3> HIDE DEF a, block
    <3>2. NumberAt((start + a) % Size) = Len(block)
      BY <3>1, BlockRead DEF TypeOK
    <3> QED
      BY <2>2, <3>2 DEF a, block
  <2>5. Rest[k] = [start |-> IF l = cost THEN 0 ELSE (from + cost) % Size, len |-> l - cost]
    <3>1. k \in 1 .. Size
      BY <1>0, <1>5
    <3>2. Rest[k] = WithoutFirst(from, l)
      BY <3>1, RestSteps
    <3> QED
      BY <2>4, <3>2 DEF WithoutFirst
  <2> HIDE DEF from, l, cost
  <2>6. Rest[k].len = len - c(k)
    BY <1>0, <2>2, <2>3, <2>5
  <2>7. (from + cost) % Size = (start + c(k)) % Size
    <3> DEFINE a == c(k - 1)
    <3>1. a \in 0 .. Size /\ cost \in 0 .. Size /\ a + cost <= Size /\ c(k) = a + cost
      BY <1>0, <2>3
    <3> HIDE DEF a
    <3>2. (((start + a) % Size) + cost) % Size = (start + (a + cost)) % Size
      BY <3>1, Shift DEF TypeOK
    <3> QED
      BY <2>2, <3>1, <3>2 DEF a
  <2>8. 0 \in Positions /\ (start + c(k)) % Size \in Positions
    <3> DEFINE x == start + c(k)
    <3>1. x \in 0 .. 2 * Size - 1
      BY <1>0, <2>3
    <3> HIDE DEF x
    <3>2. x % Size \in Positions
      BY <3>1, Around
    <3> QED
      BY <1>0, <3>2 DEF x, Positions
  <2>9. k < n => l # cost
    <3>1. k < n => c(k) < len
      BY <1>4, <2>1
    <3> QED
      BY <1>0, <2>2, <2>3, <3>1
  <2> QED
    BY <2>5, <2>6, <2>7, <2>8, <2>9
<1> HIDE DEF P
<1>8. \A k \in 0 .. n : P(k)
  <2> DEFINE T == {k \in 0 .. n : ~P(k)}
  <2> SUFFICES ASSUME T # {} PROVE FALSE
    OBVIOUS
  <2>1. PICK m \in T : \A k \in T : m <= k
    <3>1. T \in SUBSET Nat
      BY <1>0
    <3> QED
      BY <3>1, LeastNumber
  <2>2. m \in 0 .. n /\ ~P(m) /\ m # 0
    BY <1>6
  <2>3. m \in 1 .. n /\ m - 1 \in 0 .. n /\ m - 1 \notin T
    BY <1>0, <2>1, <2>2
  <2> QED
    BY <1>7, <2>2, <2>3
<1> QED
  BY <1>4, <1>5, <1>8 DEF P, n, c

\* The loop of dk_block_pushback ends, and forgets no more blocks than it must.
LEMMA RoundsAre ==
    ASSUME BlockAssumption, TypeOK, NEW q, Holds(buf, start, len, q), NEW l \in Nat
    PROVE  /\ Rounds(l) \in 0 .. Len(q)
           /\ len - Queue!CostOf(q, Rounds(l)) <= l
           /\ \A j \in 0 .. Rounds(l) - 1 : len - Queue!CostOf(q, j) > l
<1> DEFINE n == Len(q)
           Enough(k) == Rest[k].len <= l /\ \A j \in 0 .. k - 1 : Rest[j].len > l
           T == {k \in 0 .. n : Rest[k].len <= l}
<1>0. /\ Size \in Nat \ {0} /\ len \in 0 .. Size /\ n \in 0 .. Size /\ n \in 0 .. n
      /\ Queue!CostOf(q, n) = len
  <2>1. n \in 0 .. Size
    BY RestIs
  <2> QED
    BY <2>1 DEF BlockAssumption, TypeOK, Holds
<1>1. \A k \in 0 .. n : /\ Rest[k].len = len - Queue!CostOf(q, k)
                        /\ Queue!CostOf(q, k) \in Nat
  BY RestIs
<1> HIDE DEF n
<1>2. n \in T
  <2>1. Rest[n].len = 0
    BY <1>0, <1>1
  <2> QED
    BY <1>0, <2>1
<1>3. PICK m \in T : \A k \in T : m <= k
  <2>1. T \in SUBSET Nat
    BY <1>0
  <2> QED
    BY <1>2, <2>1, LeastNumber
<1>4. m \in 0 .. n /\ m \in 0 .. Size /\ Enough(m)
  <2>1. m \in 0 .. n /\ Rest[m].len <= l
    OBVIOUS
  <2>2. ASSUME NEW j \in 0 .. m - 1 PROVE Rest[j].len > l
    <3>1. j \in 0 .. n /\ j \notin T
      BY <1>0, <1>3, <2>1
    <3>2. Rest[j].len \in Int
      BY <1>0, <1>1, <3>1
    <3> QED
      BY <3>1, <3>2
  <2> QED
    BY <1>0, <2>1, <2>2
<1> DEFINE r == Rounds(l)
<1>5. r \in 0 .. Size /\ Enough(r)
  <2>1. r = CHOOSE k \in 0 .. Size : Enough(k)
    BY DEF Rounds
  <2> HIDE DEF r, Enough, T
  <2> QED
    BY <1>4, <2>1
<1> HIDE DEF r
<1>6. r <= m
  <2> SUFFICES ASSUME m < r PROVE FALSE
    BY <1>0, <1>4, <1>5
  <2>1. m \in 0 .. r - 1
    BY <1>0, <1>4, <1>5
  <2>2. Rest[m].len > l /\ Rest[m].len <= l
    BY <1>4, <1>5, <2>1
  <2>3. Rest[m].len \in Int
    BY <1>0, <1>1, <1>4
  <2> QED
    BY <2>2, <2>3
<1>7. r \in 0 .. n
  BY <1>0, <1>4, <1>5, <1>6
<1>8. \A j \in 0 .. r - 1 : j \in 0 .. n
  BY <1>0, <1>7
<1>9. len - Queue!CostOf(q, r) <= l /\ \A j \in 0 .. r - 1 : len - Queue!CostOf(q, j) > l
  BY <1>1, <1>5, <1>7, <1>8
<1> QED
  BY <1>7, <1>9 DEF r, n

\* The blocks of the buffer are those of the queue that it holds.
BlocksRead ==
    BlockAssumption => \A q : TypeOK /\ Holds(buf, start, len, q) => Blocks = q

\* What is read from the buffer, number by number, are the blocks.
LEMMA BlocksAre == BlocksRead
<1> SUFFICES ASSUME BlockAssumption, TypeOK, NEW q, Holds(buf, start, len, q)
             PROVE  Blocks = q
  BY DEF BlocksRead
<1> DEFINE n == Len(q)
           c(k) == Queue!CostOf(q, k)
<1>0. /\ Size \in Nat \ {0} /\ Header \in Nat \ {0} /\ len \in 0 .. Size
      /\ q \in Queues /\ n \in Nat
  BY BlockFacts DEF BlockAssumption, TypeOK, Holds
<1>1. /\ c(n) = len
      /\ \A k \in 1 .. n : c(k) = c(k - 1) + (Header + Len(q[k])) /\ Len(q[k]) \in Nat \ {0} /\ q[k] \in Seq(Bytes)
  <2>1. \A k \in 1 .. n : Queue!Cost(q[k]) = Header + Len(q[k]) /\ Len(q[k]) \in Nat \ {0} /\ q[k] \in Seq(Bytes)
    BY <1>0, BlockFacts
  <2> QED
    BY <1>0, <2>1, CostSteps DEF Holds
<1>2. \A i \in 0 .. n : c(i) \in Nat /\ \A j \in i .. n : c(j) >= c(i) + (j - i)
  BY <1>0, CostGrows
<1>3. \A k \in 1 .. n : IsBlock(buf, start, c(k - 1), q[k])
  BY DEF Holds
<1>4. \A k \in 0 .. n : /\ c(k) \in 0 .. len
                        /\ Rest[k].len = len - c(k)
                        /\ k < n => Rest[k].start = (start + c(k)) % Size
  BY RestIs
<1>5. Rounds(0) \in 0 .. n /\ len - c(Rounds(0)) <= 0
  BY RoundsAre
<1> HIDE DEF n, c
<1>6. Rounds(0) = n
  <2> DEFINE r == Rounds(0)
  <2>1. r \in 0 .. n /\ len - c(r) <= 0
    BY <1>5
  <2> HIDE DEF r
  <2>2. n \in r .. n /\ c(r) \in Nat /\ c(n) >= c(r) + (n - r)
    <3>1. n \in r .. n
      BY <1>0, <2>1
    <3> QED
      BY <1>2, <2>1, <3>1
  <2>3. r = n
    BY <1>0, <1>1, <2>1, <2>2
  <2> QED
    BY <2>3 DEF r
<1>7. ASSUME NEW k \in 1 .. n
      PROVE  LET first == Rest[k - 1]
                 from  == (first.start + Header) % Size
                 m     == NumberAt(first.start)
             IN  (IF Header + m > first.len THEN << >> ELSE Copied(buf, from, from, m)) = q[k]
  <2> DEFINE a == c(k - 1)
             block == q[k]
             at == (start + a) % Size
             from == (at + Header) % Size
  <2>1. k - 1 \in 0 .. n /\ k - 1 < n /\ k \in 0 .. n
    BY <1>0
  <2>2. /\ a \in Nat /\ block \in Seq(Bytes) /\ Len(block) \in Nat
        /\ c(k) = a + (Header + Len(block)) /\ c(k) \in 0 .. len
        /\ IsBlock(buf, start, a, block)
    BY <1>0, <1>1, <1>3, <1>4, <2>1, SMTT(30)
  <2>3. Rest[k - 1].len = len - a /\ Rest[k - 1].start = at
    BY <1>4, <2>1
  <2>4. a + Header + Len(block) <= Size /\ ~(Header + Len(block) > len - a)
    <3> HIDE DEF a, block
    <3> QED
      BY <1>0, <2>2
  <2> HIDE DEF a, block
  <2>5. NumberAt(at) = Len(block) /\ Copied(buf, from, from, Len(block)) = block
    BY <2>2, <2>4, BlockRead DEF TypeOK
  <2> HIDE DEF at, from
  <2>6. (at + Header) % Size = from
    BY DEF from
  <2> QED
    BY <2>3, <2>4, <2>5, <2>6 DEF block
<1>8. Blocks = [k \in 1 .. n |-> q[k]]
  BY <1>6, <1>7 DEF Blocks
<1>9. q = [k \in 1 .. n |-> q[k]]
  <2> DEFINE S == Seq(Bytes) \ {<< >>}
  <2>1. q \in Seq(S)
    BY <1>0 DEF Queues
  <2> HIDE DEF S
  <2>2. q \in [1 .. Len(q) -> S]
    BY <2>1, LenProperties
  <2> QED
    BY <2>2 DEF n
<1> QED
  BY <1>8, <1>9

\* So they are after a step.
LEMMA BlocksAreNext == BlocksRead'
BY BlocksAre, PTL

-----------------------------------------------------------------------------
(* Forgetting and adding blocks. *)

\* The queue without its first m blocks.
Dropped(q, m) == [i \in 1 .. Len(q) - m |-> q[m + i]]

\* It is a queue, and costs less by what the blocks cost.
LEMMA DroppedFacts ==
    ASSUME BlockAssumption, NEW q \in Queues, NEW m \in 0 .. Len(q)
    PROVE  /\ Dropped(q, m) \in Queues
           /\ Len(Dropped(q, m)) = Len(q) - m
           /\ \A i \in 0 .. Len(q) - m :
                 Queue!CostOf(Dropped(q, m), i) = Queue!CostOf(q, m + i) - Queue!CostOf(q, m)
           /\ Dropped(q, m) = SubSeq(q, m + 1, Len(q))
<1> DEFINE n == Len(q)
           t == Dropped(q, m)
           S == Seq(Bytes) \ {<< >>}
           c(k) == Queue!CostOf(q, k)
<1>0. n \in Nat /\ m \in 0 .. n /\ n - m \in Nat
  BY BlockFacts
<1>1. q \in Seq(S) /\ \A i \in 1 .. n : q[i] \in S
  <2>1. q \in Seq(S)
    BY DEF Queues
  <2> HIDE DEF S
  <2> QED
    BY <2>1, ElementOfSeq
<1>2. t \in Seq(S) /\ Len(t) = n - m /\ \A i \in 1 .. n - m : t[i] = q[m + i]
  <2>1. \A i \in 1 .. n - m : m + i \in 1 .. n
    BY <1>0
  <2> HIDE DEF S
  <2>2. t \in [1 .. n - m -> S]
    BY <1>1, <2>1 DEF Dropped
  <2>3. \A i \in 1 .. n - m : t[i] = q[m + i]
    BY DEF Dropped
  <2> DEFINE k == n - m
  <2> HIDE DEF t, k
  <2>4. t \in Seq(S) /\ Len(t) = k
    BY <1>0, <2>2 DEF k
  <2> QED
    BY <2>3, <2>4 DEF k
<1>3. \A k \in 0 .. n : c(k) \in Nat
  BY CostGrows
<1>4. \A k \in 1 .. n : c(k) = c(k - 1) + Queue!Cost(q[k])
  BY <1>0, CostSteps
<1>5. \A i \in 0 .. n - m : Queue!CostOf(t, i) = c(m + i) - c(m)
  <2> DEFINE g == [i \in 0 .. n - m |-> c(m + i) - c(m)]
  <2> HIDE DEF c, t
  <2>1. g[0] = 0
    BY <1>0, <1>3
  <2>2. ASSUME NEW i \in 1 .. Len(t) PROVE g[i] = g[i - 1] + Queue!Cost(t[i])
    <3>1. m + i \in 1 .. n /\ i \in 0 .. n - m /\ i - 1 \in 0 .. n - m /\ m + (i - 1) = m + i - 1 /\ i \in 1 .. n - m
      BY <1>0, <1>2
    <3>2. g[i] = c(m + i) - c(m) /\ g[i - 1] = c(m + i - 1) - c(m)
      BY <3>1
    <3>3. c(m + i) = c(m + i - 1) + Queue!Cost(q[m + i]) /\ t[i] = q[m + i]
      BY <1>2, <1>4, <3>1
    <3>4. c(m) \in Nat /\ c(m + i - 1) \in Nat
      BY <1>0, <1>3, <3>1
    <3>5. Queue!Cost(q[m + i]) \in Nat
      BY <3>1, BlockFacts
    <3> HIDE DEF g
    <3> QED
      BY <3>2, <3>3, <3>4, <3>5
  <2>3. Len(t) \in Nat
    BY <1>0, <1>2
  <2> HIDE DEF g
  <2>4. \A i \in 0 .. Len(t) : Queue!CostOf(t, i) = g[i]
    BY <2>1, <2>2, <2>3, CostsUnique
  <2> QED
    BY <1>2, <2>4 DEF g
<1>6. t = SubSeq(q, m + 1, n)
  <2>1. \A i \in m + 1 .. n : q[i] \in S
    <3> HIDE DEF S
    <3> QED
      BY <1>0, <1>1
  <2> DEFINE u == SubSeq(q, m + 1, n)
             k == n - m
  <2> HIDE DEF S
  <2>2. /\ u \in Seq(S)
        /\ Len(u) = (IF m + 1 <= n THEN n - (m + 1) + 1 ELSE 0)
        /\ \A i \in 1 .. n - (m + 1) + 1 : u[i] = q[(m + 1) + i - 1]
    BY <1>0, <2>1, SubSeqProperties
  <2> HIDE DEF u, n
  <2>3. Len(u) = k
    BY <1>0, <2>2
  <2>4. \A i \in 1 .. k : (m + 1) + i - 1 = m + i
    BY <1>0
  <2>5. \A i \in 1 .. k : u[i] = q[m + i]
    BY <1>0, <2>2, <2>4
  <2> HIDE DEF t
  <2>6. u = t
    BY <1>2, <2>2, <2>3, <2>5, SeqEqual
  <2> QED
    BY <2>6 DEF u
<1> HIDE DEF n
<1> QED
  BY <1>2, <1>5, <1>6 DEF Queues, n

\* The blocks behind the first m are still there.
LEMMA ForgetHolds ==
    ASSUME BlockAssumption, NEW b, NEW s \in Positions, NEW l \in 0 .. Size, NEW q, Holds(b, s, l, q),
           NEW m \in 0 .. Len(q), NEW at,
           m < Len(q) => at = (s + Queue!CostOf(q, m)) % Size
    PROVE  Holds(b, at, l - Queue!CostOf(q, m), Dropped(q, m))
<1> DEFINE n == Len(q)
           t == Dropped(q, m)
           c(k) == Queue!CostOf(q, k)
<1>0. /\ Size \in Nat \ {0} /\ Header \in Nat \ {0} /\ q \in Queues /\ n \in Nat /\ m \in 0 .. n
      /\ c(n) = l
  BY BlockFacts DEF BlockAssumption, Holds
<1>1. /\ t \in Queues /\ Len(t) = n - m
      /\ \A i \in 0 .. n - m : Queue!CostOf(t, i) = c(m + i) - c(m)
  BY <1>0, DroppedFacts
<1>2. \A i \in 0 .. n : c(i) \in Nat /\ \A j \in i .. n : c(j) >= c(i) + (j - i)
  BY <1>0, CostGrows
<1>3. \A k \in 1 .. n : /\ IsBlock(b, s, c(k - 1), q[k])
                        /\ c(k) = c(k - 1) + (Header + Len(q[k])) /\ Len(q[k]) \in Nat
  <2>1. \A k \in 1 .. n : Queue!Cost(q[k]) = Header + Len(q[k]) /\ Len(q[k]) \in Nat
    BY <1>0, BlockFacts
  <2> QED
    BY <1>0, <2>1, CostSteps DEF Holds
<1>t. \A i \in 1 .. n - m : t[i] = q[m + i]
  BY DEF Dropped
<1> HIDE DEF n, c, t
<1>4. Queue!CostOf(t, Len(t)) = l - c(m)
  <2>1. n - m \in 0 .. n - m /\ m + (n - m) = n
    BY <1>0
  <2> QED
    BY <1>0, <1>1, <2>1
<1>5. ASSUME NEW i \in 1 .. Len(t)
      PROVE  IsBlock(b, at, Queue!CostOf(t, i - 1), t[i])
  <2> DEFINE k == m + i
             block == t[i]
             a == c(k - 1)
             d == c(m)
             o == Queue!CostOf(t, i - 1)
  <2>1. k \in 1 .. n /\ i - 1 \in 0 .. n - m /\ i \in 1 .. n - m /\ m + (i - 1) = k - 1 /\ m < n
        /\ k - 1 \in m .. n /\ k - 1 \in 0 .. n /\ n \in k .. n /\ k \in 0 .. n
    BY <1>0, <1>1
  <2>2. o = a - d /\ block = q[k]
    BY <1>1, <1>t, <2>1
  <2>3. /\ IsBlock(b, s, a, q[k])
        /\ c(k) = a + (Header + Len(q[k])) /\ Len(q[k]) \in Nat
    BY <1>3, <2>1
  <2>4. a \in Nat /\ d \in Nat /\ c(k) \in Nat /\ a >= d /\ c(n) >= c(k)
    <3>1. a \in Nat /\ d \in Nat /\ c(k) \in Nat /\ c(k - 1) >= c(m) + (k - 1 - m) /\ c(n) >= c(k) + (n - k)
      BY <1>0, <1>2, <2>1
    <3> HIDE DEF a, d, o, block
    <3>2. a >= d
      BY <1>0, <2>1, <3>1 DEF a, d
    <3>3. c(n) >= c(k)
      <4> DEFINE x == c(k)
                 y == c(n)
      <4>1. k \in 1 .. n /\ x \in Nat /\ y >= x + (n - k)
        BY <2>1, <3>1
      <4>2. y \in Nat
        BY <1>0
      <4> HIDE DEF x, y, k
      <4>3. y >= x
        BY <1>0, <4>1, <4>2
      <4> QED
        BY <4>3 DEF x, y
    <3> QED
      BY <3>1, <3>2, <3>3
  <2>5. at = (s + d) % Size
    BY <2>1 DEF n, c
  <2>6. a + (Header + Len(block)) <= Size /\ Len(block) \in Nat
    <3> HIDE DEF a, d, o, k
    <3> QED
      BY <1>0, <2>2, <2>3, <2>4
  <2> HIDE DEF k, block, a, d, o
  <2>7. ASSUME NEW x \in Nat, x < Header + Len(block)
        PROVE  (at + (o + x)) % Size = (s + (a + x)) % Size
    <3> DEFINE y == o + x
    <3>1. y \in 0 .. Size /\ d \in 0 .. Size /\ d + y <= Size /\ d + y = a + x
      BY <1>0, <2>2, <2>4, <2>6, <2>7
    <3> HIDE DEF y
    <3>2. (((s + d) % Size) + y) % Size = (s + (d + y)) % Size
      BY <3>1, Shift
    <3> QED
      BY <2>5, <3>1, <3>2 DEF y
  <2>8. ASSUME NEW j \in 1 .. Header
        PROVE  b[(at + (o + (j - 1))) % Size] = Memory[Len(block)][j]
    <3> DEFINE x == j - 1
    <3>1. x \in Nat /\ x < Header + Len(block)
      BY <1>0, <2>6
    <3>2. b[(s + (a + x)) % Size] = Memory[Len(block)][j]
      BY <2>2, <2>3 DEF IsBlock
    <3> HIDE DEF x
    <3>3. (at + (o + x)) % Size = (s + (a + x)) % Size
      BY <2>7, <3>1
    <3> QED
      BY <3>2, <3>3 DEF x
  <2>9. ASSUME NEW j \in 1 .. Len(block)
        PROVE  b[(at + (o + Header + (j - 1))) % Size] = block[j]
    <3> DEFINE x == Header + (j - 1)
    <3>1. x \in Nat /\ x < Header + Len(block) /\ o + x = o + Header + (j - 1) /\ a + x = a + Header + (j - 1)
      BY <1>0, <2>2, <2>4, <2>6
    <3>2. b[(s + (a + Header + (j - 1))) % Size] = block[j]
      BY <2>2, <2>3 DEF IsBlock
    <3> HIDE DEF x
    <3>3. (at + (o + x)) % Size = (s + (a + x)) % Size
      BY <2>7, <3>1
    <3> QED
      BY <3>1, <3>2, <3>3
  <2> QED
    BY <2>8, <2>9 DEF IsBlock, o, block
<1> QED
  BY <1>1, <1>4, <1>5 DEF Holds, t, c

\* A queue with one block more.
LEMMA AppendFacts ==
    ASSUME BlockAssumption, NEW q \in Queues, NEW block \in Data
    PROVE  /\ Append(q, block) \in Queues
           /\ Len(Append(q, block)) = Len(q) + 1
           /\ \A i \in 1 .. Len(q) : Append(q, block)[i] = q[i]
           /\ Append(q, block)[Len(q) + 1] = block
           /\ \A i \in 0 .. Len(q) : Queue!CostOf(Append(q, block), i) = Queue!CostOf(q, i)
           /\ Queue!CostOf(Append(q, block), Len(q) + 1)
                = Queue!CostOf(q, Len(q)) + Queue!Cost(block)
<1> DEFINE n == Len(q)
           t == Append(q, block)
           S == Seq(Bytes) \ {<< >>}
           c(k) == Queue!CostOf(q, k)
<1>0. n \in Nat
  BY BlockFacts
<1>1. q \in Seq(S) /\ block \in S
  BY DEF Queues, BlockAssumption
<1>2. /\ t \in Seq(S) /\ Len(t) = n + 1
      /\ \A i \in 1 .. n : t[i] = q[i]
      /\ t[n + 1] = block
  <2> HIDE DEF S
  <2> QED
    BY <1>1, AppendProperties
<1>3. c(0) = 0 /\ \A k \in 1 .. n : c(k) = c(k - 1) + Queue!Cost(q[k])
  BY <1>0, CostSteps
<1>4. \A i \in 0 .. n + 1 : Queue!CostOf(t, i) = IF i = n + 1 THEN c(n) + Queue!Cost(block) ELSE c(i)
  <2> DEFINE g == [i \in 0 .. n + 1 |-> IF i = n + 1 THEN c(n) + Queue!Cost(block) ELSE c(i)]
  <2> HIDE DEF c, t
  <2>1. g[0] = 0
    BY <1>0, <1>3
  <2>2. ASSUME NEW i \in 1 .. Len(t) PROVE g[i] = g[i - 1] + Queue!Cost(t[i])
    <3>0. i \in 0 .. n + 1 /\ i - 1 \in 0 .. n + 1 /\ i - 1 # n + 1
      BY <1>0, <1>2
    <3>1. CASE i = n + 1
      <4>1. g[i] = c(n) + Queue!Cost(block) /\ g[i - 1] = c(n)
        BY <1>0, <3>0, <3>1
      <4> HIDE DEF g
      <4> QED
        BY <1>2, <3>1, <4>1
    <3>2. CASE i # n + 1
      <4>1. i \in 1 .. n
        BY <1>0, <1>2, <3>2
      <4>2. g[i] = c(i) /\ g[i - 1] = c(i - 1)
        BY <3>0, <3>2
      <4> HIDE DEF g
      <4> QED
        BY <1>2, <1>3, <4>1, <4>2
    <3> QED
      BY <3>1, <3>2
  <2>3. Len(t) \in Nat
    BY <1>0, <1>2
  <2> HIDE DEF g
  <2>4. \A i \in 0 .. Len(t) : Queue!CostOf(t, i) = g[i]
    BY <2>1, <2>2, <2>3, CostsUnique
  <2> QED
    BY <1>2, <2>4 DEF g
<1>5. /\ \A i \in 0 .. n : Queue!CostOf(t, i) = c(i)
      /\ Queue!CostOf(t, n + 1) = c(n) + Queue!Cost(block)
  <2> HIDE DEF n, t, c
  <2>1. \A i \in 0 .. n : i \in 0 .. n + 1 /\ i # n + 1
    BY <1>0
  <2>2. n + 1 \in 0 .. n + 1
    BY <1>0
  <2> QED
    BY <1>4, <2>1, <2>2
<1> HIDE DEF n
<1> QED
  BY <1>2, <1>5 DEF Queues, n

\* The new block lies behind the others, which are where they were.
LEMMA AddHolds ==
    ASSUME BlockAssumption, buf \in [Positions -> Bytes], NEW s \in Positions, NEW l \in 0 .. Size,
           NEW q, Holds(buf, s, l, q), NEW block \in Data, l + (Header + Len(block)) <= Size
    PROVE  /\ PushNewBlock(s, (s + l) % Size, block) \in [Positions -> Bytes]
           /\ Holds(PushNewBlock(s, (s + l) % Size, block), s, l + (Header + Len(block)),
                    Append(q, block))
<1> DEFINE n == Len(q)
           t == Append(q, block)
           c(k) == Queue!CostOf(q, k)
           size == Len(block)
           number == Memory[size]
           tail == (s + l) % Size
           first == Written(buf, tail, number)
           new == PushNewBlock(s, tail, block)
<1>0. /\ Size \in Nat \ {0} /\ Header \in Nat \ {0} /\ q \in Queues /\ n \in Nat /\ c(n) = l
      /\ l \in 0 .. Size /\ size \in 1 .. Size /\ Header \in 0 .. Size /\ l + (Header + size) <= Size
      /\ l + Header \in 0 .. Size /\ l \in 0 .. Size - Header /\ l + Header \in 0 .. Size - size
      /\ l + Header <= Size /\ s \in 0 .. Size - 1
  <2>1. block \in Seq(Bytes) /\ block # << >>
    BY DEF BlockAssumption
  <2>2. size \in Nat \ {0}
    BY <2>1, EmptySeq, LenProperties
  <2>3. /\ Size \in Nat \ {0} /\ Header \in Nat \ {0} /\ q \in Queues /\ n \in Nat /\ c(n) = l
        /\ l \in 0 .. Size /\ s \in 0 .. Size - 1
    BY BlockFacts DEF BlockAssumption, Holds, Positions
  <2>4. l + (Header + size) <= Size
    OBVIOUS
  <2> HIDE DEF n, c, size
  <2> QED
    BY <2>2, <2>3, <2>4
<1>1. \A i \in 1 .. size : block[i] \in Bytes
  <2>1. block \in Seq(Bytes)
    BY DEF BlockAssumption
  <2> QED
    BY <2>1, ElementOfSeq
<1>2. number \in [1 .. Header -> Bytes] /\ Len(number) = Header
  <2>1. number \in [1 .. Header -> Bytes]
    BY <1>0 DEF BlockAssumption
  <2> HIDE DEF number
  <2> QED
    BY <1>0, <2>1
<1> HIDE DEF size, number
<1>3. /\ first \in [Positions -> Bytes]
      /\ \A x \in 0 .. Size - 1 :
            first[(s + x) % Size]
              = IF l <= x /\ x < l + Header THEN number[x - l + 1] ELSE buf[(s + x) % Size]
  <2>1. Len(number) \in 0 .. Size /\ l \in 0 .. Size - Len(number) /\ \A i \in 1 .. Len(number) : number[i] \in Bytes
    BY <1>0, <1>2
  <2>2. /\ Written(buf, (s + l) % Size, number) \in [Positions -> Bytes]
        /\ \A x \in 0 .. Size - 1 :
              Written(buf, (s + l) % Size, number)[(s + x) % Size]
                = IF l <= x /\ x < l + Len(number) THEN number[x - l + 1] ELSE buf[(s + x) % Size]
    BY <2>1, WrittenBehind
  <2> QED
    BY <1>2, <2>2
<1> HIDE DEF first
<1>4. new = Written(first, (s + (l + Header)) % Size, block)
  <2>1. (tail + Header) % Size = (s + (l + Header)) % Size
    BY <1>0, Shift
  <2> QED
    BY <2>1 DEF PushNewBlock, first, number, size
<1>5. /\ new \in [Positions -> Bytes]
      /\ \A x \in 0 .. Size - 1 :
            new[(s + x) % Size]
              = IF l + Header <= x /\ x < l + Header + size THEN block[x - (l + Header) + 1]
                ELSE first[(s + x) % Size]
  <2> DEFINE k == l + Header
  <2>1. k \in 0 .. Size - Len(block) /\ Len(block) \in 0 .. Size /\ \A i \in 1 .. Len(block) : block[i] \in Bytes
    BY <1>0, <1>1 DEF size
  <2> HIDE DEF k
  <2>2. /\ Written(first, (s + k) % Size, block) \in [Positions -> Bytes]
        /\ \A x \in 0 .. Size - 1 :
              Written(first, (s + k) % Size, block)[(s + x) % Size]
                = IF k <= x /\ x < k + Len(block) THEN block[x - k + 1] ELSE first[(s + x) % Size]
    BY <1>3, <2>1, WrittenBehind
  <2> QED
    BY <1>4, <2>2 DEF k, size
<1> HIDE DEF new
<1>6. ASSUME NEW x \in 0 .. Size - 1, x < l PROVE new[(s + x) % Size] = buf[(s + x) % Size]
  <2>1. ~(l + Header <= x) /\ ~(l <= x)
    BY <1>0, <1>6
  <2> QED
    BY <1>3, <1>5, <2>1
<1>7. \A k \in 1 .. n : /\ IsBlock(buf, s, c(k - 1), q[k])
                        /\ c(k) = c(k - 1) + (Header + Len(q[k])) /\ Len(q[k]) \in Nat
                        /\ c(k - 1) \in Nat /\ c(k) <= l
  <2> TAKE k \in 1 .. n
  <2>1. Queue!Cost(q[k]) = Header + Len(q[k]) /\ Len(q[k]) \in Nat
    BY <1>0, BlockFacts
  <2>2. IsBlock(buf, s, c(k - 1), q[k]) /\ c(k) = c(k - 1) + (Header + Len(q[k]))
    BY <1>0, <2>1, CostSteps DEF Holds
  <2>3. k - 1 \in 0 .. n /\ k \in 0 .. n /\ n \in k .. n
    BY <1>0
  <2>4. c(k - 1) \in Nat /\ c(k) \in Nat /\ c(n) >= c(k) + (n - k)
    BY <1>0, <2>3, CostGrows
  <2>5. c(k) <= l
    <3> DEFINE y == c(k)
    <3>1. y \in Nat /\ l >= y + (n - k)
      BY <1>0, <2>4
    <3> HIDE DEF y, n
    <3>2. y <= l
      BY <1>0, <2>3, <3>1
    <3> QED
      BY <3>2 DEF y
  <2> QED
    BY <2>1, <2>2, <2>4, <2>5
<1>8. /\ t \in Queues /\ Len(t) = n + 1
      /\ \A i \in 1 .. n : t[i] = q[i]
      /\ t[n + 1] = block
      /\ \A i \in 0 .. n : Queue!CostOf(t, i) = c(i)
      /\ Queue!CostOf(t, n + 1) = l + (Header + size)
  <2>1. Queue!Cost(block) = Header + size
    BY DEF Queue!Cost, size
  <2>2. q \in Queues
    BY <1>0
  <2>3. /\ Append(q, block) \in Queues
        /\ Len(Append(q, block)) = Len(q) + 1
        /\ \A i \in 1 .. Len(q) : Append(q, block)[i] = q[i]
        /\ Append(q, block)[Len(q) + 1] = block
        /\ \A i \in 0 .. Len(q) : Queue!CostOf(Append(q, block), i) = Queue!CostOf(q, i)
        /\ Queue!CostOf(Append(q, block), Len(q) + 1)
             = Queue!CostOf(q, Len(q)) + Queue!Cost(block)
    BY <2>2, AppendFacts
  <2> QED
    BY <1>0, <2>1, <2>3, Zenon
<1> HIDE DEF n, t, c
<1>9. ASSUME NEW i \in 1 .. n PROVE IsBlock(new, s, Queue!CostOf(t, i - 1), t[i])
  <2> DEFINE a == c(i - 1)
             old == q[i]
  <2>1. Queue!CostOf(t, i - 1) = a /\ t[i] = old
    <3>1. i - 1 \in 0 .. n
      BY <1>0
    <3> QED
      BY <1>8, <3>1
  <2>2. IsBlock(buf, s, a, old) /\ Len(old) \in Nat /\ a \in Nat /\ a + (Header + Len(old)) <= l
    BY <1>7
  <2> HIDE DEF a, old
  <2>3. ASSUME NEW j \in 1 .. Header
        PROVE  new[(s + (a + (j - 1))) % Size] = Memory[Len(old)][j]
    <3> DEFINE x == a + (j - 1)
    <3>1. x \in 0 .. Size - 1 /\ x < l
      BY <1>0, <2>2
    <3>2. buf[(s + (a + (j - 1))) % Size] = Memory[Len(old)][j]
      BY <2>2 DEF IsBlock
    <3> HIDE DEF x
    <3>3. new[(s + x) % Size] = buf[(s + x) % Size]
      BY <1>6, <3>1
    <3> QED
      BY <3>2, <3>3 DEF x
  <2>4. ASSUME NEW j \in 1 .. Len(old)
        PROVE  new[(s + (a + Header + (j - 1))) % Size] = old[j]
    <3> DEFINE x == a + Header + (j - 1)
    <3>1. x \in 0 .. Size - 1 /\ x < l
      BY <1>0, <2>2
    <3>2. buf[(s + (a + Header + (j - 1))) % Size] = old[j]
      BY <2>2 DEF IsBlock
    <3> HIDE DEF x
    <3>3. new[(s + x) % Size] = buf[(s + x) % Size]
      BY <1>6, <3>1
    <3> QED
      BY <3>2, <3>3 DEF x
  <2> QED
    BY <2>1, <2>3, <2>4 DEF IsBlock
<1>10. IsBlock(new, s, l, block)
  <2>1. ASSUME NEW j \in 1 .. Header
        PROVE  new[(s + (l + (j - 1))) % Size] = number[j]
    <3> DEFINE x == l + (j - 1)
    <3>1. x \in 0 .. Size - 1 /\ l <= x /\ x < l + Header /\ ~(l + Header <= x) /\ x - l + 1 = j
      BY <1>0
    <3> HIDE DEF x
    <3>2. new[(s + x) % Size] = first[(s + x) % Size]
      BY <1>5, <3>1
    <3>3. first[(s + x) % Size] = number[j]
      BY <1>3, <3>1
    <3> QED
      BY <3>2, <3>3 DEF x
  <2>2. ASSUME NEW j \in 1 .. size
        PROVE  new[(s + (l + Header + (j - 1))) % Size] = block[j]
    <3> DEFINE x == l + Header + (j - 1)
    <3>1. x \in 0 .. Size - 1 /\ l + Header <= x /\ x < l + Header + size /\ x - (l + Header) + 1 = j
      BY <1>0
    <3> HIDE DEF x
    <3>2. new[(s + x) % Size] = block[j]
      BY <1>5, <3>1
    <3> QED
      BY <3>2 DEF x
  <2> QED
    BY <2>1, <2>2 DEF IsBlock, number, size
<1>11. ASSUME NEW i \in 1 .. Len(t) PROVE IsBlock(new, s, Queue!CostOf(t, i - 1), t[i])
  <2>1. CASE i = n + 1
    <3>1. n \in 0 .. n /\ i - 1 = n
      BY <1>0, <2>1
    <3>2. Queue!CostOf(t, i - 1) = l /\ t[i] = block
      BY <1>0, <1>8, <2>1, <3>1
    <3> QED
      BY <1>10, <3>2
  <2>2. CASE i # n + 1
    <3>1. i \in 1 .. n
      BY <1>0, <1>8, <2>2
    <3> QED
      BY <1>9, <3>1
  <2> QED
    BY <2>1, <2>2
<1>12. t \in Queues /\ Queue!CostOf(t, Len(t)) = l + (Header + size)
  BY <1>8
<1> QED
  BY <1>5, <1>11, <1>12 DEF Holds, new, t, size

-----------------------------------------------------------------------------
(* The steps. *)

\* What the buffer holds after a step is the queue after it.
LEMMA Becomes ==
    ASSUME BlockAssumption, TypeOK', NEW q, Holds(buf', start', len', q)
    PROVE  Inv' /\ Blocks' = q
<1>1. Blocks' = q
  BY BlocksAreNext DEF BlocksRead
<1>2. Holds(buf', start', len', Blocks')
  BY <1>1
<1> QED
  BY <1>1, <1>2 DEF Inv

\* An empty queue costs nothing, and no other queue does.
LEMMA EmptyQueue ==
    ASSUME BlockAssumption, Inv
    PROVE  /\ Blocks \in Queues /\ Len(Blocks) \in Nat
           /\ Queue!TotalCost(Blocks) = len
           /\ len = 0 <=> Blocks = << >>
<1> DEFINE q == Blocks
<1>1. q \in Queues /\ Queue!CostOf(q, Len(q)) = len /\ len \in Nat
  BY DEF Inv, Holds, TypeOK
<1> HIDE DEF q
<1>2. Len(q) \in Nat /\ Len(q) \in 0 .. Len(q) /\ 0 \in 0 .. Len(q)
  BY <1>1, BlockFacts
<1>3. Queue!CostOf(q, Len(q)) >= Queue!CostOf(q, 0) + (Len(q) - 0) /\ Queue!CostOf(q, 0) = 0
  BY <1>1, <1>2, CostGrows, CostSteps
<1>4. len = 0 <=> Len(q) = 0
  BY <1>1, <1>2, <1>3
<1>5. Len(q) = 0 <=> q = << >>
  <2> DEFINE S == Seq(Bytes) \ {<< >>}
  <2>1. q \in Seq(S)
    BY <1>1 DEF Queues
  <2> HIDE DEF S
  <2> QED
    BY <2>1, EmptySeq
<1> QED
  BY <1>1, <1>2, <1>4, <1>5 DEF Queue!TotalCost, q

\* The first block is read as it was written, also where it comes in two pieces
\* and the code does not reduce the position of the first of them.
LEMMA FirstRead ==
    ASSUME BlockAssumption, Inv, Blocks # << >>
    PROVE  /\ len # 0 /\ Head(Blocks) = Blocks[1] /\ 1 \in 1 .. Len(Blocks)
           /\ Head(Blocks) \in Seq(Bytes) /\ Len(Head(Blocks)) \in 1 .. Size
           /\ NumberAt(start) = Len(Head(Blocks))
           /\ Copied(buf, FirstBlock, FirstCopy(Len(Head(Blocks))), Len(Head(Blocks))) = Head(Blocks)
<1> DEFINE q == Blocks
           block == Head(q)
           c(k) == Queue!CostOf(q, k)
           n == Len(block)
<1>1. /\ q \in Queues /\ Len(q) \in Nat /\ len # 0 /\ TypeOK /\ Holds(buf, start, len, q)
  BY EmptyQueue DEF Inv
<1> HIDE DEF q
<1>2. q # << >>
  BY DEF q
<1>3. Len(q) # 0
  <2> DEFINE S == Seq(Bytes) \ {<< >>}
  <2>1. q \in Seq(S)
    BY <1>1 DEF Queues
  <2> HIDE DEF S
  <2> QED
    BY <1>2, <2>1, EmptySeq
<1>4. 1 \in 1 .. Len(q) /\ 0 \in 0 .. Len(q) /\ 1 \in 0 .. Len(q)
  BY <1>1, <1>3
<1>5. block = q[1]
  OBVIOUS
<1> HIDE DEF block
<1>6. /\ block \in Seq(Bytes) /\ n \in Nat \ {0} /\ Queue!Cost(block) = Header + n
  BY <1>1, <1>4, <1>5, BlockFacts
<1> HIDE DEF n, c
<1>7. c(0) = 0 /\ c(1) = Header + n
  <2>1. c(0) = 0 /\ c(1) = c(1 - 1) + Queue!Cost(block)
    BY <1>1, <1>4, <1>5, CostSteps DEF c
  <2>2. Header + n \in Nat /\ 1 - 1 = 0
    BY <1>6 DEF BlockAssumption
  <2> QED
    BY <1>6, <2>1, <2>2
<1>8. c(1) <= len /\ IsBlock(buf, start, c(0), block)
  <2>1. c(1) \in 0 .. len
    BY <1>1, <1>4, RestIs DEF c
  <2>2. IsBlock(buf, start, c(1 - 1), block)
    BY <1>1, <1>4, <1>5 DEF Holds, c
  <2> QED
    BY <1>1, <2>1, <2>2 DEF TypeOK
<1>9. /\ Size \in Nat \ {0} /\ Header \in Nat \ {0} /\ start \in 0 .. Size - 1
      /\ Header + n <= Size /\ n \in 1 .. Size
  <2>1. /\ Size \in Nat \ {0} /\ Header \in Nat \ {0} /\ start \in 0 .. Size - 1 /\ len \in 0 .. Size
    BY <1>1 DEF BlockAssumption, TypeOK, Positions
  <2> QED
    BY <1>6, <1>7, <1>8, <2>1
<1>10. (start + 0) % Size = start
  <2>1. start + 0 = start /\ start \in 0 .. 2 * Size - 1 /\ start < Size
    BY <1>9
  <2> QED
    BY <2>1, Around
<1>11. /\ NumberAt(start) = n
       /\ Copied(buf, FirstBlock, FirstBlock, n) = block
  <2> DEFINE a == 0
             at == (start + a) % Size
             from == (at + Header) % Size
  <2>1. a \in Nat /\ a + Header + Len(block) <= Size /\ IsBlock(buf, start, a, block)
    BY <1>7, <1>8, <1>9 DEF n
  <2>2. at = start /\ from = FirstBlock
    BY <1>10 DEF FirstBlock
  <2> HIDE DEF a
  <2>3. start \in Positions /\ buf \in [Positions -> Bytes] /\ block \in Seq(Bytes)
    BY <1>1, <1>6 DEF TypeOK
  <2>4. NumberAt(at) = Len(block) /\ Copied(buf, from, from, Len(block)) = block
    BY <2>1, <2>3, BlockRead
  <2> HIDE DEF at, from
  <2> QED
    BY <2>2, <2>4 DEF n
<1>12. FirstCopy(n) = FirstBlock
  <2> DEFINE x == start + Header
             y == x % Size
  <2>1. x \in 0 .. 2 * Size - 1
    BY <1>9
  <2>2. (x < Size => y = x) /\ (x >= Size => y = x - Size)
    <3> HIDE DEF x
    <3> QED
      BY <2>1, Around
  <2> HIDE DEF y
  <2>3. ~(y + n <= Size) => y = x
    BY <1>9, <2>1, <2>2
  <2> QED
    BY <2>3 DEF FirstCopy, FirstBlock, y
<1> QED
  BY <1>1, <1>4, <1>5, <1>6, <1>9, <1>11, <1>12 DEF q, block, n

\* What dk_block_pushback does is what the queue of blocks does.
LEMMA PushStep ==
    ASSUME BlockAssumption, Inv, NEW block \in Data, Pushback(block)
    PROVE  Inv' /\ Queue!Put(block)
<1> DEFINE q == Blocks
           size == Len(block)
           cost == size + Header
           c(k) == Queue!CostOf(q, k)
<1>1. /\ q \in Queues /\ Len(q) \in Nat /\ TypeOK /\ Holds(buf, start, len, q)
      /\ Queue!TotalCost(q) = len
  BY EmptyQueue DEF Inv
<1>2. /\ Size \in Nat \ {0} /\ Header \in Nat \ {0} /\ len \in 0 .. Size /\ size \in Nat
      /\ Queue!Cost(block) = cost /\ cost \in Nat
  <2>1. block \in Seq(Bytes) /\ Header \in Nat \ {0} /\ Size \in Nat \ {0}
    BY DEF BlockAssumption
  <2>2. size \in Nat
    BY <2>1, LenProperties
  <2> HIDE DEF size
  <2>3. Queue!Cost(block) = cost
    BY <2>1, <2>2 DEF Queue!Cost, size
  <2> QED
    BY <1>1, <2>1, <2>2, <2>3 DEF TypeOK
<1> HIDE DEF size
<1>3. CASE cost > Size
  <2>1. UNCHANGED <<buf, start, len>> /\ answer' = -1 /\ out' = << >>
        /\ call' = [op |-> "pushback", data |-> block, n |-> 0]
    BY <1>3 DEF Pushback, size
  <2>2. TypeOK'
    BY <1>1, <1>2, <2>1 DEF TypeOK, Positions
  <2>3. Holds(buf', start', len', q)
    <3> HIDE DEF q
    <3> QED
      BY <1>1, <2>1
  <2>4. Inv' /\ Blocks' = q
    <3> HIDE DEF q
    <3> QED
      BY <2>2, <2>3, Becomes
  <2>5. ~(Queue!Cost(block) <= Size)
    BY <1>2, <1>3
  <2> QED
    BY <2>1, <2>4, <2>5 DEF Queue!Put
<1>4. CASE ~(cost > Size)
  <2> DEFINE m == Rounds(Size - cost)
             room == Rest[m]
             t == Dropped(q, m)
  <2>1. /\ room.start = start' /\ len' = room.len + cost
        /\ buf' = PushNewBlock(room.start, (room.start + room.len) % Size, block)
        /\ answer' = 0 /\ out' = << >>
        /\ call' = [op |-> "pushback", data |-> block, n |-> 0]
    BY <1>4 DEF Pushback, MadeRoom, size
  <2>2. Size - cost \in Nat
    BY <1>2, <1>4
  <2>3. /\ m \in 0 .. Len(q) /\ len - c(m) <= Size - cost
        /\ \A j \in 0 .. m - 1 : len - c(j) > Size - cost
    <3> HIDE DEF q, cost
    <3> QED
      BY <1>1, <2>2, RoundsAre
  <2> HIDE DEF m
  <2>4. /\ c(m) \in 0 .. len /\ room.len = len - c(m) /\ room.start \in Positions
        /\ m < Len(q) => room.start = (start + c(m)) % Size
    <3> HIDE DEF q
    <3> QED
      BY <1>1, <2>3, RestIs
  <2>5. Holds(buf, room.start, len - c(m), t)
    <3> DEFINE at == room.start
    <3>1. m < Len(q) => at = (start + c(m)) % Size
      BY <2>4
    <3> HIDE DEF at, q
    <3> QED
      BY <1>1, <2>3, <3>1, ForgetHolds DEF TypeOK, at
  <2> HIDE DEF t, room, q, c
  <2>6. room.len \in 0 .. Size /\ room.len + (Header + size) <= Size /\ len' = room.len + (Header + size)
        /\ len' \in 0 .. Size
    <3> DEFINE l == room.len
               d == c(m)
    <3>1. l = len - d /\ d \in 0 .. len /\ len - d <= Size - cost /\ len' = l + cost
      BY <2>1, <2>3, <2>4
    <3> HIDE DEF l, d
    <3>2. l \in 0 .. Size /\ l + (Header + size) <= Size /\ len' = l + (Header + size) /\ len' \in 0 .. Size
      BY <1>2, <3>1
    <3> QED
      BY <3>2 DEF l
  <2>7. buf' \in [Positions -> Bytes] /\ Holds(buf', start', len', Append(t, block))
    <3> DEFINE s == room.start
               l == room.len
    <3>1. Holds(buf, s, l, t) /\ s \in Positions /\ l \in 0 .. Size
          /\ l + (Header + Len(block)) <= Size
      BY <2>4, <2>5, <2>6 DEF size
    <3> HIDE DEF s, l
    <3>2. /\ PushNewBlock(s, (s + l) % Size, block) \in [Positions -> Bytes]
          /\ Holds(PushNewBlock(s, (s + l) % Size, block), s, l + (Header + Len(block)), Append(t, block))
      BY <1>1, <3>1, AddHolds DEF TypeOK
    <3> QED
      BY <2>1, <2>6, <3>2 DEF s, l, size
  <2>8. TypeOK'
    <3>1. out' \in Seq(Bytes) /\ answer' \in -1 .. Size
      BY <1>2, <2>1
    <3> QED
      BY <2>1, <2>4, <2>6, <2>7, <3>1 DEF TypeOK, Positions
  <2>9. Inv' /\ Blocks' = Append(t, block)
    <3> DEFINE u == Append(t, block)
    <3>1. Holds(buf', start', len', u)
      BY <2>7
    <3> HIDE DEF u
    <3>2. Inv' /\ Blocks' = u
      BY <2>8, <3>1, Becomes
    <3> QED
      BY <3>2 DEF u
  <2>10. t = SubSeq(q, m + 1, Len(q))
    BY <1>1, <2>3, DroppedFacts DEF t
  <2>11. Queue!Cost(block) <= Size
    BY <1>2, <1>4
  <2>12. Queue!TotalCost(q) - c(m) + Queue!Cost(block) <= Size
    BY <1>1, <1>2, <2>3, <2>4
  <2>13. ASSUME NEW j \in 0 .. m - 1
         PROVE  ~(Queue!TotalCost(q) - c(j) + Queue!Cost(block) <= Size)
    <3>1. len - c(j) > Size - cost
      BY <2>3
    <3>2. c(j) \in Nat
      <4>1. j \in 0 .. Len(q)
        BY <1>1, <2>3
      <4> QED
        BY <1>1, <4>1, CostGrows DEF c
    <3> QED
      BY <1>1, <1>2, <3>1, <3>2
  <2>14. /\ Queue!Fits(block, m) /\ \A j \in 0 .. m - 1 : ~Queue!Fits(block, j)
    BY <2>12, <2>13 DEF Queue!Fits, q, c
  <2>15. \E i \in 0 .. Len(Blocks) :
            /\ Queue!Fits(block, i) /\ \A j \in 0 .. i - 1 : ~Queue!Fits(block, j)
            /\ Blocks' = Append(SubSeq(Blocks, i + 1, Len(Blocks)), block)
    BY <2>3, <2>9, <2>10, <2>14 DEF q
  <2> QED
    BY <2>1, <2>9, <2>11, <2>15 DEF Queue!Put
<1> QED
  BY <1>3, <1>4

\* What dk_block_pop1stblock does is what the queue of blocks does.
LEMMA PopStep ==
    ASSUME BlockAssumption, Inv, NEW n \in Lengths, Pop1stBlock(n)
    PROVE  Inv' /\ Queue!Take(n)
<1> DEFINE q == Blocks
           size == NumberAt(start)
           first == Head(q)
<1>1. /\ q \in Queues /\ Len(q) \in Nat /\ TypeOK /\ Holds(buf, start, len, q)
      /\ (len = 0 <=> q = << >>)
  BY EmptyQueue DEF Inv
<1>2. call' = [op |-> "pop1stblock", data |-> << >>, n |-> n] /\ buf' = buf
  BY DEF Pop1stBlock
<1>3. CASE len = 0 \/ size = 0 \/ size > n
  <2>1. UNCHANGED <<buf, start, len>> /\ out' = << >> /\ answer' = 0
    BY <1>3 DEF Pop1stBlock
  <2>2. TypeOK'
    <3>1. answer' \in -1 .. Size /\ out' \in Seq(Bytes)
      BY <2>1 DEF BlockAssumption
    <3> QED
      BY <1>1, <2>1, <3>1 DEF TypeOK, Positions
  <2>3. Inv' /\ Blocks' = q
    <3> HIDE DEF q
    <3>1. Holds(buf', start', len', q)
      BY <1>1, <2>1
    <3> QED
      BY <2>2, <3>1, Becomes
  <2>4. ~(q # << >> /\ Len(first) <= n)
    <3> SUFFICES ASSUME q # << >>, Len(first) <= n PROVE FALSE
      OBVIOUS
    <3>1. len # 0 /\ Len(first) \in 1 .. Size /\ size = Len(first)
      BY FirstRead
    <3>2. n \in Nat
      BY DEF BlockAssumption
    <3> HIDE DEF first, size, q
    <3> QED
      BY <1>3, <3>1, <3>2
  <2>5. Len(out') = 0
    BY <2>1
  <2> QED
    BY <1>2, <2>1, <2>3, <2>4, <2>5 DEF Queue!Take
<1>4. CASE ~(len = 0 \/ size = 0 \/ size > n)
  <2> DEFINE t == Dropped(q, 1)
             c(k) == Queue!CostOf(q, k)
  <2>1. /\ out' = Copied(buf, FirstBlock, FirstCopy(size), size)
        /\ start' = WithoutFirst(start, len).start
        /\ len' = WithoutFirst(start, len).len
        /\ answer' = size
    BY <1>4 DEF Pop1stBlock
  <2>2. /\ q # << >> /\ 1 \in 1 .. Len(q) /\ first \in Seq(Bytes) /\ Len(first) \in 1 .. Size
        /\ size = Len(first)
        /\ Copied(buf, FirstBlock, FirstCopy(Len(first)), Len(first)) = first
    BY <1>1, <1>4, FirstRead
  <2>3. out' = first /\ answer' = Len(first)
    <3> HIDE DEF first, size
    <3> QED
      BY <2>1, <2>2
  <2>4. Len(first) <= n /\ n \in Nat
    <3>1. n \in Nat
      BY DEF BlockAssumption
    <3> HIDE DEF first, size, q
    <3> QED
      BY <1>4, <2>2, <3>1
  <2> HIDE DEF q, first, size
  <2>5. 1 \in 0 .. Len(q) /\ 1 \in 1 .. Size /\ Size \in Nat
    BY <1>1, <2>2 DEF BlockAssumption
  <2>6. Rest[1] = WithoutFirst(start, len)
    <3>1. Rest[1] = WithoutFirst(Rest[1 - 1].start, Rest[1 - 1].len) /\ Rest[0] = [start |-> start, len |-> len]
      BY <2>5, RestSteps
    <3>2. Rest[1 - 1].start = start /\ Rest[1 - 1].len = len
      BY <3>1
    <3> QED
      BY <3>1, <3>2
  <2>7. /\ c(1) \in 0 .. len /\ len' = len - c(1) /\ start' \in Positions
        /\ 1 < Len(q) => start' = (start + c(1)) % Size
    BY <1>1, <2>1, <2>5, <2>6, RestIs
  <2>8. Holds(buf', start', len', t)
    <3> DEFINE at == start'
               m == 1
    <3>1. (m < Len(q) => at = (start + Queue!CostOf(q, m)) % Size) /\ m \in 0 .. Len(q)
      BY <2>5, <2>7
    <3> HIDE DEF at, m
    <3>2. Holds(buf, at, len - Queue!CostOf(q, m), Dropped(q, m))
      BY <1>1, <3>1, ForgetHolds DEF TypeOK
    <3> QED
      BY <1>2, <2>7, <3>2 DEF at, m
  <2>9. TypeOK'
    <3>1. answer' \in -1 .. Size /\ out' \in Seq(Bytes)
      BY <2>2, <2>3, <2>5
    <3>2. len' \in 0 .. Size
      <4> HIDE DEF c
      <4> QED
        BY <1>1, <2>5, <2>7 DEF TypeOK
    <3> QED
      BY <1>1, <1>2, <2>7, <3>1, <3>2 DEF TypeOK, Positions
  <2> HIDE DEF t, c
  <2>10. Inv' /\ Blocks' = t
    BY <2>8, <2>9, Becomes
  <2>11. t = Tail(q)
    <3> DEFINE S == Seq(Bytes) \ {<< >>}
    <3>1. q \in Seq(S)
      BY <1>1 DEF Queues
    <3>2. t = SubSeq(q, 1 + 1, Len(q))
      BY <1>1, <2>5, DroppedFacts DEF t
    <3> HIDE DEF S
    <3>3. Tail(q) = SubSeq(q, 2, Len(q))
      BY <2>2, <3>1, TailIsSubSeq
    <3> QED
      BY <3>2, <3>3
  <2>12. Blocks # << >> /\ Len(Head(Blocks)) <= n /\ out' = Head(Blocks) /\ Blocks' = Tail(Blocks)
         /\ answer' = Len(out')
    BY <2>2, <2>3, <2>4, <2>10, <2>11 DEF q, first
  <2> QED
    BY <1>2, <2>10, <2>12 DEF Queue!Take
<1> QED
  BY <1>3, <1>4

\* What dk_block_get1stblock_size and dk_block_getalldata_length answer is true
\* of the queue, and neither changes it.
LEMMA LookStep ==
    ASSUME BlockAssumption, Inv, Get1stBlockSize \/ GetAllDataLength
    PROVE  Inv' /\ (Queue!Look \/ Queue!Total)
<1> DEFINE q == Blocks
<1>1. /\ TypeOK /\ Holds(buf, start, len, q) /\ (len = 0 <=> q = << >>)
      /\ Queue!TotalCost(q) = len
  BY EmptyQueue DEF Inv
<1>2. UNCHANGED <<buf, start, len>> /\ out' = << >>
  BY DEF Get1stBlockSize, GetAllDataLength
<1>3. ASSUME answer' \in -1 .. Size PROVE Inv' /\ Blocks' = q
  <2>1. TypeOK'
    BY <1>1, <1>2, <1>3 DEF TypeOK, Positions
  <2> HIDE DEF q
  <2>2. Holds(buf', start', len', q)
    BY <1>1, <1>2
  <2> QED
    BY <2>1, <2>2, Becomes
<1>4. CASE Get1stBlockSize
  <2>1. answer' = IF q = << >> THEN 0 ELSE Len(Head(q))
    <3>1. CASE q = << >>
      BY <1>1, <1>4, <3>1 DEF Get1stBlockSize
    <3>2. CASE q # << >>
      <4>1. len # 0 /\ NumberAt(start) = Len(Head(q))
        BY <3>2, FirstRead
      <4> HIDE DEF q
      <4> QED
        BY <1>4, <3>2, <4>1 DEF Get1stBlockSize
    <3> QED
      BY <3>1, <3>2
  <2>2. answer' \in -1 .. Size
    <3>1. q # << >> => Len(Head(q)) \in 1 .. Size
      BY FirstRead
    <3>2. Size \in Nat
      BY DEF BlockAssumption
    <3> HIDE DEF q
    <3> QED
      BY <2>1, <3>1, <3>2
  <2> QED
    BY <1>2, <1>3, <1>4, <2>1, <2>2 DEF Get1stBlockSize, Queue!Look
<1>5. CASE GetAllDataLength
  <2>1. answer' = len
    BY <1>5 DEF GetAllDataLength
  <2>2. answer' \in -1 .. Size
    BY <1>1, <2>1 DEF TypeOK, BlockAssumption
  <2> QED
    BY <1>1, <1>2, <1>3, <1>5, <2>1, <2>2 DEF GetAllDataLength, Queue!Total
<1> QED
  BY <1>4, <1>5

\* The queue is empty where there are no bytes.
LEMMA NothingHolds ==
    ASSUME BlockAssumption, NEW b, NEW s
    PROVE  Holds(b, s, 0, << >>)
<1>1. Queue!CostOf(<< >>, 0) = 0
  BY CostSteps
<1> QED
  BY <1>1 DEF Holds, Queues

\* dk_block_reset empties the queue.
LEMMA ResetStep ==
    ASSUME BlockAssumption, Inv, Reset
    PROVE  Inv' /\ Queue!Clear
<1>1. /\ buf' = buf /\ start' = 0 /\ len' = 0 /\ out' = << >> /\ answer' = 0
      /\ call' = [op |-> "reset", data |-> << >>, n |-> 0]
  BY DEF Reset
<1>2. TypeOK'
  BY <1>1 DEF Inv, TypeOK, Positions, BlockAssumption
<1>3. Inv' /\ Blocks' = << >>
  <2> DEFINE q == << >>
  <2>1. Holds(buf', start', len', q)
    BY <1>1, NothingHolds
  <2> HIDE DEF q
  <2>2. Inv' /\ Blocks' = q
    BY <1>2, <2>1, Becomes
  <2> QED
    BY <2>2 DEF q
<1> QED
  BY <1>1, <1>3 DEF Queue!Clear

\* A step of the cache is a step of the queue, or changes nothing.
LEMMA EveryStep ==
    ASSUME BlockAssumption, Inv, [Next]_vars
    PROVE  Inv' /\ [Queue!BlockNext]_(Queue!blockVars)
<1>1. ASSUME NEW block \in Data, Pushback(block)
      PROVE  Inv' /\ Queue!BlockNext
  BY <1>1, PushStep DEF Queue!BlockNext
<1>2. ASSUME NEW n \in Lengths, Pop1stBlock(n)
      PROVE  Inv' /\ Queue!BlockNext
  BY <1>2, PopStep DEF Queue!BlockNext
<1>3. CASE Get1stBlockSize \/ GetAllDataLength
  BY <1>3, LookStep DEF Queue!BlockNext
<1>4. CASE Reset
  BY <1>4, ResetStep DEF Queue!BlockNext
<1>5. CASE UNCHANGED vars
  <2> DEFINE q == Blocks
  <2>1. TypeOK' /\ Holds(buf', start', len', q)
    BY <1>5 DEF Inv, TypeOK, Positions, vars
  <2> HIDE DEF q
  <2>2. Inv' /\ Blocks' = q
    BY <2>1, Becomes
  <2> QED
    BY <1>5, <2>2 DEF vars, Queue!blockVars, q
<1> QED
  BY <1>1, <1>2, <1>3, <1>4, <1>5 DEF Next

\* A cache that has just been created is empty.
LEMMA AtFirst ==
    ASSUME BlockAssumption, Init
    PROVE  Inv /\ Queue!BlockInit
<1>1. TypeOK
  BY DEF Init, TypeOK, Positions, BlockAssumption
<1>2. Blocks = << >> /\ Holds(buf, start, len, Blocks)
  <2> DEFINE q == << >>
  <2>1. Holds(buf, start, len, q)
    BY NothingHolds DEF Init
  <2> HIDE DEF q
  <2>2. Blocks = q
    BY <1>1, <2>1, BlocksAre DEF BlocksRead
  <2> QED
    BY <2>1, <2>2 DEF q
<1> QED
  BY <1>1, <1>2 DEF Init, Inv, Queue!BlockInit

\* The bytes of the queue are whole blocks, each behind a number that is its length.
THEOREM WholeBlocks ==
    ASSUME BlockAssumption
    PROVE  Spec => []Inv
<1>1. Init => Inv
  BY AtFirst
<1>2. Inv /\ [Next]_vars => Inv'
  BY EveryStep
<1> QED
  BY <1>1, <1>2, PTL DEF Spec

\* m_uPosStart stays in the buffer, m_uLenData does not exceed it, and what is
\* copied out or answered is what callers may get.
THEOREM TypeCorrect ==
    ASSUME BlockAssumption
    PROVE  Spec => []TypeOK
<1>1. Inv => TypeOK
  BY DEF Inv
<1> QED
  BY <1>1, WholeBlocks, PTL

\* The cache implements the queue of blocks: blocks come out whole, as they went
\* in and in order, and no more of the oldest are forgotten than must be.
THEOREM ImplementsQueue ==
    ASSUME BlockAssumption
    PROVE  Spec => AsBlocks
<1>1. Init => Queue!BlockInit
  BY AtFirst
<1>2. Inv /\ [Next]_vars => [Queue!BlockNext]_(Queue!blockVars)
  BY EveryStep
<1> QED
  BY <1>1, <1>2, WholeBlocks, PTL DEF Spec, AsBlocks, Queue!BlockSpec
=============================================================================
