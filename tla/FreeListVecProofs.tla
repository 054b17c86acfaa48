--------------------------- MODULE FreeListVecProofs ----------------------------
(***************************************************************************)
(* For every arena, alignment, set of request sizes and id range: the Vec  *)
(* of allocator.rs, scanned, split, sorted and merged by its loops, is the *)
(* set form of FreeListAllocator in order.                                 *)
(***************************************************************************)
EXTENDS FreeListVec, FreeListAllocatorProofs, FiniteSetTheorems

Sorted(s)     == \A j, k \in 1 .. Len(s) : j < k => s[j].start <= s[k].start
Increasing(s) == \A j, k \in 1 .. Len(s) : j < k => s[j].start < s[k].start

--------------------------------------------------------------------------------
(***************************************************************************)
(* The sort.  Of a sorted Vec with one block pushed onto it a stable order *)
(* exists: the pushed block goes behind all that start at or before it.    *)
(***************************************************************************)
LEMMA OrderExists ==
    ASSUME NEW v \in Seq(Block), Increasing(v), NEW b \in Block
    PROVE  LET s == Append(v, b)
               I == 1 .. Len(s)
           IN  \E p \in [I -> I] : \A i, j \in I : i < j => Precedes(s, p[i], p[j])
<1> DEFINE n == Len(v)
           s == Append(v, b)
           Behind == {k \in 0 .. n : k = 0 \/ v[k].start <= b.start}
<1>1. /\ n \in Nat /\ Len(s) = n + 1 /\ s[n + 1] = b
      /\ b.start \in Nat /\ \A i \in 1 .. n : s[i] = v[i] /\ v[i].start \in Nat
  <2>1. \A i \in 1 .. n : s[i] = v[i] /\ v[i] \in Block
    OBVIOUS
  <2>2. \A d \in Block : d.start \in Nat
    BY DEF Block
  <2> QED
    BY <2>1, <2>2
<1>2. PICK k \in Behind : \A j \in Behind : j <= k
  <2>1. 0 \in Behind
    BY <1>1
  <2> QED
    BY <1>1, <2>1, GreatestNatural
<1>3. /\ k \in 0 .. n
      /\ \A i \in 1 .. k : v[i].start <= b.start
      /\ \A i \in k + 1 .. n : b.start < v[i].start
  <2>1. k \in 0 .. n /\ (k = 0 \/ v[k].start <= b.start)
    BY <1>2
  <2>2. ASSUME NEW i \in 1 .. k PROVE v[i].start <= b.start
    BY <1>1, <2>1 DEF Increasing
  <2>3. ASSUME NEW i \in k + 1 .. n PROVE b.start < v[i].start
    <3>1. i \notin Behind
      BY <1>2, <2>1
    <3> QED
      BY <1>1, <2>1, <3>1
  <2> QED
    BY <2>1, <2>2, <2>3
<1> DEFINE p == [i \in 1 .. n + 1 |-> IF i <= k THEN i ELSE IF i = k + 1 THEN n + 1 ELSE i - 1]
<1>4. p \in [1 .. n + 1 -> 1 .. n + 1]
  BY <1>1, <1>3
<1>5. ASSUME NEW i \in 1 .. n + 1, NEW j \in 1 .. n + 1, i < j
      PROVE  Precedes(s, p[i], p[j])
  <2> HIDE DEF s
  <2>1. CASE j <= k
    BY <1>1, <1>3, <1>5, <2>1 DEF Precedes, Increasing
  <2>2. CASE j = k + 1
    <3>1. p[i] = i /\ p[j] = n + 1 /\ i \in 1 .. k
      BY <1>1, <1>3, <1>5, <2>2
    <3> QED
      BY <1>1, <1>3, <3>1 DEF Precedes
  <2>3. CASE j > k + 1 /\ i = k + 1
    <3>1. p[i] = n + 1 /\ p[j] = j - 1 /\ j - 1 \in k + 1 .. n /\ j - 1 \in 1 .. n
      BY <1>1, <1>3, <1>5, <2>3
    <3> HIDE DEF p
    <3>2. s[p[i]].start < s[p[j]].start
      BY <1>1, <1>3, <3>1
    <3> QED
      BY <3>2 DEF Precedes
  <2>4. CASE j > k + 1 /\ i # k + 1
    <3>1. /\ p[j] = j - 1 /\ p[i] \in 1 .. n /\ j - 1 \in 1 .. n /\ p[i] < p[j]
      BY <1>1, <1>3, <1>5, <2>4
    <3> QED
      BY <1>1, <3>1 DEF Precedes, Increasing
  <2> QED
    BY <1>1, <1>3, <2>1, <2>2, <2>3, <2>4
<1> QED
  BY <1>1, <1>4, <1>5

\* What the sort returns: the same blocks, by start.
LEMMA SortFacts ==
    ASSUME NEW v \in Seq(Block), Increasing(v), NEW b \in Block
    PROVE  LET s == Append(v, b)
               t == SortByStart(s)
           IN  /\ t \in Seq(Block)
               /\ Range(t) = Range(v) \cup {b}
               /\ Sorted(t)
<1> DEFINE s == Append(v, b)
           I == 1 .. Len(s)
           Stable(p) == \A i, j \in I : i < j => Precedes(s, p[i], p[j])
           order == CHOOSE p \in [I -> I] : Stable(p)
           t == SortByStart(s)
<1>1. s \in Seq(Block) /\ Len(s) \in Nat /\ Range(s) = Range(v) \cup {b}
  <2>1. /\ Len(s) = Len(v) + 1 /\ DOMAIN s = 1 .. Len(v) + 1 /\ DOMAIN v = 1 .. Len(v)
        /\ s[Len(v) + 1] = b /\ \A i \in 1 .. Len(v) : s[i] = v[i]
    OBVIOUS
  <2> HIDE DEF s
  <2>2. Range(s) = Range(v) \cup {b}
    BY <2>1 DEF Range
  <2> QED
    BY <2>2 DEF s
<1>2. order \in [I -> I] /\ Stable(order)
  <2>1. \E p \in [I -> I] : Stable(p)
    BY OrderExists
  <2> HIDE DEF I, Stable
  <2> QED
    BY <2>1
<1>3. t = [k \in I |-> s[order[k]]]
  BY DEF SortByStart
<1> HIDE DEF s, order, t
<1>8. \A x \in I : s[x] \in Block /\ s[x].start \in Nat
  <2>1. \A d \in Block : d.start \in Nat
    BY DEF Block
  <2> QED
    BY <1>1, <2>1
<1>4. \A y \in I : \E x \in I : order[x] = y
  <2>1. order \in Injection(I, I)
    <3>1. \A x \in I : ~Precedes(s, x, x)
      BY <1>8 DEF Precedes
    <3>2. ASSUME NEW i \in I, NEW j \in I, order[i] = order[j] PROVE i = j
      BY <1>1, <1>2, <3>1, <3>2
    <3> HIDE DEF I, Stable
    <3> QED
      BY <1>2, <3>2 DEF Injection, IsInjective
  <2>2. IsFiniteSet(I)
    BY <1>1, FS_Interval
  <2>3. order \in Surjection(I, I)
    BY <2>1, <2>2, FS_Injection
  <2> QED
    BY <2>3 DEF Surjection
<1>5. Len(t) = Len(s) /\ DOMAIN t = I /\ t \in Seq(Block)
  <2>1. \A k \in I : s[order[k]] \in Block
    BY <1>1, <1>2
  <2> QED
    BY <1>1, <1>3, <2>1
<1>6. Range(t) = Range(s)
  <2>1. DOMAIN s = I
    BY <1>1
  <2> QED
    BY <1>2, <1>3, <1>4, <1>5, <2>1 DEF Range
<1>7. Sorted(t)
  <2>1. ASSUME NEW j \in I, NEW k \in I, j < k PROVE t[j].start <= t[k].start
    <3>1. Precedes(s, order[j], order[k]) /\ order[j] \in I /\ order[k] \in I
      BY <1>2, <2>1
    <3>2. s[order[j]].start \in Nat /\ s[order[k]].start \in Nat
      BY <1>8, <3>1
    <3> QED
      BY <1>3, <3>1, <3>2 DEF Precedes
  <2> QED
    BY <1>5, <2>1 DEF Sorted
<1> QED
  BY <1>1, <1>5, <1>6, <1>7 DEF s, t

--------------------------------------------------------------------------------
(***************************************************************************)
(* The merge pass.                                                         *)
(***************************************************************************)

\* The pass over the first n blocks is defined, for every n.
LEMMA PassExists ==
    ASSUME NEW s, NEW N \in Nat
    PROVE  \E f : f = [n \in 0 .. N |-> IF n = 0 THEN <<>> ELSE Grow(f[n - 1], s[n])]
<1> DEFINE Is(f, m) == f = [n \in 0 .. m |-> IF n = 0 THEN <<>> ELSE Grow(f[n - 1], s[n])]
           Bad == {m \in Nat : \A f : ~Is(f, m)}
<1>1. CASE Bad = {}
  <2> HIDE DEF Is
  <2>1. \E f : Is(f, N)
    BY <1>1
  <2> QED
    BY <2>1 DEF Is
<1>2. CASE Bad # {}
  <2>1. PICK m \in Bad : \A k \in Bad : m <= k
    BY <1>2, LeastNatural
  <2>2. m # 0
    <3>1. Is([n \in 0 .. 0 |-> <<>>], 0)
      OBVIOUS
    <3> QED
      BY <3>1
  <2>3. m \in Nat /\ m - 1 \in Nat /\ m - 1 \notin Bad
    BY <2>1, <2>2
  <2>4. PICK g : Is(g, m - 1)
    BY <2>3
  <2> DEFINE f == [n \in 0 .. m |-> IF n = m THEN Grow(g[m - 1], s[m]) ELSE g[n]]
  <2>5. ASSUME NEW n \in 0 .. m
        PROVE  f[n] = IF n = 0 THEN <<>> ELSE Grow(f[n - 1], s[n])
    <3>1. CASE n = m
      BY <2>2, <2>3, <3>1
    <3>2. CASE n # m
      <4>1. n \in 0 .. m - 1 /\ f[n] = g[n] /\ (n # 0 => f[n - 1] = g[n - 1])
        BY <2>3, <3>2
      <4> QED
        BY <2>4, <4>1
    <3> QED
      BY <3>1, <3>2
  <2>6. Is(f, m)
    BY <2>5
  <2> QED
    BY <2>1, <2>6
<1> QED
  BY <1>1, <1>2

LEMMA PassTurns ==
    ASSUME NEW s, Len(s) \in Nat
    PROVE  /\ MergePass(s)[0] = <<>>
           /\ \A n \in 1 .. Len(s) : MergePass(s)[n] = Grow(MergePass(s)[n - 1], s[n])
<1> DEFINE Is(f) == f = [n \in 0 .. Len(s) |-> IF n = 0 THEN <<>> ELSE Grow(f[n - 1], s[n])]
<1>1. \E f : Is(f)
  BY PassExists
<1>2. MergePass(s) = CHOOSE f : Is(f)
  BY DEF MergePass
<1>3. Is(MergePass(s))
  <2> HIDE DEF Is
  <2> QED
    BY <1>1, <1>2
<1> DEFINE m == MergePass(s)
<1>4. \A n \in 0 .. Len(s) : m[n] = IF n = 0 THEN <<>> ELSE Grow(m[n - 1], s[n])
  <2> HIDE DEF m
  <2> QED
    BY <1>3 DEF m
<1> QED
  BY <1>4

\* What is known of the merged list once the blocks F have passed: it is in order with
\* bytes missing between its blocks, each of them is a run of F, and F is inside them.
Passed(m, F) ==
    /\ m \in Seq(Block)
    /\ \A j, k \in 1 .. Len(m) : j < k => End(m[j]) < m[k].start
    /\ \A j \in 1 .. Len(m) : \E b, c \in F :
         IsRun(F, b, c) /\ m[j] = [start |-> b.start, size |-> End(c) - b.start]
    /\ \A d \in F : \E j \in 1 .. Len(m) : m[j].start <= d.start /\ End(d) <= End(m[j])

\* Then the merged blocks are all the runs.
LEMMA PassedIsCoalesce ==
    ASSUME NEW F \in SUBSET Block, NEW m, Passed(m, F)
    PROVE  Range(m) = Coalesce(F) /\ Increasing(m)
<1>1. /\ m \in Seq(Block) /\ DOMAIN m = 1 .. Len(m)
      /\ \A j \in 1 .. Len(m) : m[j] \in Block
  BY DEF Passed
<1>2. ASSUME NEW j \in 1 .. Len(m) PROVE m[j] \in Coalesce(F)
  <2>1. PICK b \in F, c \in F :
          IsRun(F, b, c) /\ m[j] = [start |-> b.start, size |-> End(c) - b.start]
    BY <1>2 DEF Passed
  <2> DEFINE q == <<b, c>>
  <2>2. q \in F \X F /\ IsRun(F, q[1], q[2])
        /\ m[j] = [start |-> q[1].start, size |-> End(q[2]) - q[1].start]
    BY <2>1
  <2> HIDE DEF q
  <2> QED
    BY <2>2 DEF Coalesce
<1>3. ASSUME NEW r \in Coalesce(F) PROVE \E j \in 1 .. Len(m) : m[j] = r
  <2>1. PICK b \in F, c \in F :
          IsRun(F, b, c) /\ r = [start |-> b.start, size |-> End(c) - b.start]
    BY DEF Coalesce
  <2>2. PICK j \in 1 .. Len(m) : m[j].start <= b.start /\ End(b) <= End(m[j])
    BY DEF Passed
  <2>3. PICK x \in F, y \in F :
          IsRun(F, x, y) /\ m[j] = [start |-> x.start, size |-> End(y) - x.start]
    BY DEF Passed
  <2>4. /\ \A d \in F : d.start \in Nat /\ d.size \in Nat /\ End(d) \in Nat /\ d.start <= End(d)
        /\ \A d \in F, p \in Nat : p \in Bytes(d) <=> d.start <= p /\ p < End(d)
    <3>1. \A d \in F : d.start \in Nat /\ d.size \in Nat /\ End(d) \in Nat /\ d.start <= End(d)
      BY DEF Block, End
    <3> QED
      BY <3>1 DEF Bytes
  <2>5. /\ m[j].start = x.start /\ End(m[j]) = End(y)
        /\ x.start <= b.start /\ b.start <= End(y) /\ x.start <= End(y) /\ b.start <= End(c)
    <3>1. End(m[j]) = m[j].start + m[j].size
      BY DEF End
    <3> QED
      BY <2>1, <2>2, <2>3, <2>4, <3>1 DEF IsRun
  <2>6. x.start = b.start
    <3> SUFFICES ASSUME x.start < b.start PROVE FALSE
      BY <2>4, <2>5
    <3>1. b.start - 1 \in x.start .. End(y) - 1 /\ b.start - 1 \in Nat
      BY <2>4, <2>5
    <3>2. PICK d \in F : b.start - 1 \in Bytes(d)
      BY <2>3, <3>1 DEF IsRun
    <3>3. d.start < b.start /\ End(d) >= b.start
      BY <2>4, <3>1, <3>2
    <3> QED
      BY <2>1, <2>4, <3>3 DEF IsRun
  <2>7. ~(End(c) < End(y))
    <3> SUFFICES ASSUME End(c) < End(y) PROVE FALSE
      OBVIOUS
    <3>1. End(c) \in x.start .. End(y) - 1
      BY <2>4, <2>5
    <3>2. PICK d \in F : End(c) \in Bytes(d)
      BY <2>3, <3>1 DEF IsRun
    <3>3. d.start <= End(c) /\ End(c) < End(d)
      BY <2>4, <3>2
    <3>4. End(d) <= End(c)
      BY <2>1, <3>3 DEF IsRun
    <3> QED
      BY <2>4, <3>3, <3>4
  <2>8. ~(End(y) < End(c))
    <3> SUFFICES ASSUME End(y) < End(c) PROVE FALSE
      OBVIOUS
    <3>1. End(y) \in b.start .. End(c) - 1
      BY <2>4, <2>5
    <3>2. PICK d \in F : End(y) \in Bytes(d)
      BY <2>1, <3>1 DEF IsRun
    <3>3. d.start <= End(y) /\ End(y) < End(d)
      BY <2>4, <3>2
    <3>4. End(d) <= End(y)
      BY <2>3, <3>3 DEF IsRun
    <3> QED
      BY <2>4, <3>3, <3>4
  <2> QED
    BY <2>1, <2>3, <2>4, <2>6, <2>7, <2>8
<1>4. Range(m) = Coalesce(F)
  BY <1>1, <1>2, <1>3 DEF Range
<1>5. Increasing(m)
  <2>1. \A d \in Block : d.start \in Nat /\ End(d) \in Nat /\ d.start <= End(d)
    BY DEF Block, End
  <2>2. \A j \in 1 .. Len(m) :
          m[j].start \in Nat /\ End(m[j]) \in Nat /\ m[j].start <= End(m[j])
    BY <1>1, <2>1
  <2>3. \A j, k \in 1 .. Len(m) : j < k => End(m[j]) < m[k].start
    BY DEF Passed
  <2> QED
    BY <2>2, <2>3 DEF Increasing
<1> QED
  BY <1>4, <1>5

\* One turn keeps this, when blocks come by start.
LEMMA TurnKeeps ==
    ASSUME NEW F \in SUBSET Block, NEW m, Passed(m, F),
           NEW x \in Block, \A d \in F : d.start <= x.start
    PROVE  Passed(Grow(m, x), F \cup {x})
<1> DEFINE n == Len(m)
           G == F \cup {x}
<1>1. /\ m \in Seq(Block) /\ n \in Nat /\ DOMAIN m = 1 .. n /\ (n = 0 <=> m = <<>>)
      /\ \A j \in 1 .. n : m[j] \in Block
  BY DEF Passed
<1>2. \A d \in Block : /\ d.start \in Nat /\ d.size \in Nat /\ End(d) = d.start + d.size
                       /\ End(d) \in Nat /\ d.start <= End(d)
  BY DEF Block, End
<1>3. \A d \in Block, p \in Int : p \in Bytes(d) <=> d.start <= p /\ p < End(d)
  BY <1>2 DEF Bytes
<1>4. \A j \in 1 .. n : /\ m[j].start \in Nat /\ End(m[j]) \in Nat
                        /\ m[j].start <= End(m[j])
                        /\ m[j].start <= x.start
  <2> SUFFICES ASSUME NEW j \in 1 .. n PROVE m[j].start <= x.start
    BY <1>1, <1>2
  <2>1. PICK b \in F, c \in F : m[j] = [start |-> b.start, size |-> End(c) - b.start]
    BY DEF Passed
  <2> QED
    BY <2>1
<1>5. \A j, k \in 1 .. n : j < k => End(m[j]) < m[k].start
  BY DEF Passed
<1>6. \A d \in F : \E j \in 1 .. n : m[j].start <= d.start /\ End(d) <= End(m[j])
  BY DEF Passed
<1>7. \A d \in F : n > 0 /\ End(d) <= End(m[n])
  <2> SUFFICES ASSUME NEW d \in F PROVE n > 0 /\ End(d) <= End(m[n])
    OBVIOUS
  <2>1. PICK j \in 1 .. n : End(d) <= End(m[j])
    BY <1>6
  <2>2. n \in 1 .. n
    BY <1>1
  <2>3. j # n => End(m[j]) < m[n].start
    <3>1. j # n => j < n
      <4> HIDE DEF n
      <4> QED
        BY <2>2
    <3> QED
      BY <1>5, <2>2, <3>1
  <2>4. m[n].start <= End(m[n]) /\ m[n].start \in Nat /\ End(m[n]) \in Nat
        /\ End(m[j]) \in Nat /\ End(d) \in Nat /\ n > 0
    BY <1>1, <1>2, <1>4, <2>2
  <2> QED
    BY <2>1, <2>3, <2>4
\* A run of F that ends before x begins is one of F with x.
<1>8. ASSUME NEW j \in 1 .. n, End(m[j]) < x.start
      PROVE  \E b, c \in G : /\ IsRun(G, b, c)
                             /\ m[j] = [start |-> b.start, size |-> End(c) - b.start]
  <2>1. PICK b \in F, c \in F :
          IsRun(F, b, c) /\ m[j] = [start |-> b.start, size |-> End(c) - b.start]
    BY DEF Passed
  <2>2. b.start <= End(c) /\ End(c) < x.start
    <3>1. m[j].start = b.start /\ m[j].size = End(c) - b.start /\ m[j] \in Block
      BY <1>1, <2>1
    <3>2. End(m[j]) = End(c)
      BY <1>2, <3>1
    <3> QED
      BY <1>8, <2>1, <3>2 DEF IsRun
  <2>3. IsRun(G, b, c)
    BY <1>2, <2>1, <2>2 DEF IsRun
  <2> QED
    BY <2>1, <2>3
<1>9. CASE ~(n > 0 /\ x.start <= End(m[n]))
  <2> DEFINE w == Append(m, x)
  <2>1. Grow(m, x) = w
    <3>1. ~(m # <<>> /\ x.start <= End(m[Len(m)]))
      BY <1>1, <1>9
    <3> QED
      BY <3>1 DEF Grow
  <2>2. /\ w \in Seq(Block) /\ Len(w) = n + 1 /\ w[n + 1] = x
        /\ \A j \in 1 .. n : w[j] = m[j]
    BY <1>1
  <2>3. \A j \in 1 .. n : End(m[j]) < x.start
    <3> SUFFICES ASSUME NEW j \in 1 .. n PROVE End(m[j]) < x.start
      OBVIOUS
    <3>1. n \in 1 .. n /\ (j # n => j < n)
      <4>1. n \in Nat
        BY <1>1
      <4> HIDE DEF n
      <4> QED
        BY <4>1
    <3>2. j # n => End(m[j]) < m[n].start
      BY <1>5, <3>1
    <3>3. /\ x.start \in Nat /\ End(m[n]) \in Nat /\ End(m[j]) \in Nat
          /\ m[n].start \in Nat /\ m[n].start <= End(m[n])
      BY <1>2, <1>4, <3>1
    <3>4. ~(x.start <= End(m[n]))
      BY <1>9, <3>1
    <3> QED
      BY <3>2, <3>3, <3>4
  <2>4. IsRun(G, x, x) /\ x \in G /\ x = [start |-> x.start, size |-> End(x) - x.start]
    <3>1. \A d \in F : End(d) < x.start
      BY <1>1, <1>2, <1>4, <1>7, <2>3
    <3>2. x = [start |-> x.start, size |-> End(x) - x.start]
      BY <1>2 DEF Block
    <3> QED
      BY <1>2, <1>3, <3>1, <3>2 DEF IsRun
  <2> HIDE DEF w, G
  <2>5. \A j, k \in 1 .. Len(w) : j < k => End(w[j]) < w[k].start
    BY <1>1, <1>5, <2>2, <2>3
  <2>6. \A j \in 1 .. Len(w) : \E b, c \in G :
          IsRun(G, b, c) /\ w[j] = [start |-> b.start, size |-> End(c) - b.start]
    <3> SUFFICES ASSUME NEW j \in 1 .. n + 1
                 PROVE  \E b, c \in G : /\ IsRun(G, b, c)
                                        /\ w[j] = [start |-> b.start, size |-> End(c) - b.start]
      BY <2>2
    <3>1. CASE j \in 1 .. n
      BY <1>8, <2>2, <2>3, <3>1
    <3>2. CASE j = n + 1
      BY <2>2, <2>4, <3>2
    <3> QED
      BY <1>1, <3>1, <3>2
  <2>7. \A d \in G : \E j \in 1 .. Len(w) : w[j].start <= d.start /\ End(d) <= End(w[j])
    <3>1. \A d \in F : \E j \in 1 .. n + 1 : w[j].start <= d.start /\ End(d) <= End(w[j])
      <4> SUFFICES ASSUME NEW d \in F
                   PROVE  \E j \in 1 .. n + 1 : w[j].start <= d.start /\ End(d) <= End(w[j])
        OBVIOUS
      <4>1. PICK j \in 1 .. n : m[j].start <= d.start /\ End(d) <= End(m[j])
        BY <1>6
      <4>2. j \in 1 .. n + 1 /\ w[j] = m[j]
        BY <1>1, <2>2
      <4> QED
        BY <4>1, <4>2
    <3>2. n + 1 \in 1 .. n + 1 /\ w[n + 1].start <= x.start /\ End(x) <= End(w[n + 1])
      BY <1>1, <1>2, <2>2
    <3> QED
      BY <2>2, <3>1, <3>2 DEF G
  <2> QED
    BY <2>1, <2>2, <2>5, <2>6, <2>7 DEF Passed, G
<1>10. CASE n > 0 /\ x.start <= End(m[n])
  <2> DEFINE e == IF End(x) >= End(m[n]) THEN End(x) ELSE End(m[n])
             z == [start |-> m[n].start, size |-> e - m[n].start]
             w == [m EXCEPT ![n].size = e - m[n].start]
  <2>1. Grow(m, x) = w
    <3>1. m # <<>> /\ x.start <= End(m[Len(m)])
      BY <1>1, <1>10
    <3> QED
      BY <3>1 DEF Grow
  <2>2. n \in 1 .. n /\ m[n] \in Block
    BY <1>1, <1>10
  <2>3. /\ e \in Nat /\ End(m[n]) <= e /\ End(x) <= e /\ m[n].start <= e
        /\ z \in Block /\ End(z) = e /\ z.start = m[n].start
    <3>1. e \in Nat /\ End(m[n]) <= e /\ End(x) <= e /\ m[n].start <= e
      BY <1>2, <1>4, <2>2
    <3> HIDE DEF e
    <3> QED
      BY <1>4, <2>2, <3>1 DEF Block, End
  <2>4. /\ w \in Seq(Block) /\ Len(w) = n /\ w[n] = z
        /\ \A j \in 1 .. n - 1 : w[j] = m[j]
    <3> HIDE DEF e
    <3>1. [m[n] EXCEPT !.size = e - m[n].start] = z
      BY <2>2 DEF Block
    <3>2. w = [m EXCEPT ![n] = z]
      BY <3>1
    <3> HIDE DEF w, z
    <3> QED
      BY <1>1, <2>2, <2>3, <3>2
  <2>5. PICK b \in F, c \in F :
          IsRun(F, b, c) /\ m[n] = [start |-> b.start, size |-> End(c) - b.start]
    BY <2>2 DEF Passed
  <2>6. m[n].start = b.start /\ End(m[n]) = End(c) /\ b.start <= x.start
    <3>1. m[n].start = b.start /\ m[n].size = End(c) - b.start
      BY <2>5
    <3> QED
      BY <1>2, <2>2, <3>1
  <2> DEFINE last == IF End(x) >= End(m[n]) THEN x ELSE c
  <2>7. last \in G /\ End(last) = e /\ b \in G
    BY <2>6
  <2> HIDE DEF e, z, w, last
  <2>8. IsRun(G, b, last)
    <3>1. \A d \in G : End(d) <= e
      BY <1>2, <1>7, <2>2, <2>3
    <3>2. \A d \in G : d.start < b.start => End(d) < b.start
      BY <1>2, <2>5, <2>6 DEF IsRun
    <3>3. \A p \in b.start .. e - 1 : \E d \in G : p \in Bytes(d)
      <4> SUFFICES ASSUME NEW p \in b.start .. e - 1 PROVE \E d \in G : p \in Bytes(d)
        OBVIOUS
      <4>1. p \in Int /\ b.start <= p /\ p < e /\ End(c) \in Nat
        BY <1>2, <2>3
      <4>2. CASE p < End(c)
        <5>1. p \in b.start .. End(c) - 1
          BY <4>1, <4>2
        <5> QED
          BY <2>5, <5>1 DEF IsRun
      <4>3. CASE ~(p < End(c))
        <5>1. x.start <= p /\ p < End(x)
          BY <1>2, <1>10, <2>6, <4>1, <4>3 DEF e
        <5> QED
          BY <1>3, <4>1, <5>1
      <4> QED
        BY <4>2, <4>3
    <3> QED
      BY <2>3, <2>6, <2>7, <3>1, <3>2, <3>3 DEF IsRun
  <2>9. \A j \in 1 .. n - 1 : End(m[j]) < m[n].start /\ End(m[j]) < x.start
    <3> SUFFICES ASSUME NEW j \in 1 .. n - 1
                 PROVE  End(m[j]) < m[n].start /\ End(m[j]) < x.start
      OBVIOUS
    <3>1. j \in 1 .. n /\ j < n /\ End(m[j]) < m[n].start
      BY <1>1, <1>5, <2>2
    <3> QED
      BY <1>2, <1>4, <2>2, <3>1
  <2>10. \A j, k \in 1 .. n : j < k => End(w[j]) < w[k].start
    <3> SUFFICES ASSUME NEW j \in 1 .. n, NEW k \in 1 .. n, j < k
                 PROVE  End(w[j]) < w[k].start
      OBVIOUS
    <3>1. j \in 1 .. n - 1 /\ (k # n => k \in 1 .. n - 1)
      BY <1>1
    <3> QED
      BY <1>5, <2>3, <2>4, <2>9, <3>1
  <2>11. \A j \in 1 .. n : \E y, u \in G :
           IsRun(G, y, u) /\ w[j] = [start |-> y.start, size |-> End(u) - y.start]
    <3> SUFFICES ASSUME NEW j \in 1 .. n
                 PROVE  \E y, u \in G : /\ IsRun(G, y, u)
                                        /\ w[j] = [start |-> y.start, size |-> End(u) - y.start]
      OBVIOUS
    <3>1. CASE j \in 1 .. n - 1
      BY <1>8, <2>4, <2>9, <3>1
    <3>2. CASE j = n
      BY <2>4, <2>6, <2>7, <2>8, <3>2 DEF z
    <3> HIDE DEF n
    <3>3. j \in 1 .. n - 1 \/ j = n
      BY <2>2
    <3> QED
      BY <3>1, <3>2, <3>3
  <2>12. \A d \in G : \E j \in 1 .. n : w[j].start <= d.start /\ End(d) <= End(w[j])
    <3> SUFFICES ASSUME NEW d \in G
                 PROVE  \E j \in 1 .. n : w[j].start <= d.start /\ End(d) <= End(w[j])
      OBVIOUS
    <3>1. CASE d = x
      BY <1>4, <2>2, <2>3, <2>4, <3>1
    <3>2. CASE d \in F
      <4>1. PICK j \in 1 .. n : m[j].start <= d.start /\ End(d) <= End(m[j])
        BY <1>6, <3>2
      <4>2. CASE j \in 1 .. n - 1
        BY <2>4, <4>1, <4>2
      <4>3. CASE j = n
        <5>1. m[n].start <= d.start /\ End(d) <= End(m[n])
          BY <4>1, <4>3
        <5>2. End(d) \in Nat /\ End(m[n]) \in Nat
          BY <1>2, <1>4, <2>2, <3>2
        <5>3. End(d) <= e
          BY <2>3, <5>1, <5>2
        <5> QED
          BY <2>2, <2>3, <2>4, <5>1, <5>3
      <4> QED
        BY <1>1, <4>2, <4>3
    <3> QED
      BY <3>1, <3>2
  <2> QED
    BY <2>1, <2>4, <2>10, <2>11, <2>12 DEF Passed
<1> QED
  BY <1>9, <1>10

\* So it is kept by the whole pass.
LEMMA MergeIsCoalesce ==
    ASSUME NEW s \in Seq(Block), Sorted(s)
    PROVE  LET m == MergePass(s)[Len(s)]
           IN  m \in Seq(Block) /\ Range(m) = Coalesce(Range(s)) /\ Increasing(m)
<1> DEFINE First(n) == {s[i] : i \in 1 .. n}
           Bad == {n \in 0 .. Len(s) : ~Passed(MergePass(s)[n], First(n))}
<1>1. /\ Len(s) \in Nat /\ DOMAIN s = 1 .. Len(s)
      /\ \A i \in 1 .. Len(s) : s[i] \in Block
  OBVIOUS
<1>2. Bad = {}
  <2> SUFFICES ASSUME Bad # {} PROVE FALSE
    OBVIOUS
  <2>1. PICK n \in Bad : \A k \in Bad : n <= k
    <3>1. Bad \in SUBSET Nat
      BY <1>1
    <3> QED
      BY <3>1, LeastNatural
  <2>2. n # 0
    <3>1. MergePass(s)[0] = <<>> /\ First(0) = {}
      BY <1>1, PassTurns
    <3>2. Passed(<<>>, {})
      BY DEF Passed
    <3> QED
      BY <2>1, <3>1, <3>2
  <2>3. n \in 1 .. Len(s) /\ n - 1 \in 0 .. Len(s) /\ n - 1 < n
    BY <1>1, <2>1, <2>2
  <2>4. Passed(MergePass(s)[n - 1], First(n - 1))
    <3>1. n - 1 \notin Bad
      <4> HIDE DEF Bad
      <4> QED
        BY <1>1, <2>1, <2>3
    <3> HIDE DEF First
    <3> QED
      BY <2>3, <3>1
  <2>5. First(n - 1) \in SUBSET Block
    BY <1>1, <2>3
  <2>6. \A d \in First(n - 1) : d.start <= s[n].start
    BY <1>1, <2>3 DEF Sorted
  <2>7. First(n) = First(n - 1) \cup {s[n]}
    <3>1. \A i : i \in 1 .. n <=> i \in 1 .. n - 1 \/ i = n
      BY <2>3
    <3> QED
      BY <3>1
  <2>8. MergePass(s)[n] = Grow(MergePass(s)[n - 1], s[n]) /\ s[n] \in Block
    BY <1>1, <2>3, PassTurns
  <2> HIDE DEF First
  <2>9. Passed(MergePass(s)[n], First(n))
    BY <2>4, <2>5, <2>6, <2>7, <2>8, TurnKeeps
  <2> QED
    BY <2>1, <2>9
<1>3. Passed(MergePass(s)[Len(s)], First(Len(s)))
  <2>1. Len(s) \in 0 .. Len(s)
    BY <1>1
  <2> HIDE DEF First
  <2> QED
    BY <1>2, <2>1
<1>4. First(Len(s)) = Range(s) /\ Range(s) \in SUBSET Block
  BY <1>1 DEF Range
<1> HIDE DEF First
<1> DEFINE m == MergePass(s)[Len(s)]
<1>5. Passed(m, Range(s))
  BY <1>3, <1>4
<1> HIDE DEF m
<1>6. Range(m) = Coalesce(Range(s)) /\ Increasing(m)
  BY <1>4, <1>5, PassedIsCoalesce
<1>7. m \in Seq(Block)
  BY <1>5 DEF Passed
<1> QED
  BY <1>6, <1>7 DEF m

--------------------------------------------------------------------------------
(***************************************************************************)
(* The operations.                                                         *)
(***************************************************************************)

VecInv == TypeOK /\ Merged /\ VecAgrees /\ vec \in Seq(Block)

\* free_by_id: push, sort and the merge pass compute one block for each run.
LEMMA FreeAgrees ==
    ASSUME VecInv, NEW id, VecFreeStep(id)
    PROVE  VecAgrees' /\ (vec \in Seq(Block))'
<1> DEFINE s == Append(vec, used[id])
           t == SortByStart(s)
<1>1. /\ id \in DOMAIN used /\ used[id] \in Block
      /\ free' = Coalesce(free \cup {used[id]})
      /\ vec' = MergePass(t)[Len(t)]
  BY DEF VecInv, TypeOK, VecFreeStep, FreeById, VecFree
<1>2. vec \in Seq(Block) /\ Increasing(vec) /\ Range(vec) = free
  BY DEF VecInv, VecAgrees, Increasing
<1>3. t \in Seq(Block) /\ Range(t) = free \cup {used[id]} /\ Sorted(t)
  BY <1>1, <1>2, SortFacts
<1> HIDE DEF t
<1>4. vec' \in Seq(Block) /\ Range(vec') = Coalesce(free \cup {used[id]}) /\ Increasing(vec')
  BY <1>1, <1>3, MergeIsCoalesce
<1> QED
  BY <1>1, <1>4 DEF VecAgrees, Increasing

\* Two lists in order, the first before the second, are one list in order.
LEMMA InOrder ==
    ASSUME NEW s \in Seq(Block), NEW t \in Seq(Block), Increasing(s), Increasing(t),
           \A b \in Range(s), c \in Range(t) : b.start < c.start
    PROVE  /\ s \o t \in Seq(Block)
           /\ Range(s \o t) = Range(s) \cup Range(t)
           /\ Increasing(s \o t)
<1> DEFINE n == Len(s)
           m == Len(t)
           u == s \o t
<1>1. /\ n \in Nat /\ m \in Nat /\ u \in Seq(Block) /\ Len(u) = n + m
      /\ DOMAIN s = 1 .. n /\ DOMAIN t = 1 .. m /\ DOMAIN u = 1 .. n + m
  OBVIOUS
<1>2. /\ \A i \in 1 .. n : u[i] = s[i]
      /\ \A i \in n + 1 .. n + m : u[i] = t[i - n] /\ i - n \in 1 .. m
      /\ \A i \in 1 .. m : t[i] = u[i + n] /\ i + n \in 1 .. n + m
  OBVIOUS
<1> HIDE DEF n, m, u
<1>3. Range(u) = Range(s) \cup Range(t)
  <2>1. ASSUME NEW i \in 1 .. n + m PROVE u[i] \in Range(s) \cup Range(t)
    <3>1. i \in 1 .. n \/ i \in n + 1 .. n + m
      BY <1>1
    <3> QED
      BY <1>1, <1>2, <3>1 DEF Range
  <2>2. ASSUME NEW i \in 1 .. n PROVE s[i] \in Range(u)
    <3>1. i \in 1 .. n + m
      BY <1>1
    <3> QED
      BY <1>1, <1>2, <3>1 DEF Range
  <2>3. ASSUME NEW i \in 1 .. m PROVE t[i] \in Range(u)
    BY <1>1, <1>2 DEF Range
  <2> QED
    BY <1>1, <2>1, <2>2, <2>3 DEF Range
<1>4. Increasing(u)
  <2> SUFFICES ASSUME NEW j \in 1 .. n + m, NEW k \in 1 .. n + m, j < k
               PROVE  u[j].start < u[k].start
    BY <1>1 DEF Increasing
  <2>1. CASE k \in 1 .. n
    <3>1. j \in 1 .. n
      BY <1>1, <2>1
    <3> QED
      BY <1>2, <2>1, <3>1 DEF Increasing, n
  <2>2. CASE j \in 1 .. n /\ k \in n + 1 .. n + m
    BY <1>1, <1>2, <2>2 DEF Range
  <2>3. CASE j \in n + 1 .. n + m
    <3>1. k \in n + 1 .. n + m /\ j - n < k - n
      BY <1>1, <2>3
    <3> QED
      BY <1>2, <2>3, <3>1 DEF Increasing, m
  <2> QED
    BY <1>1, <2>1, <2>2, <2>3
<1> QED
  BY <1>1, <1>3, <1>4 DEF u

LEMMA KeepFacts ==
    ASSUME NEW b, b.size > 0 => b \in Block
    PROVE  /\ Keep(b) \in Seq(Block) /\ Increasing(Keep(b))
           /\ \A c : c \in Range(Keep(b)) <=> c = b /\ b.size > 0
<1>1. CASE b.size > 0
  <2>1. Keep(b) = <<b>> /\ Len(<<b>>) = 1 /\ DOMAIN <<b>> = 1 .. 1 /\ <<b>>[1] = b
    BY <1>1 DEF Keep
  <2>2. \A j \in 1 .. 1 : j = 1
    OBVIOUS
  <2> QED
    BY <1>1, <2>1, <2>2 DEF Increasing, Range
<1>2. CASE ~(b.size > 0)
  BY <1>2 DEF Keep, Increasing, Range
<1> QED
  BY <1>1, <1>2

\* A stretch of the list keeps its order.
LEMMA PartFacts ==
    ASSUME NEW v \in Seq(Block), Increasing(v),
           NEW i \in 1 .. Len(v) + 1, NEW j \in 0 .. Len(v), i <= j + 1
    PROVE  LET s == SubSeq(v, i, j)
           IN  /\ s \in Seq(Block) /\ Increasing(s)
               /\ \A c : c \in Range(s) <=> \E k \in i .. j : c = v[k]
<1> DEFINE s == SubSeq(v, i, j)
<1>1. /\ Len(v) \in Nat /\ s \in Seq(Block) /\ Len(s) = j - i + 1 /\ DOMAIN s = 1 .. j - i + 1
      /\ \A k \in 1 .. j - i + 1 : s[k] = v[i + k - 1] /\ i + k - 1 \in 1 .. Len(v)
  OBVIOUS
<1> HIDE DEF s
<1>2. Increasing(s)
  <2> SUFFICES ASSUME NEW p \in 1 .. j - i + 1, NEW q \in 1 .. j - i + 1, p < q
               PROVE  s[p].start < s[q].start
    BY <1>1 DEF Increasing
  <2>1. i + p - 1 < i + q - 1
    OBVIOUS
  <2> QED
    BY <1>1, <2>1 DEF Increasing
<1>3. ASSUME NEW c PROVE c \in Range(s) <=> \E k \in i .. j : c = v[k]
  <2>1. ASSUME NEW k \in i .. j PROVE v[k] \in Range(s)
    <3>1. k - i + 1 \in 1 .. j - i + 1 /\ i + (k - i + 1) - 1 = k
      OBVIOUS
    <3>2. s[k - i + 1] = v[i + (k - i + 1) - 1]
      BY <1>1, <3>1
    <3> QED
      BY <1>1, <3>1, <3>2 DEF Range
  <2>2. ASSUME NEW k \in 1 .. j - i + 1 PROVE i + k - 1 \in i .. j /\ s[k] = v[i + k - 1]
    BY <1>1
  <2> QED
    BY <1>1, <2>1, <2>2 DEF Range
<1> QED
  BY <1>1, <1>2, <1>3 DEF s

\* The index scan stops at the first fit of the set form.
LEMMA ScanFindsFirstFit ==
    ASSUME VecInv, NEW size, NEW b \in free, IsFirstFit(b, size)
    PROVE  FitIndex(size) \in 1 .. Len(vec) /\ vec[FitIndex(size)] = b
<1> DEFINE n == Len(vec)
           Stops(k) == Fits(vec[k], size) /\ \A j \in 1 .. k - 1 : ~Fits(vec[j], size)
<1>1. /\ n \in Nat /\ DOMAIN vec = 1 .. n /\ Range(vec) = free
      /\ \A k \in 1 .. n : vec[k] \in free /\ vec[k].start \in Nat
  <2>1. vec \in Seq(Block) /\ Range(vec) = free
    BY DEF VecInv, VecAgrees
  <2>2. n \in Nat /\ DOMAIN vec = 1 .. n /\ \A k \in 1 .. n : vec[k] \in Block
    BY <2>1
  <2> QED
    BY <2>1, <2>2 DEF Range, Block
<1>2. \A j, k \in 1 .. n : j < k => vec[j].start < vec[k].start
  BY DEF VecInv, VecAgrees
<1>3. PICK k \in 1 .. n : vec[k] = b
  BY <1>1 DEF Range
<1>4. Stops(k)
  <2>1. Fits(b, size) /\ \A c \in free : Fits(c, size) => b.start <= c.start
    BY DEF IsFirstFit
  <2>2. ASSUME NEW j \in 1 .. k - 1 PROVE ~Fits(vec[j], size)
    <3>1. j \in 1 .. n /\ j < k
      BY <1>1
    <3>2. vec[j].start < b.start /\ vec[j] \in free /\ vec[j].start \in Nat /\ b.start \in Nat
      BY <1>1, <1>2, <1>3, <3>1
    <3>3. ~(b.start <= vec[j].start)
      BY <3>2
    <3> QED
      BY <2>1, <3>2, <3>3
  <2> QED
    BY <1>3, <2>1, <2>2
<1>5. \A i \in 1 .. n : Stops(i) => i = k
  <2> SUFFICES ASSUME NEW i \in 1 .. n, Stops(i), i # k PROVE FALSE
    OBVIOUS
  <2>1. CASE i < k
    <3>1. i \in 1 .. k - 1
      BY <2>1
    <3> QED
      BY <1>4, <3>1
  <2>2. CASE k < i
    <3>1. k \in 1 .. i - 1
      BY <2>2
    <3> QED
      BY <1>4, <3>1
  <2> QED
    BY <2>1, <2>2
<1>6. FitIndex(size) = CHOOSE i \in 1 .. n : Stops(i)
  BY DEF FitIndex
<1> HIDE DEF Stops
<1>7. FitIndex(size) = k
  BY <1>4, <1>5, <1>6
<1> QED
  BY <1>3, <1>7

\* alloc: the scan and the split in place compute what the set form states.
LEMMA AllocAgrees ==
    ASSUME VecInv, NEW size \in Nat, VecAllocStep(size)
    PROVE  VecAgrees' /\ (vec \in Seq(Block))'
<1>1. PICK b \in free : /\ IsFirstFit(b, size) /\ Fits(b, size)
                        /\ free' = (free \ {b}) \cup Remainder(b, size)
  BY DEF VecAllocStep, Alloc, IsFirstFit
<1> DEFINE n == Len(vec)
           k == FitIndex(size)
           a == align_up(b.start)
           left  == [start |-> b.start, size |-> a - b.start]
           right == [start |-> a + size, size |-> End(b) - (a + size)]
           low   == SubSeq(vec, 1, k - 1)
           high  == SubSeq(vec, k + 1, n)
<1>2. k \in 1 .. n /\ vec[k] = b
  BY <1>1, ScanFindsFirstFit
<1>3. vec' = low \o Keep(left) \o Keep(right) \o high
  BY <1>2 DEF VecAllocStep, VecAlloc
<1>4. vec \in Seq(Block) /\ n \in Nat /\ Range(vec) = free /\ Increasing(vec)
      /\ DOMAIN vec = 1 .. n /\ \A i \in 1 .. n : vec[i] \in Block
  BY DEF VecInv, VecAgrees, Increasing
<1>5. /\ b \in Block /\ b.start \in Nat /\ End(b) \in Nat /\ a \in Nat /\ b.start <= a
      /\ a + size <= End(b)
  <2>1. b \in Block /\ b.start \in Nat /\ End(b) \in Nat
    BY DEF VecInv, TypeOK, Block, End
  <2> QED
    BY <1>1, <2>1, AlignUpBounds DEF Fits
<1>6. /\ left.size > 0 => left \in Block /\ b.start < a
      /\ right.size > 0 => right \in Block /\ a + size < End(b)
      /\ left.start = b.start /\ right.start = a + size
  BY <1>5 DEF Block
\* Where the other blocks lie.
<1>7. \A i \in 1 .. k - 1 : vec[i].start < b.start /\ vec[i] \in Block
  BY <1>2, <1>4 DEF Increasing
<1>8. \A i \in k + 1 .. n : b.start < vec[i].start /\ End(b) <= vec[i].start /\ vec[i] \in Block
  <2> SUFFICES ASSUME NEW i \in k + 1 .. n
               PROVE  b.start < vec[i].start /\ End(b) <= vec[i].start
    BY <1>2, <1>4
  <2>1. i \in 1 .. n /\ k < i
    BY <1>2, <1>4
  <2>2. b.start < vec[i].start /\ vec[i] \in free /\ vec[i] \in Block
    BY <1>2, <1>4, <2>1 DEF Increasing, Range
  <2>3. vec[i].start \in Nat /\ End(vec[i]) \in Nat /\ vec[i].start <= End(vec[i])
    BY <2>2 DEF Block, End
  <2>4. Before(b, vec[i]) \/ Before(vec[i], b)
    <3>1. b # vec[i]
      BY <1>5, <2>2, <2>3
    <3> QED
      BY <2>2, <3>1 DEF VecInv, Merged
  <2> QED
    BY <1>5, <2>2, <2>3, <2>4 DEF Before
<1>9. /\ low \in Seq(Block) /\ Increasing(low)
      /\ \A c : c \in Range(low) <=> \E i \in 1 .. k - 1 : c = vec[i]
  <2>1. 1 \in 1 .. n + 1 /\ k - 1 \in 0 .. n /\ 1 <= (k - 1) + 1
    BY <1>2, <1>4
  <2> HIDE DEF k
  <2> QED
    BY <1>4, <2>1, PartFacts
<1>10. /\ high \in Seq(Block) /\ Increasing(high)
       /\ \A c : c \in Range(high) <=> \E i \in k + 1 .. n : c = vec[i]
  <2>1. k + 1 \in 1 .. n + 1 /\ n \in 0 .. n /\ k + 1 <= n + 1
    BY <1>2, <1>4
  <2> HIDE DEF k
  <2> QED
    BY <1>4, <2>1, PartFacts
<1>11. /\ Keep(left) \in Seq(Block) /\ Increasing(Keep(left))
       /\ \A c : c \in Range(Keep(left)) <=> c = left /\ left.size > 0
  <2> HIDE DEF left
  <2> QED
    BY <1>6, KeepFacts
<1>12. /\ Keep(right) \in Seq(Block) /\ Increasing(Keep(right))
       /\ \A c : c \in Range(Keep(right)) <=> c = right /\ right.size > 0
  <2> HIDE DEF right
  <2> QED
    BY <1>6, KeepFacts
<1> HIDE DEF left, right, low, high, a, k
<1> DEFINE one == low \o Keep(left)
           two == one \o Keep(right)
<1>13. one \in Seq(Block) /\ Increasing(one) /\ Range(one) = Range(low) \cup Range(Keep(left))
  <2>1. \A c \in Range(low), d \in Range(Keep(left)) : c.start < d.start
    BY <1>6, <1>7, <1>9, <1>11
  <2> QED
    BY <1>9, <1>11, <2>1, InOrder
<1>14. two \in Seq(Block) /\ Increasing(two) /\ Range(two) = Range(one) \cup Range(Keep(right))
  <2>1. \A c \in Range(low) : c.start < a + size
    BY <1>5, <1>7, <1>9 DEF Block
  <2>2. \A c \in Range(Keep(left)) : c.start < a + size
    BY <1>5, <1>6, <1>11
  <2>3. \A c \in Range(one), d \in Range(Keep(right)) : c.start < d.start
    BY <1>6, <1>12, <1>13, <2>1, <2>2
  <2> HIDE DEF one
  <2> QED
    BY <1>12, <1>13, <2>3, InOrder
<1>15. vec' \in Seq(Block) /\ Increasing(vec') /\ Range(vec') = Range(two) \cup Range(high)
  <2>1. ASSUME NEW c \in Range(two), NEW i \in k + 1 .. n PROVE c.start < vec[i].start
    <3>1. vec[i].start \in Nat
      BY <1>8 DEF Block
    <3>2. CASE c \in Range(low)
      <4>1. c.start < b.start /\ c.start \in Nat
        BY <1>7, <1>9, <3>2 DEF Block
      <4>2. b.start < vec[i].start
        BY <1>8
      <4> QED
        BY <1>5, <3>1, <4>1, <4>2
    <3>3. CASE c \in Range(Keep(left))
      BY <1>6, <1>8, <1>11, <3>3
    <3>4. CASE c \in Range(Keep(right))
      BY <1>5, <1>6, <1>8, <1>12, <3>1, <3>4
    <3> QED
      BY <1>13, <1>14, <2>1, <3>2, <3>3, <3>4
  <2>2. \A c \in Range(two), d \in Range(high) : c.start < d.start
    BY <1>10, <2>1
  <2>3. vec' = two \o high
    BY <1>3
  <2> HIDE DEF two
  <2> QED
    BY <1>10, <1>14, <2>2, <2>3, InOrder
<1>16. Range(vec') = free'
  <2>1. ASSUME NEW c PROVE c \in free \ {b} <=> c \in Range(low) \/ c \in Range(high)
    <3>1. \A i \in 1 .. n : i \in 1 .. k - 1 \/ i = k \/ i \in k + 1 .. n
      BY <1>2, <1>4
    <3>2. \A i \in 1 .. k - 1 : i \in 1 .. n /\ vec[i] # b
      BY <1>2, <1>4, <1>5, <1>7
    <3>3. \A i \in k + 1 .. n : i \in 1 .. n /\ vec[i] # b
      BY <1>2, <1>4, <1>5, <1>8
    <3>4. c \in free <=> \E i \in 1 .. n : c = vec[i]
      BY <1>4 DEF Range
    <3> QED
      BY <1>2, <1>9, <1>10, <3>1, <3>2, <3>3, <3>4
  <2>2. ASSUME NEW c PROVE c \in Remainder(b, size) <=>
                           c \in Range(Keep(left)) \/ c \in Range(Keep(right))
    BY <1>11, <1>12 DEF Remainder, left, right, a
  <2>3. \A c : c \in Range(vec') <=> c \in free'
    BY <1>1, <1>13, <1>14, <1>15, <2>1, <2>2
  <2> QED
    BY <2>3
<1> QED
  BY <1>15, <1>16 DEF VecAgrees, Increasing

\* VecAgrees: the Vec, scanned by index, split in place, sorted and merged in one pass,
\* is the set form of the free list, by start.
THEOREM VecAgreesCorrect == VecSpec => []VecAgrees
<1>1. VecInit => VecInv
  <2> SUFFICES ASSUME VecInit PROVE VecInv
    OBVIOUS
  <2> DEFINE all == [start |-> 0, size |-> Total]
  <2>1. vec = <<all>> /\ free = {all} /\ all \in Block
    BY AllocatorAssumption DEF VecInit, New, Block
  <2>2. TypeOK /\ Merged
    BY <2>1, AllocatorAssumption DEF VecInit, New, TypeOK, Merged, Block
  <2> HIDE DEF all
  <2>3. Len(<<all>>) = 1 /\ DOMAIN <<all>> = 1 .. 1 /\ <<all>>[1] = all
        /\ \A i \in 1 .. 1 : i = 1
    OBVIOUS
  <2>4. VecAgrees /\ vec \in Seq(Block)
    BY <2>1, <2>3 DEF VecAgrees, Range
  <2> QED
    BY <2>2, <2>4 DEF VecInv
<1>2. VecInv /\ [VecNext]_vecVars => VecInv'
  <2> SUFFICES ASSUME VecInv, [VecNext]_vecVars PROVE VecInv'
    OBVIOUS
  <2>1. ASSUME NEW size \in Sizes, VecAllocStep(size) PROVE VecInv'
    <3>1. size \in Nat /\ Alloc(size)
      BY <2>1, AllocatorAssumption DEF VecAllocStep
    <3>2. TypeOK' /\ Merged'
      BY <3>1, AllocTypeOK, AllocMerged DEF VecInv
    <3> QED
      BY <2>1, <3>1, <3>2, AllocAgrees DEF VecInv
  <2>2. ASSUME NEW id \in 1 .. MaxId, VecFreeStep(id) PROVE VecInv'
    <3>1. TypeOK' /\ Merged'
      BY <2>2, FreeTypeOK, FreeMerged DEF VecInv, VecFreeStep
    <3> QED
      BY <2>2, <3>1, FreeAgrees DEF VecInv
  <2>3. CASE VecRenewStep
    <3> DEFINE all == [start |-> 0, size |-> Total]
    <3>1. vec' = <<all>> /\ free' = {all} /\ all \in Block
      BY <2>3, AllocatorAssumption DEF VecRenewStep, Renew, Block
    <3>2. TypeOK' /\ Merged'
      BY <2>3, <3>1, RenewTypeOK DEF VecRenewStep, Merged
    <3> HIDE DEF all
    <3>3. Len(<<all>>) = 1 /\ DOMAIN <<all>> = 1 .. 1 /\ <<all>>[1] = all
          /\ \A i \in 1 .. 1 : i = 1
      OBVIOUS
    <3>4. VecAgrees' /\ (vec \in Seq(Block))'
      BY <3>1, <3>3 DEF VecAgrees, Range
    <3> QED
      BY <3>2, <3>4 DEF VecInv
  <2>4. CASE UNCHANGED vecVars
    <3>1. UNCHANGED <<free, used, next_id, vec>>
      BY <2>4 DEF vecVars, allocVars
    <3> QED
      BY <3>1 DEF VecInv, TypeOK, Merged, VecAgrees, Range, Before, End
  <2> QED
    BY <2>1, <2>2, <2>3, <2>4 DEF VecNext
<1>3. VecInv => VecAgrees
  BY DEF VecInv
<1> QED
  BY <1>1, <1>2, <1>3, PTL DEF VecSpec
================================================================================
