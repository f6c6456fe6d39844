-------------------------- MODULE ThreadPoolProofs --------------------------
(***************************************************************************)
(* The properties of ThreadPool, for pools of any size, any number of      *)
(* calling threads, any number of iterations and any block size.           *)
(*                                                                         *)
(* A call's work is divided into units: a job of parallel_for, a block of  *)
(* the loop with a fixed block size.  The counter counts the units whose   *)
(* task has not been counted yet, and an iteration has been executed if    *)
(* and only if its unit has.  CallOK says so of a call and the tasks that  *)
(* refer to it; the lemmas about single steps are about such a pair, the   *)
(* rest of the module shows what each action does to the stacks.           *)
(***************************************************************************)
EXTENDS ThreadPool, FiniteSetTheorems, WellFoundedInduction, TLAPS

-----------------------------------------------------------------------------
(* Arithmetic *)

\* A set of naturals that is not empty has a least member.
LEMMA Least ==
  ASSUME NEW T \in SUBSET Nat, T # {}
  PROVE  \E x \in T : \A y \in T : x <= y
<1>. DEFINE R == OpToRel(<, Nat)
<1>1. IsWellFoundedOn(R, Nat)
  BY NatLessThanWellFounded
<1>2. \A y, x \in Nat : y < x => <<y, x>> \in R
  BY DEF OpToRel
<1>. HIDE DEF R
<1>3. PICK x \in T : \A y \in T : ~(<<y, x>> \in R)
  BY <1>1, WFMin
<1>4. ASSUME NEW y \in T PROVE x <= y
  <2>1. x \in Nat /\ y \in Nat
    OBVIOUS
  <2>2. ~(y < x)
    BY <2>1, <1>2, <1>3
  <2>. QED  BY <2>1, <2>2
<1>. QED  BY <1>4

\* Quotient and remainder.
LEMMA Division ==
  ASSUME NEW a \in Nat, NEW b \in Nat \ {0}
  PROVE  /\ a \div b \in Nat
         /\ a - b * (a \div b) \in 0 .. b - 1
  OBVIOUS

\* Different multiples of a number are at least that number apart.
LEMMA Multiples ==
  ASSUME NEW b \in Nat, NEW p \in Nat, NEW q \in Nat, p < q
  PROVE  b * p \in Nat /\ b * q \in Nat /\ b * p + b <= b * q
<1>1. b * (p + 1) <= b * q
  OBVIOUS
<1>2. b * (p + 1) = b * p + b
  OBVIOUS
<1>. QED  BY <1>1, <1>2

\* Where job i of a team begins, if each has m iterations and the first r one more.
StartOf(i, m, r) == i * m + min(i, r)

\* In balance211 a later job does not start before an earlier one.
LEMMA StartsGrow ==
  ASSUME NEW m \in Nat, NEW r \in Nat, NEW i \in Nat, NEW k \in Nat, i <= k
  PROVE  /\ StartOf(i, m, r) \in Nat /\ StartOf(k, m, r) \in Nat
         /\ StartOf(i, m, r) <= StartOf(k, m, r)
<1>1. m * i \in Nat /\ m * k \in Nat /\ m * i <= m * k
  <2>1. CASE i = k
    BY <2>1
  <2>2. CASE i < k
    BY <2>2, Multiples
  <2>. QED  BY <2>1, <2>2
<1>2. i * m = m * i /\ k * m = m * k
  OBVIOUS
<1>. DEFINE a == m * i  b == m * k
<1>3. StartOf(i, m, r) = a + min(i, r) /\ StartOf(k, m, r) = b + min(k, r)
  BY <1>2 DEF StartOf
<1>4. a \in Nat /\ b \in Nat /\ a <= b
  BY <1>1
<1>. HIDE DEF a, b
<1>. QED  BY <1>3, <1>4 DEF min

\* balance211 in terms of StartOf.
LEMMA Balanced ==
  ASSUME NEW n \in Nat \ {0}, NEW team \in Nat \ {0, 1}
  PROVE  \E m, r \in Nat :
           /\ StartOf(0, m, r) = 0 /\ StartOf(team, m, r) = n
           /\ \A i \in 0 .. team - 1 :
                balance211(n, team, i) = [n_start |-> StartOf(i, m, r),
                                          n_end |-> StartOf(i + 1, m, r)]
<1>. DEFINE m == n \div team
            r == n - m * team
<1>1. m \in Nat /\ n - team * m \in 0 .. team - 1
  BY Division
<1>2. m * team = team * m
  BY <1>1
<1>3. r \in 0 .. team - 1
  BY <1>1, <1>2
<1>4. ASSUME NEW i \in 0 .. team - 1
      PROVE  balance211(n, team, i) = [n_start |-> StartOf(i, m, r),
                                       n_end |-> StartOf(i + 1, m, r)]
  <2>1. balance211(n, team, i) =
          [n_start |-> i * m + min(i, r),
           n_end |-> i * m + min(i, r) + m + (IF i < r THEN 1 ELSE 0)]
    BY DEF balance211
  <2>. HIDE DEF m, r
  <2>2. (i + 1) * m = i * m + m
    BY <1>1
  <2>3. i * m \in Int
    BY <1>1
  <2>. DEFINE x == i * m
  <2>4. StartOf(i + 1, m, r) = x + m + min(i + 1, r)
    BY <2>2 DEF StartOf
  <2>5. x \in Int
    BY <2>3
  <2>. HIDE DEF x
  <2>6. x + m + min(i + 1, r) = x + min(i, r) + m + (IF i < r THEN 1 ELSE 0)
    BY <1>1, <1>3, <2>5 DEF min
  <2>. QED  BY <2>1, <2>4, <2>6 DEF StartOf, x
<1>5. StartOf(0, m, r) = 0
  <2>. HIDE DEF m, r
  <2>. QED  BY <1>1, <1>3 DEF StartOf, min
<1>6. StartOf(team, m, r) = n
  <2>1. StartOf(team, m, r) = m * team + r
    <3>. HIDE DEF m, r
    <3>. QED  BY <1>1, <1>2, <1>3 DEF StartOf, min
  <2>2. m * team \in Int
    BY <1>1
  <2>. QED  BY <2>1, <2>2
<1>7. m \in Nat /\ r \in Nat
  BY <1>1, <1>3
<1>. HIDE DEF m, r
<1>. QED  BY <1>4, <1>5, <1>6, <1>7

\* The jobs of parallel_for partition the iterations.
LEMMA JobsPartition ==
  ASSUME NEW n \in Nat, NEW njobs \in 2 .. n, NEW balance \in BOOLEAN,
         ~balance => njobs = n
  PROVE  /\ \A i \in 0 .. njobs - 1 : run_jobs(balance, i, n, njobs) \subseteq 0 .. n - 1
         /\ \A i, k \in 0 .. njobs - 1 : \A j :
              j \in run_jobs(balance, i, n, njobs) /\ j \in run_jobs(balance, k, n, njobs)
                => i = k
         /\ \A j \in 0 .. n - 1 : \E i \in 0 .. njobs - 1 :
              j \in run_jobs(balance, i, n, njobs)
<1>1. CASE ~balance
  BY <1>1 DEF run_jobs
<1>2. CASE balance
  <2>. n \in Nat \ {0} /\ njobs \in Nat \ {0, 1}
    OBVIOUS
  <2>1. PICK m, r \in Nat :
           /\ StartOf(0, m, r) = 0 /\ StartOf(njobs, m, r) = n
           /\ \A i \in 0 .. njobs - 1 :
                balance211(n, njobs, i) = [n_start |-> StartOf(i, m, r),
                                           n_end |-> StartOf(i + 1, m, r)]
    BY Balanced
  <2>. DEFINE S(i) == StartOf(i, m, r)
  <2>2. \A i \in 0 .. njobs - 1 : run_jobs(balance, i, n, njobs) = S(i) .. S(i + 1) - 1
    BY <1>2, <2>1 DEF run_jobs
  <2>3. \A i, k \in 0 .. njobs : i <= k => S(i) \in Nat /\ S(k) \in Nat /\ S(i) <= S(k)
    BY StartsGrow
  <2>4. S(0) = 0 /\ S(njobs) = n
    BY <2>1
  <2>. HIDE DEF S
  <2>5. \A i \in 0 .. njobs - 1 : run_jobs(balance, i, n, njobs) \subseteq 0 .. n - 1
    <3>. SUFFICES ASSUME NEW i \in 0 .. njobs - 1
                  PROVE  run_jobs(balance, i, n, njobs) \subseteq 0 .. n - 1
      OBVIOUS
    <3>1. S(i) \in Nat /\ S(i + 1) \in Nat /\ S(i + 1) <= S(njobs)
      BY <2>3
    <3>. QED  BY <3>1, <2>2, <2>4
  <2>6. ASSUME NEW i \in 0 .. njobs - 1, NEW k \in 0 .. njobs - 1, i < k, NEW j,
               j \in run_jobs(balance, i, n, njobs), j \in run_jobs(balance, k, n, njobs)
        PROVE  FALSE
    <3>1. S(i) \in Nat /\ S(i + 1) \in Nat /\ S(k) \in Nat /\ S(k + 1) \in Nat
          /\ S(i + 1) <= S(k)
      BY <2>3, <2>6
    <3>2. j \in S(i) .. S(i + 1) - 1 /\ j \in S(k) .. S(k + 1) - 1
      BY <2>2, <2>6
    <3>. QED  BY <3>1, <3>2
  <2>7. ASSUME NEW j \in 0 .. n - 1
        PROVE  \E i \in 0 .. njobs - 1 : j \in run_jobs(balance, i, n, njobs)
    <3>. DEFINE T == {i \in 0 .. njobs - 1 : j < S(i + 1)}
    <3>1. njobs - 1 \in T
      BY <2>4
    <3>2. PICK i \in T : \A y \in T : i <= y
      <4>1. T \in SUBSET Nat
        OBVIOUS
      <4>. HIDE DEF T
      <4>2. T # {}
        BY <3>1
      <4>. QED  BY <4>1, <4>2, Least
    <3>3. S(i) \in Nat /\ S(i + 1) \in Nat /\ j < S(i + 1)
      BY <2>3, <3>2
    <3>4. S(i) <= j
      <4>1. CASE i = 0
        BY <4>1, <2>4
      <4>2. CASE i # 0
        <5>1. i - 1 \in 0 .. njobs - 1 /\ i - 1 \notin T
          BY <4>2, <3>2
        <5>2. ~(j < S(i - 1 + 1)) /\ i - 1 + 1 = i
          BY <5>1
        <5>. QED  BY <5>2, <3>3
      <4>. QED  BY <4>1, <4>2
    <3>. QED  BY <2>2, <3>2, <3>3, <3>4
  <2>8. ASSUME NEW i \in 0 .. njobs - 1, NEW k \in 0 .. njobs - 1, NEW j,
               j \in run_jobs(balance, i, n, njobs), j \in run_jobs(balance, k, n, njobs)
        PROVE  i = k
    <3>1. ~(i < k)
      BY <2>6, <2>8
    <3>2. ~(k < i)
      BY <2>6, <2>8
    <3>. QED  BY <3>1, <3>2
  <2>. QED  BY <2>5, <2>7, <2>8
<1>. QED  BY <1>1, <1>2

\* A call that has one job executes all its iterations there.
LEMMA OneJob ==
  ASSUME NEW n \in Nat \ {0}
  PROVE  run_jobs(TRUE, 0, n, 1) = 0 .. n - 1
  BY DEF run_jobs, balance211

\* The blocks of the loop with a fixed block size, by their first iterations.
BlockStarts(n, block_size) ==
  {u \in 0 .. n - 1 : \E k \in Nat : u = block_size * k}

BlockEnd(n, block_size, u) == min(u + block_size, n)

\* Two blocks are at least the block size apart.
LEMMA BlocksApart ==
  ASSUME NEW n \in Nat, NEW bs \in Nat \ {0},
         NEW u \in BlockStarts(n, bs), NEW v \in BlockStarts(n, bs), u < v
  PROVE  u + bs <= v
<1>1. PICK k \in Nat : u = bs * k
  BY DEF BlockStarts
<1>2. PICK l \in Nat : v = bs * l
  BY DEF BlockStarts
<1>3. k < l
  <2>1. CASE k = l
    BY <2>1, <1>1, <1>2
  <2>2. CASE l < k
    <3>1. bs * l + bs <= bs * k /\ bs * l \in Nat /\ bs * k \in Nat
      BY <2>2, Multiples
    <3>. QED  BY <3>1, <1>1, <1>2
  <2>. QED  BY <2>1, <2>2
<1>4. bs * k + bs <= bs * l
  BY <1>3, Multiples
<1>. QED  BY <1>1, <1>2, <1>4

\* The blocks partition the iterations.
LEMMA BlocksPartition ==
  ASSUME NEW n \in Nat \ {0}, NEW bs \in Nat \ {0}
  PROVE  /\ 0 \in BlockStarts(n, bs)
         /\ \A u \in BlockStarts(n, bs) :
              u .. BlockEnd(n, bs, u) - 1 \subseteq 0 .. n - 1
         /\ \A u, v \in BlockStarts(n, bs) : \A j :
              /\ j \in u .. BlockEnd(n, bs, u) - 1
              /\ j \in v .. BlockEnd(n, bs, v) - 1
              => u = v
         /\ \A j \in 0 .. n - 1 : \E u \in BlockStarts(n, bs) :
              j \in u .. BlockEnd(n, bs, u) - 1
<1>1. 0 \in BlockStarts(n, bs)
  <2>1. bs * 0 = 0
    OBVIOUS
  <2>. QED  BY <2>1 DEF BlockStarts
<1>2. \A u \in BlockStarts(n, bs) : u \in 0 .. n - 1
  BY DEF BlockStarts
<1>3. \A u \in BlockStarts(n, bs) :
         u .. BlockEnd(n, bs, u) - 1 \subseteq 0 .. n - 1
  BY <1>2 DEF BlockEnd, min
<1>4. ASSUME NEW u \in BlockStarts(n, bs), NEW v \in BlockStarts(n, bs), NEW j,
             j \in u .. BlockEnd(n, bs, u) - 1, j \in v .. BlockEnd(n, bs, v) - 1
      PROVE  u = v
  <2>0. u \in Nat /\ v \in Nat /\ u <= j /\ v <= j /\ j < u + bs /\ j < v + bs /\ j \in Int
    BY <1>2, <1>4 DEF BlockEnd, min
  <2>1. ~(u < v)
    BY <2>0, BlocksApart
  <2>2. ~(v < u)
    BY <2>0, BlocksApart
  <2>. QED  BY <2>0, <2>1, <2>2
<1>5. ASSUME NEW j \in 0 .. n - 1
      PROVE  \E u \in BlockStarts(n, bs) : j \in u .. BlockEnd(n, bs, u) - 1
  <2>. DEFINE k == j \div bs
              u == bs * k
  <2>1. k \in Nat /\ j - u \in 0 .. bs - 1
    <3>1. j \in Nat
      OBVIOUS
    <3>. QED  BY <3>1, Division
  <2>2. u \in Nat
    BY <2>1
  <2>3. u \in BlockStarts(n, bs)
    <3>. HIDE DEF k
    <3>. QED  BY <2>1, <2>2 DEF BlockStarts
  <2>. HIDE DEF u
  <2>4. j \in u .. BlockEnd(n, bs, u) - 1
    BY <2>1, <2>2 DEF BlockEnd, min
  <2>. QED  BY <2>3, <2>4
<1>. QED  BY <1>1, <1>3, <1>4, <1>5

\* NumShardsUsedByFixedBlockSizeScheduling is the number of blocks.
LEMMA NumberOfBlocks ==
  ASSUME NEW n \in Nat \ {0}, NEW bs \in Nat \ {0}
  PROVE  /\ IsFiniteSet(BlockStarts(n, bs))
         /\ Cardinality(BlockStarts(n, bs)) = (n + bs - 1) \div bs
<1>. DEFINE s == (n + bs - 1) \div bs
            f == [k \in 0 .. s - 1 |-> bs * k]
<1>1. s \in Nat /\ n + bs - 1 - bs * s \in 0 .. bs - 1
  <2>. DEFINE x == n + bs - 1
  <2>1. x \in Nat
    OBVIOUS
  <2>. HIDE DEF x
  <2>2. x \div bs \in Nat /\ x - bs * (x \div bs) \in 0 .. bs - 1
    BY <2>1, Division
  <2>. QED  BY <2>2 DEF x
<1>. HIDE DEF s
<1>2. bs * s \in Nat /\ bs * s >= n /\ bs * s <= n + bs - 1
  BY <1>1
<1>3. ASSUME NEW k \in Nat PROVE bs * k \in Nat /\ (bs * k < n <=> k < s)
  <2>1. bs * k \in Nat
    OBVIOUS
  <2>2. CASE k < s
    <3>1. bs * k + bs <= bs * s
      BY <2>2, <1>1, Multiples
    <3>. QED  BY <2>1, <2>2, <3>1, <1>2
  <2>3. CASE s <= k
    <3>1. bs * s <= bs * k
      <4>1. CASE s = k
        BY <4>1, <2>1
      <4>2. CASE s < k
        <5>1. bs * s + bs <= bs * k
          BY <4>2, <1>1, Multiples
        <5>. QED  BY <5>1, <1>2, <2>1
      <4>. QED  BY <4>1, <4>2, <2>3, <1>1
    <3>. QED  BY <2>1, <2>3, <3>1, <1>1, <1>2
  <2>. QED  BY <2>1, <2>2, <2>3, <1>1
<1>4. f \in [0 .. s - 1 -> BlockStarts(n, bs)]
  <2>1. ASSUME NEW k \in 0 .. s - 1 PROVE bs * k \in BlockStarts(n, bs)
    <3>1. k \in Nat /\ k < s
      BY <1>1
    <3>2. bs * k \in Nat /\ bs * k < n
      BY <3>1, <1>3
    <3>. QED  BY <3>1, <3>2 DEF BlockStarts
  <2>. QED  BY <2>1
<1>5. \A u \in BlockStarts(n, bs) : \E k \in 0 .. s - 1 : f[k] = u
  <2>. SUFFICES ASSUME NEW u \in BlockStarts(n, bs)
                PROVE  \E k \in 0 .. s - 1 : f[k] = u
    OBVIOUS
  <2>1. PICK k \in Nat : u = bs * k /\ u < n
    BY DEF BlockStarts
  <2>2. k < s
    BY <2>1, <1>3
  <2>3. k \in 0 .. s - 1
    BY <2>2, <1>1
  <2>. QED  BY <2>1, <2>3
<1>6. \A k, l \in 0 .. s - 1 : f[k] = f[l] => k = l
  <2>. SUFFICES ASSUME NEW k \in 0 .. s - 1, NEW l \in 0 .. s - 1, bs * k = bs * l
                PROVE  k = l
    OBVIOUS
  <2>1. k \in Nat /\ l \in Nat
    BY <1>1
  <2>2. ~(k < l)
    <3>. SUFFICES ASSUME k < l PROVE FALSE
      OBVIOUS
    <3>1. bs * k + bs <= bs * l /\ bs * k \in Nat
      BY <2>1, Multiples
    <3>. QED  BY <3>1
  <2>3. ~(l < k)
    <3>. SUFFICES ASSUME l < k PROVE FALSE
      OBVIOUS
    <3>1. bs * l + bs <= bs * k /\ bs * l \in Nat
      BY <2>1, Multiples
    <3>. QED  BY <3>1
  <2>. QED  BY <2>1, <2>2, <2>3
<1>. HIDE DEF f
<1>7. f \in Bijection(0 .. s - 1, BlockStarts(n, bs))
  <2>1. f \in Injection(0 .. s - 1, BlockStarts(n, bs))
    BY <1>4, <1>6 DEF Injection, IsInjective
  <2>2. f \in Surjection(0 .. s - 1, BlockStarts(n, bs))
    BY <1>4, <1>5 DEF Surjection
  <2>. QED  BY <2>1, <2>2 DEF Bijection
<1>8. IsFiniteSet(0 .. s - 1) /\ Cardinality(0 .. s - 1) = s
  <2>1. 0 \in Int /\ s - 1 \in Int
    BY <1>1
  <2>2. IsFiniteSet(0 .. s - 1)
        /\ Cardinality(0 .. s - 1) = IF 0 > s - 1 THEN 0 ELSE s - 1 - 0 + 1
    BY <2>1, FS_Interval
  <2>. QED  BY <2>2, <1>1
<1>9. ExistsBijection(0 .. s - 1, BlockStarts(n, bs))
  BY <1>7 DEF ExistsBijection
<1>10. IsFiniteSet(BlockStarts(n, bs)) /\ Cardinality(BlockStarts(n, bs)) = s
  <2>. DEFINE I == 0 .. s - 1
  <2>1. IsFiniteSet(I) /\ Cardinality(I) = s /\ ExistsBijection(I, BlockStarts(n, bs))
    BY <1>8, <1>9
  <2>. HIDE DEF I
  <2>. QED  BY <2>1, FS_Bijection
<1>. QED  BY <1>10 DEF s

\* handle_range cuts strictly inside the range, at the start of a block.
LEMMA Midpoints ==
  ASSUME NEW n \in Nat, NEW bs \in Nat \ {0}, NEW first \in BlockStarts(n, bs),
         NEW last \in 0 .. n, last - first > bs
  PROVE  /\ Midpoint(first, last, bs) \in BlockStarts(n, bs)
         /\ first < Midpoint(first, last, bs)
         /\ Midpoint(first, last, bs) < last
<1>. DEFINE h == (last - first) \div 2
            m == (h + bs - 1) \div bs
<1>1. first \in Nat /\ first < n
  BY DEF BlockStarts
<1>2. PICK k \in Nat : first = bs * k
  BY DEF BlockStarts
<1>3. h \in Nat /\ h >= 1 /\ 2 * h <= last - first
  BY <1>1
<1>. HIDE DEF h
<1>4. m \in Nat /\ h + bs - 1 - bs * m \in 0 .. bs - 1
  <2>. DEFINE x == h + bs - 1
  <2>1. x \in Nat
    BY <1>3
  <2>. HIDE DEF x
  <2>2. x \div bs \in Nat /\ x - bs * (x \div bs) \in 0 .. bs - 1
    BY <2>1, Division
  <2>3. m = x \div bs /\ x = h + bs - 1
    BY DEF x
  <2>. HIDE DEF m
  <2>. QED  BY <1>3, <2>1, <2>2, <2>3
<1>. HIDE DEF m
<1>5. bs * m \in Nat /\ h <= bs * m /\ bs * m < h + bs
  BY <1>3, <1>4
<1>6. m # 0
  <2>1. bs * 0 = 0
    OBVIOUS
  <2>. QED  BY <2>1, <1>3, <1>5
<1>7. bs * m < last - first
  <2>1. CASE m = 1
    <3>1. bs * 1 = bs
      OBVIOUS
    <3>. QED  BY <2>1, <3>1, <1>1
  <2>2. CASE m # 1
    <3>1. 1 < m
      BY <2>2, <1>4, <1>6
    <3>2. bs * 1 + bs <= bs * m /\ bs * 1 = bs
      BY <3>1, <1>4, Multiples
    <3>. QED  BY <3>2, <1>1, <1>3, <1>5
  <2>. QED  BY <2>1, <2>2
<1>8. Midpoint(first, last, bs) = first + bs * m
  <2>1. m * bs = bs * m
    BY <1>4
  <2>. QED  BY <2>1 DEF Midpoint, m, h
<1>9. first + bs * m = bs * (k + m)
  BY <1>2, <1>4
<1>10. first + bs * m \in Nat /\ first < first + bs * m /\ first + bs * m < last
  BY <1>1, <1>3, <1>5, <1>7
<1>11. first + bs * m \in BlockStarts(n, bs)
  <2>1. k + m \in Nat
    BY <1>4
  <2>2. first + bs * m \in 0 .. n - 1
    BY <1>10
  <2>. QED  BY <1>9, <2>1, <2>2 DEF BlockStarts
<1>. QED  BY <1>8, <1>10, <1>11

-----------------------------------------------------------------------------
(* Frames *)

CallPlaces == {"schedule", "own", "wait", "lock", "sleep", "done"}
TaskPlaces == {"run", "dec", "notify", "unlock"}

Counters == [state_ : Nat, notified_ : BOOLEAN, mu_ : BOOLEAN]
Tallies == UNION {[0 .. m - 1 -> Nat] : m \in Nat}

Fors == [kind : {"for"}, n : Nat, njobs : Nat, balance : BOOLEAN, pc : CallPlaces,
         next : Nat, nested : BOOLEAN, toSchedule : Nat, ran : Tallies,
         pending_jobs : Counters]
Blocks == [kind : {"block"}, n : Nat, block_size : Nat, shards : Nat, pc : CallPlaces,
           ran : Tallies, pending_jobs : Counters]
Jobs == [kind : {"task"}, by : Threads, at : Nat \ {0}, pc : TaskPlaces,
         nested : BOOLEAN, i : Nat]
Ranges == [kind : {"task"}, by : Threads, at : Nat \ {0}, pc : TaskPlaces,
           nested : BOOLEAN, first : Nat, last : Nat]

Calls == Fors \cup Blocks
Tasks == Jobs \cup Ranges
Frame == Calls \cup Tasks

-----------------------------------------------------------------------------
(* Units of work *)

\* The numbers of a call that has something to schedule.
Shape(c) ==
  /\ c.n \in 2 .. MaxN
  /\ c.kind = "for" =>
       /\ c.njobs \in 2 .. c.n
       /\ ~c.balance => c.njobs = c.n
       /\ c.toSchedule \in c.njobs - 1 .. c.njobs
       /\ c.next \in 0 .. c.toSchedule
       /\ c.pc # "schedule" => c.next = c.toSchedule
       /\ c.pc = "own" => c.toSchedule < c.njobs
  /\ c.kind = "block" =>
       /\ c.block_size \in 1 .. c.n - 1
       /\ c.pc # "own"

AllUnits(c) ==
  IF c.kind = "for" THEN 0 .. c.njobs - 1 ELSE BlockStarts(c.n, c.block_size)

\* The iterations of a unit.
UnitWork(c, u) ==
  IF c.kind = "for" THEN run_jobs(c.balance, u, c.n, c.njobs)
  ELSE u .. BlockEnd(c.n, c.block_size, u) - 1

\* The units no task has yet, and the one the caller keeps for itself.
Unscheduled(c) ==
  IF c.pc # "schedule" THEN {}
  ELSE IF c.kind = "for" THEN c.next .. c.toSchedule - 1
  ELSE BlockStarts(c.n, c.block_size)

Own(c) ==
  IF c.kind = "for" /\ c.pc \in {"schedule", "own"}
  THEN c.toSchedule .. c.njobs - 1 ELSE {}

\* The units and the iterations of a task.
Units(c, x) ==
  IF c.kind = "for" THEN {x.i}
  ELSE {u \in BlockStarts(c.n, c.block_size) : x.first <= u /\ u < x.last}

Work(c, x) ==
  IF c.kind = "for" THEN run_jobs(c.balance, x.i, c.n, c.njobs)
  ELSE x.first .. x.last - 1

\* A task of the call: a range ends where a block does, and fn is called when one
\* block is left.
Fits(c, x) ==
  /\ c.kind = "for" => x \in Jobs /\ x.i \in 0 .. c.toSchedule - 1
  /\ c.kind = "block" =>
       /\ x \in Ranges
       /\ x.first \in BlockStarts(c.n, c.block_size)
       /\ x.last \in BlockStarts(c.n, c.block_size) \cup {c.n}
       /\ x.first < x.last
       /\ x.pc # "run" => x.last - x.first <= c.block_size

\* The units of a call, its jobs or blocks, partition its iterations, and there
\* are no more of them than iterations.
LEMMA Geometry ==
  ASSUME NEW c \in Calls, Shape(c)
  PROVE  /\ IsFiniteSet(AllUnits(c))
         /\ Cardinality(AllUnits(c)) <= c.n
         /\ \A u \in AllUnits(c) : UnitWork(c, u) \subseteq 0 .. c.n - 1
         /\ \A u, v \in AllUnits(c) : \A j :
              j \in UnitWork(c, u) /\ j \in UnitWork(c, v) => u = v
         /\ \A j \in 0 .. c.n - 1 : \E u \in AllUnits(c) : j \in UnitWork(c, u)
         /\ Unscheduled(c) \subseteq AllUnits(c)
         /\ Own(c) \subseteq AllUnits(c)
         /\ Own(c) \cap Unscheduled(c) = {}
<1>1. CASE c.kind = "for"
  <2>1. /\ c.n \in Nat /\ c.njobs \in 2 .. c.n /\ c.balance \in BOOLEAN
        /\ ~c.balance => c.njobs = c.n
        /\ c.toSchedule \in c.njobs - 1 .. c.njobs
        /\ c.next \in 0 .. c.toSchedule
    BY <1>1 DEF Shape, Calls, Fors, Blocks
  <2>2. AllUnits(c) = 0 .. c.njobs - 1
    BY <1>1 DEF AllUnits
  <2>3. \A u : UnitWork(c, u) = run_jobs(c.balance, u, c.n, c.njobs)
    BY <1>1 DEF UnitWork
  <2>4. IsFiniteSet(0 .. c.njobs - 1) /\ Cardinality(0 .. c.njobs - 1) = c.njobs
    <3>1. 0 \in Int /\ c.njobs - 1 \in Int
      BY <2>1
    <3>2. /\ IsFiniteSet(0 .. c.njobs - 1)
          /\ Cardinality(0 .. c.njobs - 1) = IF 0 > c.njobs - 1 THEN 0 ELSE c.njobs - 1 - 0 + 1
      BY <3>1, FS_Interval
    <3>. QED  BY <3>2, <2>1
  <2>5. /\ IsFiniteSet(AllUnits(c))
        /\ Cardinality(AllUnits(c)) <= c.n
    BY <2>1, <2>2, <2>4
  <2>6. /\ \A u \in AllUnits(c) : UnitWork(c, u) \subseteq 0 .. c.n - 1
        /\ \A u, v \in AllUnits(c) : \A j :
              j \in UnitWork(c, u) /\ j \in UnitWork(c, v) => u = v
        /\ \A j \in 0 .. c.n - 1 : \E u \in AllUnits(c) : j \in UnitWork(c, u)
    <3>1. /\ \A i \in 0 .. c.njobs - 1 :
               run_jobs(c.balance, i, c.n, c.njobs) \subseteq 0 .. c.n - 1
          /\ \A i, k \in 0 .. c.njobs - 1 : \A j :
               /\ j \in run_jobs(c.balance, i, c.n, c.njobs)
               /\ j \in run_jobs(c.balance, k, c.n, c.njobs)
               => i = k
          /\ \A j \in 0 .. c.n - 1 : \E i \in 0 .. c.njobs - 1 :
               j \in run_jobs(c.balance, i, c.n, c.njobs)
      <4>. DEFINE n == c.n  njobs == c.njobs  balance == c.balance
      <4>1. n \in Nat /\ njobs \in 2 .. n /\ balance \in BOOLEAN /\ (~balance => njobs = n)
        BY <2>1
      <4>. HIDE DEF n, njobs, balance
      <4>2. /\ \A i \in 0 .. njobs - 1 : run_jobs(balance, i, n, njobs) \subseteq 0 .. n - 1
            /\ \A i, k \in 0 .. njobs - 1 : \A j :
                 j \in run_jobs(balance, i, n, njobs) /\ j \in run_jobs(balance, k, n, njobs)
                   => i = k
            /\ \A j \in 0 .. n - 1 : \E i \in 0 .. njobs - 1 :
                 j \in run_jobs(balance, i, n, njobs)
        BY <4>1, JobsPartition
      <4>. QED  BY <4>2 DEF n, njobs, balance
    <3>. QED  BY <3>1, <2>2, <2>3
  <2>7. Unscheduled(c) \subseteq AllUnits(c) /\ Own(c) \subseteq AllUnits(c)
    BY <2>1, <2>2, <1>1 DEF Unscheduled, Own
  <2>8. Own(c) \cap Unscheduled(c) = {}
    BY <2>1, <1>1 DEF Unscheduled, Own
  <2>. QED  BY <2>5, <2>6, <2>7, <2>8
<1>2. CASE c.kind = "block"
  <2>1. c.n \in Nat \ {0} /\ c.block_size \in Nat \ {0} /\ c.block_size < c.n
    BY <1>2 DEF Shape, Calls, Fors, Blocks
  <2>2. AllUnits(c) = BlockStarts(c.n, c.block_size)
    BY <1>2 DEF AllUnits
  <2>3. \A u : UnitWork(c, u) = u .. BlockEnd(c.n, c.block_size, u) - 1
    BY <1>2 DEF UnitWork
  <2>4. IsFiniteSet(0 .. c.n - 1) /\ Cardinality(0 .. c.n - 1) = c.n
    <3>1. 0 \in Int /\ c.n - 1 \in Int
      BY <2>1
    <3>2. /\ IsFiniteSet(0 .. c.n - 1)
          /\ Cardinality(0 .. c.n - 1) = IF 0 > c.n - 1 THEN 0 ELSE c.n - 1 - 0 + 1
      BY <3>1, FS_Interval
    <3>. QED  BY <3>2, <2>1
  <2>5. /\ IsFiniteSet(AllUnits(c))
        /\ Cardinality(AllUnits(c)) <= c.n
    <3>1. AllUnits(c) \in SUBSET (0 .. c.n - 1)
      BY <2>2 DEF BlockStarts
    <3>. QED  BY <3>1, <2>4, FS_Subset
  <2>6. /\ \A u \in AllUnits(c) : UnitWork(c, u) \subseteq 0 .. c.n - 1
        /\ \A u, v \in AllUnits(c) : \A j :
              j \in UnitWork(c, u) /\ j \in UnitWork(c, v) => u = v
        /\ \A j \in 0 .. c.n - 1 : \E u \in AllUnits(c) : j \in UnitWork(c, u)
    <3>1. /\ \A u \in BlockStarts(c.n, c.block_size) :
               u .. BlockEnd(c.n, c.block_size, u) - 1 \subseteq 0 .. c.n - 1
          /\ \A u, v \in BlockStarts(c.n, c.block_size) : \A j :
               /\ j \in u .. BlockEnd(c.n, c.block_size, u) - 1
               /\ j \in v .. BlockEnd(c.n, c.block_size, v) - 1
               => u = v
          /\ \A j \in 0 .. c.n - 1 : \E u \in BlockStarts(c.n, c.block_size) :
               j \in u .. BlockEnd(c.n, c.block_size, u) - 1
      BY <2>1, BlocksPartition
    <3>. DEFINE W(u) == u .. BlockEnd(c.n, c.block_size, u) - 1
    <3>5. /\ \A u \in AllUnits(c) : W(u) \subseteq 0 .. c.n - 1
          /\ \A u, v \in AllUnits(c) : \A j : j \in W(u) /\ j \in W(v) => u = v
          /\ \A j \in 0 .. c.n - 1 : \E u \in AllUnits(c) : j \in W(u)
      BY <3>1, <2>2, Zenon
    <3>6. \A u : UnitWork(c, u) = W(u)
      BY <2>3
    <3>. HIDE DEF W
    <3>2. \A u \in AllUnits(c) : UnitWork(c, u) \subseteq 0 .. c.n - 1
      BY <3>5, <3>6
    <3>3. \A u, v \in AllUnits(c) : \A j :
              j \in UnitWork(c, u) /\ j \in UnitWork(c, v) => u = v
      BY <3>5, <3>6
    <3>4. \A j \in 0 .. c.n - 1 : \E u \in AllUnits(c) : j \in UnitWork(c, u)
      BY <3>5, <3>6
    <3>. QED  BY <3>2, <3>3, <3>4
  <2>7. Unscheduled(c) \subseteq AllUnits(c) /\ Own(c) = {}
    BY <2>2, <1>2 DEF Unscheduled, Own
  <2>. QED  BY <2>5, <2>6, <2>7
<1>3. c.kind \in {"for", "block"}
  BY DEF Calls, Fors, Blocks
<1>. QED  BY <1>1, <1>2, <1>3

\* A task has a unit, none that is the caller's own, and when fn is to be called
\* it has exactly one.
LEMMA TaskUnits ==
  ASSUME NEW c \in Calls, Shape(c), NEW x, Fits(c, x)
  PROVE  /\ x \in Tasks
         /\ Units(c, x) \subseteq AllUnits(c)
         /\ Units(c, x) # {}
         /\ Units(c, x) \cap Own(c) = {}
         /\ (c.kind = "block" => x.last - x.first <= c.block_size)
              => \E u : Units(c, x) = {u} /\ Work(c, x) = UnitWork(c, u)
<1>1. CASE c.kind = "for"
  <2>1. /\ c.njobs \in 2 .. c.n /\ c.n \in Nat
        /\ c.toSchedule \in c.njobs - 1 .. c.njobs
        /\ x.i \in 0 .. c.toSchedule - 1 /\ x \in Jobs
    BY <1>1 DEF Shape, Calls, Fors, Blocks, Fits
  <2>2. Units(c, x) = {x.i} /\ Work(c, x) = UnitWork(c, x.i) /\ AllUnits(c) = 0 .. c.njobs - 1
    BY <1>1 DEF Units, Work, UnitWork, AllUnits
  <2>3. x.i \notin Own(c)
    BY <2>1 DEF Own
  <2>4. x.i \in AllUnits(c)
    BY <2>1, <2>2
  <2>. QED  BY <2>1, <2>2, <2>3, <2>4, <1>1 DEF Tasks
<1>2. CASE c.kind = "block"
  <2>1. c.n \in Nat \ {0} /\ c.block_size \in Nat \ {0} /\ c.block_size < c.n
    BY <1>2 DEF Shape, Calls, Fors, Blocks
  <2>2. /\ x \in Ranges /\ x.first \in BlockStarts(c.n, c.block_size)
        /\ x.last \in BlockStarts(c.n, c.block_size) \cup {c.n}
        /\ x.first < x.last /\ x.first \in Nat /\ x.last \in Nat
    BY <1>2 DEF Fits, Ranges
  <2>3. Units(c, x) = {u \in BlockStarts(c.n, c.block_size) : x.first <= u /\ u < x.last}
    BY <1>2 DEF Units
  <2>4. AllUnits(c) = BlockStarts(c.n, c.block_size) /\ Own(c) = {}
    BY <1>2 DEF AllUnits, Own
  <2>5. x.first \in Units(c, x)
    BY <2>2, <2>3
  <2>6. ASSUME x.last - x.first <= c.block_size
        PROVE  \E u : Units(c, x) = {u} /\ Work(c, x) = UnitWork(c, u)
    <3>1. ASSUME NEW u \in Units(c, x) PROVE u = x.first
      <4>1. u \in BlockStarts(c.n, c.block_size) /\ x.first <= u /\ u < x.last /\ u \in Nat
        BY <2>3 DEF BlockStarts
      <4>2. ~(x.first < u)
        <5>. SUFFICES ASSUME x.first < u PROVE FALSE
          OBVIOUS
        <5>1. x.first + c.block_size <= u
          BY <2>1, <2>2, <4>1, BlocksApart
        <5>. QED  BY <2>1, <2>2, <2>6, <4>1, <5>1
      <4>. QED  BY <2>2, <4>1, <4>2
    <3>2. x.last = BlockEnd(c.n, c.block_size, x.first)
      <4>1. CASE x.last = c.n
        BY <2>1, <2>2, <2>6, <4>1 DEF BlockEnd, min
      <4>2. CASE x.last # c.n
        <5>1. x.last \in BlockStarts(c.n, c.block_size) /\ x.last < c.n
          BY <2>1, <2>2, <4>2 DEF BlockStarts
        <5>2. x.first + c.block_size <= x.last
          BY <5>1, <2>1, <2>2, BlocksApart
        <5>. QED  BY <5>1, <5>2, <2>1, <2>2, <2>6 DEF BlockEnd, min
      <4>. QED  BY <4>1, <4>2
    <3>3. Units(c, x) = {x.first}
      BY <2>5, <3>1
    <3>4. Work(c, x) = UnitWork(c, x.first)
      BY <1>2, <3>2 DEF Work, UnitWork
    <3>. QED  BY <3>3, <3>4
  <2>. QED  BY <1>2, <2>2, <2>3, <2>4, <2>5, <2>6 DEF Tasks
<1>3. c.kind \in {"for", "block"}
  BY DEF Calls, Fors, Blocks
<1>. QED  BY <1>1, <1>2, <1>3

-----------------------------------------------------------------------------
(* A call and its tasks *)

\* J is a function from keys, one for each place a task can be in, to tasks.
Pending(J, k) == J[k].pc \in {"run", "dec"}

Uncounted(c, J) ==
  Unscheduled(c) \cup
    {u \in AllUnits(c) : \E k \in DOMAIN J : Pending(J, k) /\ u \in Units(c, J[k])}

Unrun(c, J) ==
  Unscheduled(c) \cup Own(c) \cup
    {u \in AllUnits(c) : \E k \in DOMAIN J : J[k].pc = "run" /\ u \in Units(c, J[k])}

\* No unit is in two tasks, or in a task and still to be scheduled.
Apart(c, J) ==
  /\ \A k \in DOMAIN J : Pending(J, k) => Units(c, J[k]) \cap Unscheduled(c) = {}
  /\ \A k, l \in DOMAIN J :
       k # l /\ Pending(J, k) /\ Pending(J, l) => Units(c, J[k]) \cap Units(c, J[l]) = {}

\* The word of the counter: twice the units not counted, and the waiter flag.
Counted(c, J) ==
  c.pending_jobs.state_ =
    2 * Cardinality(Uncounted(c, J)) + (IF c.pc \in {"lock", "sleep"} THEN 1 ELSE 0)

\* An iteration has been executed once, or its unit is still to be run.
Tallied(c, J) ==
  \A u \in AllUnits(c) : \A j \in UnitWork(c, u) :
    c.ran[j] = IF u \in Unrun(c, J) THEN 0 ELSE 1

\* The task that notifies the waiter is the last one, and the waiter does not see
\* notified_ before that task has given mu_ back.
Notified(c, J) ==
  /\ \A k \in DOMAIN J : ~Pending(J, k) =>
       /\ DOMAIN J = {k} /\ Uncounted(c, J) = {}
       /\ c.pc \in {"lock", "sleep"}
       /\ J[k].pc = "notify" => ~c.pending_jobs.notified_ /\ ~c.pending_jobs.mu_
       /\ J[k].pc = "unlock" => c.pending_jobs.notified_ /\ c.pending_jobs.mu_ /\ c.pc = "lock"
  /\ c.pending_jobs.mu_ => \E k \in DOMAIN J : J[k].pc = "unlock"
  /\ c.pending_jobs.notified_ =>
       Uncounted(c, J) = {} /\ \A k \in DOMAIN J : J[k].pc = "unlock"

Busy(c, J) ==
  /\ Shape(c)
  /\ \A k \in DOMAIN J : Fits(c, J[k])
  /\ Apart(c, J)
  /\ Counted(c, J)
  /\ Tallied(c, J)
  /\ Notified(c, J)

Over(c, J) ==
  /\ DOMAIN J = {}
  /\ c.pending_jobs.state_ \in {0, 1}
  /\ \A j \in 0 .. c.n - 1 : c.ran[j] = 1

CallOK(c, J) ==
  /\ c \in Calls
  /\ c.n \in 1 .. MaxN
  /\ c.ran \in [0 .. c.n - 1 -> Nat]
  /\ IF c.pc = "done" THEN Over(c, J) ELSE Busy(c, J)

WithTask(J, k, x) == [l \in DOMAIN J \cup {k} |-> IF l = k THEN x ELSE J[l]]
WithoutTask(J, k) == [l \in DOMAIN J \ {k} |-> J[l]]

\* c and d divide the same work.
SameWork(c, d) ==
  /\ c.kind = d.kind /\ c.n = d.n
  /\ c.kind = "for" => /\ c.njobs = d.njobs /\ c.balance = d.balance
                       /\ c.toSchedule = d.toSchedule
  /\ c.kind = "block" => c.block_size = d.block_size

\* Calls that differ only in their progress have the same units.
LEMMA SameWorkSame ==
  ASSUME NEW c \in Calls, NEW d \in Calls, SameWork(c, d)
  PROVE  /\ AllUnits(c) = AllUnits(d)
         /\ \A u : UnitWork(c, u) = UnitWork(d, u)
         /\ \A x : Units(c, x) = Units(d, x) /\ (Fits(c, x) <=> Fits(d, x))
<1>1. c.kind \in {"for", "block"}
  BY DEF Calls, Fors, Blocks
<1>2. CASE c.kind = "for"
  BY <1>2 DEF SameWork, AllUnits, UnitWork, Units, Fits
<1>3. CASE c.kind = "block"
  BY <1>3 DEF SameWork, AllUnits, UnitWork, Units, Fits
<1>. QED  BY <1>1, <1>2, <1>3

\* The units not counted, and those not run, are units.
LEMMA UnitsAreUnits ==
  ASSUME NEW c \in Calls, NEW J, Shape(c)
  PROVE  /\ Uncounted(c, J) \subseteq AllUnits(c)
         /\ Unrun(c, J) \subseteq AllUnits(c)
         /\ IsFiniteSet(Uncounted(c, J))
         /\ Cardinality(Uncounted(c, J)) \in Nat
         /\ Cardinality(Uncounted(c, J)) <= c.n
<1>1. Uncounted(c, J) \subseteq AllUnits(c) /\ Unrun(c, J) \subseteq AllUnits(c)
  BY Geometry DEF Uncounted, Unrun
<1>2. /\ IsFiniteSet(Uncounted(c, J))
      /\ Cardinality(Uncounted(c, J)) \in Nat
      /\ Cardinality(Uncounted(c, J)) <= Cardinality(AllUnits(c))
  BY <1>1, Geometry, FS_Subset, FS_CardinalityType
<1>3. Cardinality(AllUnits(c)) <= c.n /\ Cardinality(AllUnits(c)) \in Nat /\ c.n \in Nat
  BY Geometry, FS_CardinalityType DEF Shape
<1>. QED  BY <1>1, <1>2, <1>3

\* Without a unit that is not counted, every task is at the end of DecrementCount.
LEMMA NothingUncounted ==
  ASSUME NEW c, NEW J, CallOK(c, J), c.pc # "done", Uncounted(c, J) = {}
  PROVE  /\ \A k \in DOMAIN J : ~Pending(J, k)
         /\ c.pc \notin {"schedule", "own"} => \A j \in 0 .. c.n - 1 : c.ran[j] = 1
<1>1. c \in Calls /\ Busy(c, J) /\ Shape(c)
  BY DEF CallOK, Busy
<1>2. ASSUME NEW k \in DOMAIN J, Pending(J, k) PROVE FALSE
  <2>1. Fits(c, J[k])
    BY <1>1 DEF Busy
  <2>2. PICK u \in Units(c, J[k]) : u \in AllUnits(c)
    BY <1>1, <2>1, TaskUnits
  <2>3. u \in Uncounted(c, J)
    BY <1>2, <2>2 DEF Uncounted
  <2>. QED  BY <2>3
<1>3. ASSUME c.pc \notin {"schedule", "own"}, NEW j \in 0 .. c.n - 1 PROVE c.ran[j] = 1
  <2>1. PICK u \in AllUnits(c) : j \in UnitWork(c, u)
    BY <1>1, Geometry
  <2>2. u \notin Unrun(c, J)
    BY <1>2, <1>3 DEF Unrun, Unscheduled, Own, Pending
  <2>. QED  BY <1>1, <2>1, <2>2 DEF Busy, Tallied
<1>. QED  BY <1>2, <1>3

-----------------------------------------------------------------------------
(* The steps of a call, on the call and its tasks *)

\* A call that has just been made has no tasks.
LEMMA NewFor ==
  ASSUME NEW n \in 1 .. MaxN, NEW num_threads \in Asked, NEW cpus \in CPUs,
         NEW J, DOMAIN J = {}
  PROVE  CallOK(ForFrame(n, num_threads, cpus), J)
         /\ ForFrame(n, num_threads, cpus).kind = "for"
<1>. DEFINE nthr == NormalizeThreadCount(num_threads)
            c == ForFrame(n, num_threads, cpus)
            serial == n <= 1 \/ c.njobs <= 1
            sched == IF nthr = cpus THEN c.njobs - 1 ELSE c.njobs
            ran0 == IF n <= 1 THEN Execute(NoIterations(n), {0})
                    ELSE IF serial
                    THEN Execute(NoIterations(n), run_jobs(c.balance, 0, n, c.njobs))
                    ELSE NoIterations(n)
<1>0. n \in Nat \ {0} /\ MaxN \in Nat /\ n <= MaxN
  BY PoolAssumption
<1>1. nthr \in Nat \ {0}
  <2>1. NumThreads \in Nat \ {0}
    <3>1. NumThreads \in Nat /\ (NumThreads = 0 <=> Workers = {})
      BY PoolAssumption, FS_CardinalityType, FS_EmptySet DEF NumThreads
    <3>. QED  BY <3>1, PoolAssumption
  <2>2. num_threads \in Int
    BY PoolAssumption
  <2>. QED  BY <2>1, <2>2 DEF NormalizeThreadCount, min
<1>2. c = [kind |-> "for", n |-> n, njobs |-> min(n, nthr), balance |-> nthr < n,
           pc |-> IF serial THEN "done" ELSE "schedule",
           next |-> 0, nested |-> FALSE, toSchedule |-> sched,
           ran |-> ran0,
           pending_jobs |-> Counter(IF serial THEN 0 ELSE sched)]
  BY DEF ForFrame
<1>3. /\ c.n = n /\ c.njobs = min(n, nthr) /\ c.balance = (nthr < n)
      /\ c.pc = (IF serial THEN "done" ELSE "schedule") /\ c.kind = "for"
      /\ c.next = 0 /\ c.toSchedule = sched /\ c.ran = ran0
      /\ c.pending_jobs = Counter(IF serial THEN 0 ELSE sched)
  BY <1>2
<1>4. c.njobs \in 1 .. n /\ c.balance \in BOOLEAN /\ (~c.balance => c.njobs = n)
      /\ sched \in c.njobs - 1 .. c.njobs /\ sched \in Nat
  <2>1. c.njobs \in 1 .. n /\ (~(nthr < n) => c.njobs = n) /\ (nthr < n) \in BOOLEAN
    <3>1. c.njobs = min(n, nthr)
      BY <1>3
    <3>. HIDE DEF c, nthr
    <3>. QED  BY <3>1, <1>0, <1>1 DEF min
  <2>2. c.balance = (nthr < n)
    BY <1>3
  <2>3. c.balance <=> nthr < n
    BY <2>2, Zenon
  <2>. HIDE DEF c, nthr
  <2>4. c.balance \in BOOLEAN
    BY <2>1, <2>2
  <2>5. sched \in c.njobs - 1 .. c.njobs /\ sched \in Nat
    BY <1>0, <2>1
  <2>. QED  BY <2>1, <2>3, <2>4, <2>5
<1>5. NoIterations(n) \in [0 .. n - 1 -> Nat] /\ \A j \in 0 .. n - 1 : NoIterations(n)[j] = 0
  BY DEF NoIterations
<1>6. ran0 \in [0 .. n - 1 -> Nat]
  BY <1>5 DEF Execute
<1>7. Counter(IF serial THEN 0 ELSE sched) \in Counters
  BY <1>4 DEF Counter, Counters
<1>8. c \in Calls
  <2>1. ran0 \in Tallies
    BY <1>0, <1>6 DEF Tallies
  <2>2. min(n, nthr) \in Nat /\ (nthr < n) \in BOOLEAN
    BY <1>0, <1>1 DEF min
  <2>. HIDE DEF ran0, sched, serial, nthr
  <2>3. c \in Fors
    BY <1>0, <1>2, <1>4, <1>7, <2>1, <2>2 DEF Fors, CallPlaces
  <2>. QED  BY <2>3 DEF Calls
<1>9. CASE serial
  <2>1. \A j \in 0 .. n - 1 : ran0[j] = 1
    <3>1. CASE n <= 1
      <4>1. n = 1
        BY <1>0, <3>1
      <4>2. ran0 = Execute(NoIterations(n), {0})
        BY <3>1
      <4>. QED  BY <4>1, <4>2, <1>5 DEF Execute
    <3>2. CASE ~(n <= 1)
      <4>1. c.njobs = 1
        BY <3>2, <1>9, <1>4, <1>0
      <4>2. c.balance = TRUE
        BY <4>1, <3>2, <1>0, <1>4
      <4>3. run_jobs(c.balance, 0, n, c.njobs) = 0 .. n - 1
        BY <4>1, <4>2, <1>0, OneJob
      <4>4. ran0 = Execute(NoIterations(n), 0 .. n - 1)
        BY <3>2, <1>9, <4>3
      <4>. HIDE DEF ran0
      <4>. QED  BY <4>4, <1>5 DEF Execute
    <3>. QED  BY <3>1, <3>2
  <2>2. c.pending_jobs.state_ = 0 /\ c.pc = "done"
    BY <1>3, <1>9 DEF Counter
  <2>. HIDE DEF c, ran0
  <2>3. Over(c, J)
    BY <2>1, <2>2, <1>3 DEF Over
  <2>4. CallOK(c, J)
    BY <2>2, <2>3, <1>0, <1>3, <1>6, <1>8 DEF CallOK
  <2>. QED  BY <2>4, <1>3 DEF c
<1>10. CASE ~serial
  <2>0. n > 1 /\ c.njobs > 1
    BY <1>10, <1>0, <1>4
  <2>1. c.pc = "schedule" /\ c.pending_jobs = Counter(sched) /\ c.ran = NoIterations(n)
    BY <1>3, <1>10, <2>0
  <2>2. Shape(c)
    BY <1>0, <1>3, <1>4, <2>0, <2>1 DEF Shape
  <2>3. Unscheduled(c) = 0 .. sched - 1 /\ Own(c) = sched .. c.njobs - 1
        /\ AllUnits(c) = 0 .. c.njobs - 1
    BY <2>1, <1>3 DEF Unscheduled, Own, AllUnits
  <2>4. Uncounted(c, J) = 0 .. sched - 1
    BY <2>3 DEF Uncounted
  <2>5. Cardinality(0 .. sched - 1) = sched
    <3>1. 0 \in Int /\ sched - 1 \in Int
      BY <1>4
    <3>. HIDE DEF sched
    <3>2. Cardinality(0 .. sched - 1) = IF 0 > sched - 1 THEN 0 ELSE sched - 1 - 0 + 1
      BY <3>1, FS_Interval
    <3>. QED  BY <3>2, <1>4
  <2>6. Counted(c, J)
    BY <2>1, <2>4, <2>5, <1>4 DEF Counted, Counter
  <2>7. \A u \in AllUnits(c) : u \in Unrun(c, J)
    <3>. HIDE DEF sched
    <3>. QED  BY <2>3, <1>4 DEF Unrun
  <2>8. Tallied(c, J)
    <3>1. \A u \in AllUnits(c) : UnitWork(c, u) \subseteq 0 .. n - 1
      BY <2>2, <1>8, <1>3, Geometry
    <3>. HIDE DEF c
    <3>. QED  BY <2>1, <2>7, <3>1, <1>5 DEF Tallied
  <2>9. Notified(c, J)
    BY <2>1 DEF Notified, Counter
  <2>10. Apart(c, J) /\ \A k \in DOMAIN J : Fits(c, J[k])
    BY DEF Apart
  <2>. HIDE DEF c, ran0
  <2>11. Busy(c, J)
    BY <2>2, <2>6, <2>8, <2>9, <2>10 DEF Busy
  <2>12. c.n \in 1 .. MaxN /\ c.ran \in [0 .. c.n - 1 -> Nat]
    BY <1>0, <1>3, <1>6
  <2>13. CallOK(c, J)
    BY <2>1, <2>11, <2>12, <1>8 DEF CallOK
  <2>. QED  BY <2>13, <1>3 DEF c
<1>. QED  BY <1>3, <1>9, <1>10

\* A call of ParallelForFixedBlockSizeScheduling begins consistent.
LEMMA NewBlock ==
  ASSUME NEW total \in 1 .. MaxN, NEW block_size \in 0 .. total, NEW J, DOMAIN J = {}
  PROVE  CallOK(BlockFrame(total, block_size), J)
         /\ BlockFrame(total, block_size).kind = "block"
<1>. DEFINE shards == NumShardsUsedByFixedBlockSizeScheduling(total, block_size)
            c == BlockFrame(total, block_size)
            serial == shards = 1
            ran0 == IF serial THEN Execute(NoIterations(total), 0 .. total - 1)
                    ELSE NoIterations(total)
<1>0. total \in Nat \ {0} /\ MaxN \in Nat /\ total <= MaxN /\ block_size \in Nat
  BY PoolAssumption
<1>1. shards \in Nat
      /\ (~serial => /\ block_size \in 1 .. total - 1 /\ total >= 2
                     /\ shards = Cardinality(BlockStarts(total, block_size)))
  <2>1. CASE block_size <= 0 \/ total <= 1 \/ total <= block_size \/ NumThreads = 1
    BY <2>1 DEF NumShardsUsedByFixedBlockSizeScheduling
  <2>2. CASE ~(block_size <= 0 \/ total <= 1 \/ total <= block_size \/ NumThreads = 1)
    <3>1. shards = (total + block_size - 1) \div block_size
      BY <2>2 DEF NumShardsUsedByFixedBlockSizeScheduling
    <3>2. block_size \in Nat \ {0} /\ block_size \in 1 .. total - 1 /\ total >= 2
      BY <2>2, <1>0
    <3>. HIDE DEF shards
    <3>3. shards = Cardinality(BlockStarts(total, block_size))
          /\ IsFiniteSet(BlockStarts(total, block_size))
      BY <3>1, <3>2, <1>0, NumberOfBlocks
    <3>4. shards \in Nat
      BY <3>3, FS_CardinalityType
    <3>. QED  BY <3>2, <3>3, <3>4 DEF shards
  <2>. QED  BY <2>1, <2>2
<1>2. c = [kind |-> "block", n |-> total, block_size |-> block_size, shards |-> shards,
           pc |-> IF serial THEN "done" ELSE "schedule", ran |-> ran0,
           pending_jobs |-> Counter(IF serial THEN 0 ELSE shards)]
  BY DEF BlockFrame
<1>. HIDE DEF shards
<1>3. /\ c.n = total /\ c.block_size = block_size /\ c.kind = "block"
      /\ c.pc = (IF serial THEN "done" ELSE "schedule") /\ c.ran = ran0
      /\ c.pending_jobs = Counter(IF serial THEN 0 ELSE shards)
  BY <1>2
<1>5. NoIterations(total) \in [0 .. total - 1 -> Nat]
      /\ \A j \in 0 .. total - 1 : NoIterations(total)[j] = 0
  BY DEF NoIterations
<1>6. ran0 \in [0 .. total - 1 -> Nat]
  BY <1>5 DEF Execute
<1>7. Counter(IF serial THEN 0 ELSE shards) \in Counters
  BY <1>1 DEF Counter, Counters
<1>8. c \in Calls
  <2>1. ran0 \in Tallies
    BY <1>0, <1>6 DEF Tallies
  <2>. HIDE DEF ran0, serial
  <2>3. c \in Blocks
    BY <1>0, <1>1, <1>2, <1>7, <2>1 DEF Blocks, CallPlaces
  <2>. QED  BY <2>3 DEF Calls
<1>9. CASE serial
  <2>1. \A j \in 0 .. total - 1 : ran0[j] = 1
    BY <1>9, <1>5 DEF Execute
  <2>2. c.pending_jobs.state_ = 0 /\ c.pc = "done"
    BY <1>3, <1>9 DEF Counter
  <2>. HIDE DEF c, ran0
  <2>3. Over(c, J)
    BY <2>1, <2>2, <1>3 DEF Over
  <2>4. CallOK(c, J)
    BY <2>2, <2>3, <1>0, <1>3, <1>6, <1>8 DEF CallOK
  <2>. QED  BY <2>4, <1>3 DEF c
<1>10. CASE ~serial
  <2>1. c.pc = "schedule" /\ c.pending_jobs = Counter(shards) /\ c.ran = NoIterations(total)
        /\ shards = Cardinality(BlockStarts(total, block_size))
    BY <1>1, <1>3, <1>10
  <2>2. Shape(c)
    BY <1>0, <1>1, <1>3, <1>10, <2>1 DEF Shape
  <2>. HIDE DEF c
  <2>3. Unscheduled(c) = BlockStarts(total, block_size)
        /\ AllUnits(c) = BlockStarts(total, block_size)
    BY <2>1, <1>3 DEF Unscheduled, AllUnits
  <2>4. Uncounted(c, J) = BlockStarts(total, block_size)
    BY <2>3 DEF Uncounted
  <2>6. Counted(c, J)
    BY <2>1, <2>4, <1>1 DEF Counted, Counter
  <2>7. \A u \in AllUnits(c) : u \in Unrun(c, J)
    BY <2>3 DEF Unrun
  <2>8. Tallied(c, J)
    <3>1. \A u \in AllUnits(c) : UnitWork(c, u) \subseteq 0 .. total - 1
      BY <2>2, <1>8, <1>3, Geometry
    <3>. QED  BY <2>1, <2>7, <3>1, <1>5 DEF Tallied
  <2>9. Notified(c, J)
    BY <2>1 DEF Notified, Counter
  <2>10. Apart(c, J) /\ \A k \in DOMAIN J : Fits(c, J[k])
    BY DEF Apart
  <2>. HIDE DEF ran0
  <2>11. Busy(c, J)
    BY <2>2, <2>6, <2>8, <2>9, <2>10 DEF Busy
  <2>12. c.n \in 1 .. MaxN /\ c.ran \in [0 .. c.n - 1 -> Nat]
    BY <1>0, <1>3, <1>6
  <2>13. CallOK(c, J)
    BY <2>1, <2>11, <2>12, <1>8 DEF CallOK
  <2>. QED  BY <2>13, <1>3 DEF c
<1>. QED  BY <1>3, <1>9, <1>10

\* A task is scheduled: units go from the call to the task.
LEMMA Scheduled ==
  ASSUME NEW c, NEW J, CallOK(c, J), c.pc = "schedule",
         NEW d \in Calls, SameWork(c, d), Shape(d), d.pc # "done",
         d.ran = c.ran, d.pending_jobs = c.pending_jobs, d.pc \notin {"lock", "sleep"},
         NEW k, k \notin DOMAIN J, NEW x, Fits(d, x), x.pc = "run",
         Units(d, x) \subseteq Unscheduled(c),
         Unscheduled(d) = Unscheduled(c) \ Units(d, x), Own(d) = Own(c)
  PROVE  CallOK(d, WithTask(J, k, x))
<1>. DEFINE K == WithTask(J, k, x)
<1>1. /\ c \in Calls /\ Busy(c, J) /\ Shape(c) /\ c.n = d.n
      /\ d.n \in 1 .. MaxN /\ d.ran \in [0 .. d.n - 1 -> Nat]
  BY DEF CallOK, Busy, SameWork
<1>2. /\ AllUnits(d) = AllUnits(c)
      /\ \A u : UnitWork(d, u) = UnitWork(c, u)
      /\ \A y : Units(d, y) = Units(c, y) /\ (Fits(d, y) <=> Fits(c, y))
  BY <1>1, SameWorkSame
<1>3. /\ DOMAIN K = DOMAIN J \cup {k} /\ K[k] = x
      /\ \A l \in DOMAIN J : K[l] = J[l] /\ l # k
  BY DEF WithTask
<1>. HIDE DEF K
<1>4. Units(c, x) \subseteq AllUnits(c) /\ Unscheduled(c) \subseteq AllUnits(c)
  BY <1>1, <1>2, Geometry
<1>5. \A l \in DOMAIN J : Pending(J, l)
  BY <1>1 DEF Busy, Notified
<1>6. \A l \in DOMAIN K : Fits(d, K[l]) /\ Pending(K, l)
  BY <1>1, <1>2, <1>3, <1>5 DEF Busy, Pending
<1>7. Apart(c, J)
  BY <1>1 DEF Busy
<1>8. Apart(d, K)
  <2>1. \A l \in DOMAIN K : Units(d, K[l]) \cap Unscheduled(d) = {}
    BY <1>2, <1>3, <1>5, <1>7 DEF Apart
  <2>2. ASSUME NEW l \in DOMAIN K, NEW m \in DOMAIN K, l # m
        PROVE  Units(d, K[l]) \cap Units(d, K[m]) = {}
    <3>1. CASE l = k
      BY <3>1, <2>2, <1>2, <1>3, <1>5, <1>7 DEF Apart
    <3>2. CASE m = k
      BY <3>2, <2>2, <1>2, <1>3, <1>5, <1>7 DEF Apart
    <3>3. CASE l # k /\ m # k
      <4>1. l \in DOMAIN J /\ m \in DOMAIN J
        BY <3>3, <1>3
      <4>2. Units(c, J[l]) \cap Units(c, J[m]) = {}
        BY <4>1, <2>2, <1>5, <1>7 DEF Apart
      <4>. QED  BY <4>1, <4>2, <1>2, <1>3
    <3>. QED  BY <3>1, <3>2, <3>3
  <2>. QED  BY <2>1, <2>2 DEF Apart
<1>9. Uncounted(d, K) = Uncounted(c, J)
  <2>1. ASSUME NEW u \in Uncounted(c, J) PROVE u \in Uncounted(d, K)
    <3>1. CASE u \in Unscheduled(c)
      <4>1. CASE u \in Units(d, x)
        BY <4>1, <1>2, <1>3, <1>4, <1>6 DEF Uncounted
      <4>2. CASE u \notin Units(d, x)
        BY <4>2, <3>1 DEF Uncounted
      <4>. QED  BY <4>1, <4>2
    <3>2. CASE u \notin Unscheduled(c)
      <4>1. PICK l \in DOMAIN J : u \in Units(c, J[l]) /\ u \in AllUnits(c)
        BY <2>1, <3>2 DEF Uncounted
      <4>. QED  BY <4>1, <1>2, <1>3, <1>6 DEF Uncounted
    <3>. QED  BY <3>1, <3>2
  <2>2. ASSUME NEW u \in Uncounted(d, K) PROVE u \in Uncounted(c, J)
    <3>1. CASE u \in Unscheduled(d)
      BY <3>1 DEF Uncounted
    <3>2. CASE u \notin Unscheduled(d)
      <4>1. PICK l \in DOMAIN K : u \in Units(d, K[l]) /\ u \in AllUnits(d)
        BY <2>2, <3>2 DEF Uncounted
      <4>2. CASE l = k
        BY <4>1, <4>2, <1>3 DEF Uncounted
      <4>3. CASE l # k
        BY <4>1, <4>3, <1>2, <1>3, <1>5 DEF Uncounted
      <4>. QED  BY <4>2, <4>3
    <3>. QED  BY <3>1, <3>2
  <2>. QED  BY <2>1, <2>2
<1>10. Unrun(d, K) = Unrun(c, J)
  <2>1. ASSUME NEW u \in Unrun(c, J) PROVE u \in Unrun(d, K)
    <3>1. CASE u \in Unscheduled(c) \cup Own(c)
      <4>1. CASE u \in Units(d, x)
        BY <4>1, <1>2, <1>3, <1>4 DEF Unrun
      <4>2. CASE u \notin Units(d, x)
        BY <4>2, <3>1 DEF Unrun
      <4>. QED  BY <4>1, <4>2
    <3>2. CASE u \notin Unscheduled(c) \cup Own(c)
      <4>1. PICK l \in DOMAIN J : u \in Units(c, J[l]) /\ u \in AllUnits(c) /\ J[l].pc = "run"
        BY <2>1, <3>2 DEF Unrun
      <4>. QED  BY <4>1, <1>2, <1>3 DEF Unrun
    <3>. QED  BY <3>1, <3>2
  <2>2. ASSUME NEW u \in Unrun(d, K) PROVE u \in Unrun(c, J)
    <3>1. CASE u \in Unscheduled(d) \cup Own(d)
      BY <3>1 DEF Unrun
    <3>2. CASE u \notin Unscheduled(d) \cup Own(d)
      <4>1. PICK l \in DOMAIN K : u \in Units(d, K[l]) /\ u \in AllUnits(d) /\ K[l].pc = "run"
        BY <2>2, <3>2 DEF Unrun
      <4>2. CASE l = k
        BY <4>1, <4>2, <1>3 DEF Unrun
      <4>3. CASE l # k
        BY <4>1, <4>3, <1>2, <1>3 DEF Unrun
      <4>. QED  BY <4>2, <4>3
    <3>. QED  BY <3>1, <3>2
  <2>. QED  BY <2>1, <2>2
<1>11. Counted(d, K)
  BY <1>1, <1>9 DEF Busy, Counted
<1>12. Tallied(d, K)
  BY <1>1, <1>2, <1>10 DEF Busy, Tallied
<1>13. Notified(d, K)
  <2>1. ~c.pending_jobs.mu_ /\ ~c.pending_jobs.notified_
    <3>1. c.pending_jobs.mu_ => \E l \in DOMAIN J : J[l].pc = "unlock"
      BY <1>1 DEF Busy, Notified
    <3>2. c.pending_jobs.notified_ =>
            Uncounted(c, J) = {} /\ \A l \in DOMAIN J : J[l].pc = "unlock"
      BY <1>1 DEF Busy, Notified
    <3>3. \A l \in DOMAIN J : J[l].pc # "unlock"
      BY <1>5 DEF Pending
    <3>4. Uncounted(c, J) # {}
      <4>1. Units(d, x) # {}
        BY TaskUnits
      <4>. QED  BY <4>1 DEF Uncounted
    <3>. QED  BY <3>1, <3>2, <3>3, <3>4
  <2>. QED  BY <1>6, <2>1 DEF Notified
<1>. QED  BY <1>1, <1>6, <1>8, <1>11, <1>12, <1>13 DEF CallOK, Busy, K

\* The call goes on and its tasks do not.
LEMMA CallMoves ==
  ASSUME NEW c, NEW J, CallOK(c, J), c.pc # "done",
         NEW d \in Calls, SameWork(c, d), Shape(d), d.pc # "done", d.ran = c.ran,
         Unscheduled(d) = Unscheduled(c), Own(d) = Own(c),
         d.pending_jobs.notified_ = c.pending_jobs.notified_,
         d.pending_jobs.mu_ = c.pending_jobs.mu_,
         c.pc \in {"lock", "sleep"} => d.pc \in {"lock", "sleep"},
         c.pending_jobs.mu_ => d.pc = c.pc,
         d.pending_jobs.state_ =
           IF c.pc \notin {"lock", "sleep"} /\ d.pc \in {"lock", "sleep"}
           THEN c.pending_jobs.state_ + 1 ELSE c.pending_jobs.state_
  PROVE  CallOK(d, J)
<1>1. /\ c \in Calls /\ Busy(c, J) /\ Shape(c) /\ c.n = d.n
      /\ d.n \in 1 .. MaxN /\ d.ran \in [0 .. d.n - 1 -> Nat]
  BY DEF CallOK, Busy, SameWork
<1>2. /\ AllUnits(d) = AllUnits(c)
      /\ \A u : UnitWork(d, u) = UnitWork(c, u)
      /\ \A y : Units(d, y) = Units(c, y) /\ (Fits(d, y) <=> Fits(c, y))
  BY <1>1, SameWorkSame
<1>3. \A k \in DOMAIN J : Fits(d, J[k])
  BY <1>1, <1>2 DEF Busy
<1>4. Apart(d, J)
  BY <1>1, <1>2 DEF Busy, Apart
<1>5. Uncounted(d, J) = Uncounted(c, J) /\ Unrun(d, J) = Unrun(c, J)
  BY <1>2 DEF Uncounted, Unrun
<1>6. Counted(d, J)
  <2>1. Cardinality(Uncounted(c, J)) \in Nat
    BY <1>1, UnitsAreUnits
  <2>2. Counted(c, J)
    BY <1>1 DEF Busy
  <2>. QED  BY <1>5, <2>1, <2>2 DEF Counted
<1>7. Tallied(d, J)
  BY <1>1, <1>2, <1>5 DEF Busy, Tallied
<1>8. Notified(d, J)
  <2>1. Notified(c, J)
    BY <1>1 DEF Busy
  <2>2. ASSUME NEW k \in DOMAIN J, ~Pending(J, k)
        PROVE  /\ DOMAIN J = {k} /\ Uncounted(d, J) = {}
               /\ d.pc \in {"lock", "sleep"}
               /\ J[k].pc = "notify" => ~d.pending_jobs.notified_ /\ ~d.pending_jobs.mu_
               /\ J[k].pc = "unlock" =>
                    d.pending_jobs.notified_ /\ d.pending_jobs.mu_ /\ d.pc = "lock"
    BY <2>1, <2>2, <1>5 DEF Notified
  <2>. QED  BY <2>1, <2>2, <1>5 DEF Notified
<1>. QED  BY <1>1, <1>3, <1>4, <1>6, <1>7, <1>8 DEF CallOK, Busy

\* The call is over when everything has been counted and no task is left.
LEMMA CallEnds ==
  ASSUME NEW c, NEW J, CallOK(c, J), c.pc \notin {"done", "schedule", "own"},
         Uncounted(c, J) = {}, DOMAIN J = {},
         NEW d \in Calls, d.n = c.n, d.ran = c.ran, d.pc = "done",
         d.pending_jobs.state_ \in {0, 1}
  PROVE  CallOK(d, J)
<1>1. \A j \in 0 .. c.n - 1 : c.ran[j] = 1
  BY NothingUncounted
<1>. QED  BY <1>1 DEF CallOK, Over

\* Wait finds the count at zero.
LEMMA WaitFindsZero ==
  ASSUME NEW c, NEW J, CallOK(c, J), c.pc = "wait", c.pending_jobs.state_ \div 2 = 0
  PROVE  Uncounted(c, J) = {} /\ DOMAIN J = {} /\ c.pending_jobs.state_ = 0
<1>1. c \in Calls /\ Busy(c, J) /\ Shape(c)
  BY DEF CallOK, Busy
<1>2. Cardinality(Uncounted(c, J)) \in Nat /\ IsFiniteSet(Uncounted(c, J))
  BY <1>1, UnitsAreUnits
<1>3. c.pending_jobs.state_ = 2 * Cardinality(Uncounted(c, J))
  BY <1>1, <1>2 DEF Busy, Counted
<1>4. Cardinality(Uncounted(c, J)) = 0 /\ c.pending_jobs.state_ = 0
  <2>. DEFINE m == Cardinality(Uncounted(c, J))
  <2>1. m \in Nat /\ (2 * m) \div 2 = 0
    BY <1>2, <1>3
  <2>. HIDE DEF m
  <2>2. m = 0
    BY <2>1
  <2>. QED  BY <2>2, <1>3 DEF m
<1>5. Uncounted(c, J) = {}
  BY <1>2, <1>4, FS_EmptySet
<1>6. DOMAIN J = {}
  BY <1>1, <1>5, NothingUncounted DEF Busy, Notified
<1>. QED  BY <1>4, <1>5, <1>6

\* The waiter, with mu_ held, finds notified_ set.
LEMMA WaitFindsNotified ==
  ASSUME NEW c, NEW J, CallOK(c, J), c.pc = "lock",
         c.pending_jobs.notified_, ~c.pending_jobs.mu_
  PROVE  Uncounted(c, J) = {} /\ DOMAIN J = {} /\ c.pending_jobs.state_ = 1
<1>1. c \in Calls /\ Busy(c, J) /\ Shape(c) /\ Notified(c, J)
  BY DEF CallOK, Busy
<1>2. Uncounted(c, J) = {} /\ \A k \in DOMAIN J : J[k].pc = "unlock"
  BY <1>1 DEF Notified
<1>3. ASSUME NEW k \in DOMAIN J PROVE FALSE
  <2>1. J[k].pc = "unlock" /\ ~Pending(J, k)
    BY <1>2 DEF Pending
  <2>. QED  BY <2>1, <1>1 DEF Notified
<1>4. c.pending_jobs.state_ = 2 * 0 + 1
  BY <1>1, <1>2, FS_EmptySet DEF Busy, Counted
<1>. QED  BY <1>2, <1>3, <1>4, SMTT(30)

\* The caller executes its own job.
LEMMA OwnJobRun ==
  ASSUME NEW c, NEW J, CallOK(c, J), c.kind = "for", c.pc = "own",
         NEW d \in Calls, SameWork(c, d), Shape(d), d.pc = "wait",
         d.pending_jobs = c.pending_jobs,
         d.ran = Execute(c.ran, run_jobs(c.balance, c.njobs - 1, c.n, c.njobs))
  PROVE  CallOK(d, J)
<1>1. /\ c \in Calls /\ Busy(c, J) /\ Shape(c) /\ c.n = d.n /\ d.kind = "for"
      /\ d.n \in 1 .. MaxN /\ c.ran \in [0 .. d.n - 1 -> Nat]
  BY DEF CallOK, Busy, SameWork
<1>2. /\ AllUnits(d) = AllUnits(c)
      /\ \A u : UnitWork(d, u) = UnitWork(c, u)
      /\ \A y : Units(d, y) = Units(c, y) /\ (Fits(d, y) <=> Fits(c, y))
  BY <1>1, SameWorkSame
<1>. DEFINE o == c.njobs - 1
<1>3. /\ c.njobs \in 2 .. c.n /\ c.toSchedule = o /\ c.n \in Nat
      /\ Own(c) = {o} /\ o \in AllUnits(c)
  <2>1. /\ c.njobs \in 2 .. c.n /\ c.n \in Nat /\ c.toSchedule \in c.njobs - 1 .. c.njobs
        /\ c.toSchedule < c.njobs
    BY <1>1 DEF Shape, Calls, Fors, Blocks
  <2>. QED  BY <2>1 DEF Own, AllUnits
<1>4. Unscheduled(c) = {} /\ Unscheduled(d) = {} /\ Own(d) = {}
  BY DEF Unscheduled, Own
<1>5. \A k \in DOMAIN J : Fits(d, J[k]) /\ Units(c, J[k]) \cap Own(c) = {}
  BY <1>1, <1>2, TaskUnits DEF Busy
<1>6. d.ran \in [0 .. d.n - 1 -> Nat]
      /\ \A j \in 0 .. d.n - 1 :
           d.ran[j] = IF j \in UnitWork(c, o) THEN c.ran[j] + 1 ELSE c.ran[j]
  <2>1. UnitWork(c, o) = run_jobs(c.balance, c.njobs - 1, c.n, c.njobs)
    BY DEF UnitWork
  <2>. HIDE DEF o
  <2>2. d.ran = [j \in 0 .. d.n - 1 |-> c.ran[j] + (IF j \in UnitWork(c, o) THEN 1 ELSE 0)]
    BY <1>1, <2>1 DEF Execute
  <2>. QED  BY <1>1, <2>2
<1>. HIDE DEF o
<1>7. Apart(d, J)
  BY <1>1, <1>2, <1>4 DEF Busy, Apart
<1>8. Uncounted(d, J) = Uncounted(c, J)
  BY <1>2, <1>4 DEF Uncounted
<1>9. \A u : u \in Unrun(d, J) <=> u \in Unrun(c, J) /\ u # o
  BY <1>2, <1>3, <1>4, <1>5 DEF Unrun
<1>10. Counted(d, J)
  BY <1>1, <1>8 DEF Busy, Counted
<1>11. Tallied(d, J)
  <2>. SUFFICES ASSUME NEW u \in AllUnits(d), NEW j \in UnitWork(d, u)
                PROVE  d.ran[j] = IF u \in Unrun(d, J) THEN 0 ELSE 1
    BY DEF Tallied
  <2>1. u \in AllUnits(c) /\ j \in UnitWork(c, u)
    BY <1>2
  <2>2. j \in 0 .. d.n - 1
    BY <2>1, <1>1, Geometry
  <2>3. c.ran[j] = IF u \in Unrun(c, J) THEN 0 ELSE 1
    BY <2>1, <1>1 DEF Busy, Tallied
  <2>4. CASE u = o
    <3>1. o \in Unrun(c, J)
      BY <1>3 DEF Unrun
    <3>. QED  BY <2>1, <2>2, <2>3, <2>4, <3>1, <1>6, <1>9
  <2>5. CASE u # o
    <3>1. j \notin UnitWork(c, o)
      BY <2>1, <2>5, <1>1, <1>3, Geometry
    <3>. QED  BY <2>1, <2>2, <2>3, <2>5, <3>1, <1>6, <1>9
  <2>. QED  BY <2>4, <2>5
<1>12. Notified(d, J)
  <2>1. Notified(c, J)
    BY <1>1 DEF Busy
  <2>. QED  BY <2>1, <1>8 DEF Notified
<1>. QED  BY <1>1, <1>5, <1>6, <1>7, <1>10, <1>11, <1>12 DEF CallOK, Busy

\* A call with a task is not over.
LEMMA HasTask ==
  ASSUME NEW c, NEW J, CallOK(c, J), NEW k \in DOMAIN J
  PROVE  /\ c \in Calls /\ c.pc # "done" /\ Busy(c, J) /\ Shape(c)
         /\ Fits(c, J[k]) /\ J[k] \in Tasks
<1>1. c \in Calls /\ c.pc # "done" /\ Busy(c, J) /\ Shape(c) /\ Fits(c, J[k])
  BY DEF CallOK, Over, Busy
<1>. QED  BY <1>1, TaskUnits

\* A task moves to another place, or changes in nothing that matters here.
LEMMA TaskMoves ==
  ASSUME NEW c, NEW J, CallOK(c, J), NEW k \in DOMAIN J, NEW l, l \notin DOMAIN J \ {k},
         NEW x, Fits(c, x), x.pc = J[k].pc, Units(c, x) = Units(c, J[k])
  PROVE  CallOK(c, WithTask(WithoutTask(J, k), l, x))
<1>. DEFINE K == WithTask(WithoutTask(J, k), l, x)
<1>1. c \in Calls /\ c.pc # "done" /\ Busy(c, J) /\ Shape(c)
  BY HasTask
<1>2. /\ DOMAIN K = (DOMAIN J \ {k}) \cup {l} /\ K[l] = x
      /\ \A m \in DOMAIN J \ {k} : K[m] = J[m] /\ m # l /\ m \in DOMAIN K
  BY DEF WithTask, WithoutTask
<1>. HIDE DEF K
<1>3. \A m \in DOMAIN K : Fits(c, K[m])
  BY <1>1, <1>2 DEF Busy
<1>4. \A m \in DOMAIN K : m # l => m \in DOMAIN J \ {k}
  BY <1>2
<1>5. Apart(c, K)
  <2>1. Apart(c, J)
    BY <1>1 DEF Busy
  <2>2. \A m \in DOMAIN K : Pending(K, m) => Units(c, K[m]) \cap Unscheduled(c) = {}
    BY <2>1, <1>2, <1>4 DEF Apart, Pending
  <2>3. ASSUME NEW m \in DOMAIN K, NEW o \in DOMAIN K, m # o, Pending(K, m), Pending(K, o)
        PROVE  Units(c, K[m]) \cap Units(c, K[o]) = {}
    <3>1. CASE m = l
      <4>1. o \in DOMAIN J \ {k} /\ Pending(J, o) /\ Pending(J, k) /\ K[o] = J[o]
        BY <2>3, <3>1, <1>2, <1>4 DEF Pending
      <4>2. Units(c, J[k]) \cap Units(c, J[o]) = {}
        BY <4>1, <2>1 DEF Apart
      <4>. QED  BY <4>1, <4>2, <3>1, <1>2
    <3>2. CASE o = l
      <4>1. m \in DOMAIN J \ {k} /\ Pending(J, m) /\ Pending(J, k) /\ K[m] = J[m]
        BY <2>3, <3>2, <1>2, <1>4 DEF Pending
      <4>2. Units(c, J[k]) \cap Units(c, J[m]) = {}
        BY <4>1, <2>1 DEF Apart
      <4>. QED  BY <4>1, <4>2, <3>2, <1>2
    <3>3. CASE m # l /\ o # l
      <4>1. m \in DOMAIN J /\ o \in DOMAIN J /\ K[m] = J[m] /\ K[o] = J[o]
            /\ Pending(J, m) /\ Pending(J, o)
        BY <2>3, <3>3, <1>2, <1>4 DEF Pending
      <4>. QED  BY <4>1, <2>1, <2>3 DEF Apart
    <3>. QED  BY <3>1, <3>2, <3>3
  <2>. QED  BY <2>2, <2>3 DEF Apart
<1>6. /\ \A u, p : (\E m \in DOMAIN K : K[m].pc = p /\ u \in Units(c, K[m]))
                 <=> (\E m \in DOMAIN J : J[m].pc = p /\ u \in Units(c, J[m]))
  <2>1. ASSUME NEW u, NEW p, NEW m \in DOMAIN K, K[m].pc = p, u \in Units(c, K[m])
        PROVE  \E o \in DOMAIN J : J[o].pc = p /\ u \in Units(c, J[o])
    <3>1. CASE m = l
      BY <3>1, <2>1, <1>2
    <3>2. CASE m # l
      BY <3>2, <2>1, <1>2, <1>4
    <3>. QED  BY <3>1, <3>2
  <2>2. ASSUME NEW u, NEW p, NEW m \in DOMAIN J, J[m].pc = p, u \in Units(c, J[m])
        PROVE  \E o \in DOMAIN K : K[o].pc = p /\ u \in Units(c, K[o])
    <3>1. CASE m = k
      BY <3>1, <2>2, <1>2
    <3>2. CASE m # k
      BY <3>2, <2>2, <1>2
    <3>. QED  BY <3>1, <3>2
  <2>. QED  BY <2>1, <2>2
<1>7. Uncounted(c, K) = Uncounted(c, J)
  <2>1. \A u : (\E m \in DOMAIN K : Pending(K, m) /\ u \in Units(c, K[m]))
                 <=> (\E m \in DOMAIN J : Pending(J, m) /\ u \in Units(c, J[m]))
    BY <1>6 DEF Pending
  <2>. QED  BY <2>1 DEF Uncounted
<1>8. Unrun(c, K) = Unrun(c, J)
  BY <1>6 DEF Unrun
<1>9. Counted(c, K) /\ Tallied(c, K)
  BY <1>1, <1>7, <1>8 DEF Busy, Counted, Tallied
<1>10. Notified(c, K)
  <2>1. Notified(c, J)
    BY <1>1 DEF Busy
  <2>2. \A m \in DOMAIN K : \E o \in DOMAIN J : J[o].pc = K[m].pc /\ (DOMAIN J = {o} => DOMAIN K = {m})
    <3>. SUFFICES ASSUME NEW m \in DOMAIN K
                  PROVE  \E o \in DOMAIN J : J[o].pc = K[m].pc
                                             /\ (DOMAIN J = {o} => DOMAIN K = {m})
      OBVIOUS
    <3>1. CASE m = l
      BY <3>1, <1>2
    <3>2. CASE m # l
      BY <3>2, <1>2, <1>4
    <3>. QED  BY <3>1, <3>2
  <2>3. \A o \in DOMAIN J : \E m \in DOMAIN K : J[o].pc = K[m].pc
    BY <1>2
  <2>4. ASSUME NEW m \in DOMAIN K, ~Pending(K, m)
        PROVE  /\ DOMAIN K = {m} /\ Uncounted(c, K) = {}
               /\ c.pc \in {"lock", "sleep"}
               /\ K[m].pc = "notify" => ~c.pending_jobs.notified_ /\ ~c.pending_jobs.mu_
               /\ K[m].pc = "unlock" =>
                    c.pending_jobs.notified_ /\ c.pending_jobs.mu_ /\ c.pc = "lock"
    <3>1. PICK o \in DOMAIN J : J[o].pc = K[m].pc /\ (DOMAIN J = {o} => DOMAIN K = {m})
      BY <2>2
    <3>2. ~Pending(J, o)
      BY <2>4, <3>1 DEF Pending
    <3>. QED  BY <2>1, <3>1, <3>2, <1>7 DEF Notified
  <2>5. c.pending_jobs.mu_ => \E m \in DOMAIN K : K[m].pc = "unlock"
    BY <2>1, <2>3 DEF Notified
  <2>6. c.pending_jobs.notified_ =>
          Uncounted(c, K) = {} /\ \A m \in DOMAIN K : K[m].pc = "unlock"
    BY <2>1, <2>2, <1>7 DEF Notified
  <2>. QED  BY <2>4, <2>5, <2>6 DEF Notified
<1>. QED  BY <1>1, <1>3, <1>5, <1>9, <1>10 DEF CallOK, Busy, K

\* A task is split in two that are not both without work.
LEMMA TaskSplits ==
  ASSUME NEW c, NEW J, CallOK(c, J), NEW k \in DOMAIN J, J[k].pc = "run",
         NEW l, l \notin DOMAIN J, NEW x, Fits(c, x), x.pc = "run",
         NEW y, Fits(c, y), y.pc = "run",
         Units(c, x) \cup Units(c, y) = Units(c, J[k]),
         Units(c, x) \cap Units(c, y) = {}
  PROVE  CallOK(c, WithTask(WithTask(J, k, x), l, y))
<1>. DEFINE K == WithTask(WithTask(J, k, x), l, y)
<1>1. c \in Calls /\ c.pc # "done" /\ Busy(c, J) /\ Shape(c)
  BY HasTask
<1>2. /\ DOMAIN K = DOMAIN J \cup {l} /\ K[l] = y /\ K[k] = x /\ k # l
      /\ \A m \in DOMAIN J \ {k} : K[m] = J[m] /\ m # l
  BY DEF WithTask
<1>. HIDE DEF K
<1>3. \A m \in DOMAIN K : Fits(c, K[m])
  BY <1>1, <1>2 DEF Busy
<1>4. \A m \in DOMAIN K : m # l /\ m # k => m \in DOMAIN J \ {k}
  BY <1>2
<1>5. Pending(J, k)
  BY DEF Pending
<1>6. Apart(c, J)
  BY <1>1 DEF Busy
<1>7. Apart(c, K)
  <2>2. \A m \in DOMAIN K : Pending(K, m) => Units(c, K[m]) \cap Unscheduled(c) = {}
    BY <1>2, <1>4, <1>5, <1>6 DEF Apart, Pending
  <2>4. ASSUME NEW m \in DOMAIN J \ {k}, Pending(K, m)
        PROVE  Units(c, K[m]) \cap Units(c, x) = {} /\ Units(c, K[m]) \cap Units(c, y) = {}
    <3>1. Pending(J, m) /\ K[m] = J[m]
      BY <2>4, <1>2 DEF Pending
    <3>2. Units(c, J[m]) \cap Units(c, J[k]) = {}
      BY <3>1, <1>5, <1>6 DEF Apart
    <3>. QED  BY <3>1, <3>2
  <2>3. ASSUME NEW m \in DOMAIN K, NEW o \in DOMAIN K, m # o, Pending(K, m), Pending(K, o)
        PROVE  Units(c, K[m]) \cap Units(c, K[o]) = {}
    <3>1. CASE m \in {k, l} /\ o \in {k, l}
      BY <3>1, <2>3, <1>2
    <3>2. CASE m \in {k, l} /\ o \notin {k, l}
      BY <3>2, <2>3, <2>4, <1>2, <1>4
    <3>3. CASE m \notin {k, l} /\ o \in {k, l}
      BY <3>3, <2>3, <2>4, <1>2, <1>4
    <3>4. CASE m \notin {k, l} /\ o \notin {k, l}
      <4>1. m \in DOMAIN J /\ o \in DOMAIN J /\ K[m] = J[m] /\ K[o] = J[o]
            /\ Pending(J, m) /\ Pending(J, o)
        BY <2>3, <3>4, <1>2, <1>4 DEF Pending
      <4>. QED  BY <4>1, <1>6, <2>3 DEF Apart
    <3>. QED  BY <3>1, <3>2, <3>3, <3>4
  <2>. QED  BY <2>2, <2>3 DEF Apart
<1>8. /\ \A u, p : (\E m \in DOMAIN K : K[m].pc = p /\ u \in Units(c, K[m]))
                 <=> (\E m \in DOMAIN J : J[m].pc = p /\ u \in Units(c, J[m]))
  <2>1. ASSUME NEW u, NEW p, NEW m \in DOMAIN K, K[m].pc = p, u \in Units(c, K[m])
        PROVE  \E o \in DOMAIN J : J[o].pc = p /\ u \in Units(c, J[o])
    <3>1. CASE m \in {k, l}
      BY <3>1, <2>1, <1>2
    <3>2. CASE m \notin {k, l}
      BY <3>2, <2>1, <1>2, <1>4
    <3>. QED  BY <3>1, <3>2
  <2>2. ASSUME NEW u, NEW p, NEW m \in DOMAIN J, J[m].pc = p, u \in Units(c, J[m])
        PROVE  \E o \in DOMAIN K : K[o].pc = p /\ u \in Units(c, K[o])
    <3>1. CASE m = k
      BY <3>1, <2>2, <1>2
    <3>2. CASE m # k
      BY <3>2, <2>2, <1>2
    <3>. QED  BY <3>1, <3>2
  <2>. QED  BY <2>1, <2>2
<1>9. Uncounted(c, K) = Uncounted(c, J)
  <2>1. \A u : (\E m \in DOMAIN K : Pending(K, m) /\ u \in Units(c, K[m]))
                 <=> (\E m \in DOMAIN J : Pending(J, m) /\ u \in Units(c, J[m]))
    BY <1>8 DEF Pending
  <2>. QED  BY <2>1 DEF Uncounted
<1>10. Unrun(c, K) = Unrun(c, J)
  BY <1>8 DEF Unrun
<1>11. Counted(c, K) /\ Tallied(c, K)
  BY <1>1, <1>9, <1>10 DEF Busy, Counted, Tallied
<1>12. Notified(c, K)
  <2>1. Notified(c, J)
    BY <1>1 DEF Busy
  <2>2. \A m \in DOMAIN J : Pending(J, m)
    BY <2>1, <1>5 DEF Notified
  <2>3. \A m \in DOMAIN K : Pending(K, m)
    BY <2>2, <1>2, <1>4 DEF Pending
  <2>4. ~c.pending_jobs.mu_ /\ ~c.pending_jobs.notified_
    BY <2>1, <2>2, <1>5 DEF Notified, Pending
  <2>. QED  BY <2>3, <2>4 DEF Notified
<1>. QED  BY <1>1, <1>3, <1>7, <1>11, <1>12 DEF CallOK, Busy, K

\* fn is called for the iterations of a task.
LEMMA TaskRuns ==
  ASSUME NEW c, NEW J, CallOK(c, J), NEW k \in DOMAIN J, J[k].pc = "run",
         c.kind = "block" => J[k].last - J[k].first <= c.block_size,
         NEW d \in Calls, SameWork(c, d), Shape(d), d.pc = c.pc,
         d.pending_jobs = c.pending_jobs, d.ran = Execute(c.ran, Work(c, J[k])),
         Unscheduled(d) = Unscheduled(c), Own(d) = Own(c),
         NEW x, Fits(d, x), x.pc = "dec", Units(c, x) = Units(c, J[k])
  PROVE  CallOK(d, WithTask(J, k, x))
<1>. DEFINE K == WithTask(J, k, x)
<1>1. /\ c \in Calls /\ c.pc # "done" /\ Busy(c, J) /\ Shape(c) /\ Fits(c, J[k])
      /\ c.n = d.n /\ d.n \in 1 .. MaxN /\ c.ran \in [0 .. d.n - 1 -> Nat]
  BY HasTask DEF CallOK, SameWork
<1>2. /\ AllUnits(d) = AllUnits(c)
      /\ \A u : UnitWork(d, u) = UnitWork(c, u)
      /\ \A y : Units(d, y) = Units(c, y) /\ (Fits(d, y) <=> Fits(c, y))
  BY <1>1, SameWorkSame
<1>3. /\ DOMAIN K = DOMAIN J /\ K[k] = x
      /\ \A m \in DOMAIN J \ {k} : K[m] = J[m]
  BY DEF WithTask
<1>. HIDE DEF K
<1>4. \A m \in DOMAIN J : Pending(J, m) <=> Pending(K, m)
  BY <1>3 DEF Pending
<1>5. \A m \in DOMAIN J : Units(c, K[m]) = Units(c, J[m]) /\ Fits(d, K[m])
  BY <1>1, <1>2, <1>3 DEF Busy
<1>6. Apart(d, K)
  BY <1>1, <1>2, <1>3, <1>4, <1>5 DEF Busy, Apart
<1>7. Uncounted(d, K) = Uncounted(c, J)
  BY <1>2, <1>3, <1>4, <1>5 DEF Uncounted
<1>8. PICK v : Units(c, J[k]) = {v} /\ Work(c, J[k]) = UnitWork(c, v)
  BY <1>1, TaskUnits
<1>9. v \in AllUnits(c) /\ v \notin Unscheduled(c) /\ v \notin Own(c) /\ v \in Unrun(c, J)
      /\ \A m \in DOMAIN J \ {k} : Pending(J, m) => v \notin Units(c, J[m])
  <2>1. v \in AllUnits(c) /\ v \notin Own(c)
    BY <1>1, <1>8, TaskUnits
  <2>2. Pending(J, k) /\ Apart(c, J)
    BY <1>1 DEF Pending, Busy
  <2>3. v \notin Unscheduled(c) /\ \A m \in DOMAIN J \ {k} : Pending(J, m) => v \notin Units(c, J[m])
    BY <2>2, <1>8 DEF Apart
  <2>. QED  BY <2>1, <2>3, <1>8 DEF Unrun
<1>10. \A u : u \in Unrun(d, K) <=> u \in Unrun(c, J) /\ u # v
  <2>1. ASSUME NEW u PROVE u \in Unrun(d, K) => u \in Unrun(c, J) /\ u # v
    BY <1>2, <1>3, <1>8, <1>9 DEF Unrun, Pending
  <2>2. ASSUME NEW u \in Unrun(c, J), u # v PROVE u \in Unrun(d, K)
    <3>1. CASE u \in Unscheduled(c) \cup Own(c)
      BY <3>1 DEF Unrun
    <3>2. CASE u \notin Unscheduled(c) \cup Own(c)
      <4>1. PICK m \in DOMAIN J : J[m].pc = "run" /\ u \in Units(c, J[m]) /\ u \in AllUnits(c)
        BY <3>2, <2>2 DEF Unrun
      <4>2. m # k
        BY <4>1, <2>2, <1>8
      <4>. QED  BY <4>1, <4>2, <1>2, <1>3 DEF Unrun
    <3>. QED  BY <3>1, <3>2
  <2>. QED  BY <2>1, <2>2
<1>11. d.ran \in [0 .. d.n - 1 -> Nat]
       /\ \A j \in 0 .. d.n - 1 :
            d.ran[j] = IF j \in UnitWork(c, v) THEN c.ran[j] + 1 ELSE c.ran[j]
  <2>2. d.ran = [j \in 0 .. d.n - 1 |-> c.ran[j] + (IF j \in UnitWork(c, v) THEN 1 ELSE 0)]
    BY <1>1, <1>8 DEF Execute
  <2>. DEFINE W == UnitWork(c, v)  r == c.ran  n == d.n
  <2>3. d.ran = [j \in 0 .. n - 1 |-> r[j] + (IF j \in W THEN 1 ELSE 0)]
        /\ r \in [0 .. n - 1 -> Nat]
    BY <1>1, <2>2
  <2>. HIDE DEF W, r, n
  <2>4. d.ran \in [0 .. n - 1 -> Nat]
        /\ \A j \in 0 .. n - 1 : d.ran[j] = IF j \in W THEN r[j] + 1 ELSE r[j]
    BY <2>3
  <2>. QED  BY <2>4 DEF W, r, n
<1>12. Counted(d, K)
  BY <1>1, <1>7 DEF Busy, Counted
<1>13. Tallied(d, K)
  <2>. SUFFICES ASSUME NEW u \in AllUnits(d), NEW j \in UnitWork(d, u)
                PROVE  d.ran[j] = IF u \in Unrun(d, K) THEN 0 ELSE 1
    BY DEF Tallied
  <2>1. u \in AllUnits(c) /\ j \in UnitWork(c, u)
    BY <1>2
  <2>2. j \in 0 .. d.n - 1
    BY <2>1, <1>1, Geometry
  <2>3. c.ran[j] = IF u \in Unrun(c, J) THEN 0 ELSE 1
    BY <2>1, <1>1 DEF Busy, Tallied
  <2>4. CASE u = v
    BY <2>1, <2>2, <2>3, <2>4, <1>9, <1>10, <1>11
  <2>5. CASE u # v
    <3>1. j \notin UnitWork(c, v)
      BY <2>1, <2>5, <1>1, <1>9, Geometry
    <3>. QED  BY <2>1, <2>2, <2>3, <2>5, <3>1, <1>10, <1>11
  <2>. QED  BY <2>4, <2>5
<1>14. Notified(d, K)
  <2>1. Notified(c, J)
    BY <1>1 DEF Busy
  <2>2. \A m \in DOMAIN J : Pending(J, m)
    BY <2>1 DEF Notified, Pending
  <2>3. \A m \in DOMAIN K : Pending(K, m)
    BY <2>2, <1>3, <1>4
  <2>4. ~c.pending_jobs.mu_ /\ ~c.pending_jobs.notified_
    BY <2>1, <2>2 DEF Notified, Pending
  <2>. QED  BY <2>3, <2>4 DEF Notified
<1>. QED  BY <1>1, <1>3, <1>5, <1>6, <1>11, <1>12, <1>13, <1>14 DEF CallOK, Busy, K

\* Task k has been counted between (c, J) and (d, L), and has ended or goes on to
\* notify the waiter.
CountsTask(c, J, k, d, L) ==
  /\ CallOK(c, J) /\ k \in DOMAIN J /\ J[k].pc = "dec"
  /\ d \in Calls /\ SameWork(c, d) /\ Shape(d)
  /\ Unscheduled(d) = Unscheduled(c) /\ Own(d) = Own(c)
  /\ DOMAIN J \ {k} \subseteq DOMAIN L /\ DOMAIN L \subseteq DOMAIN J
  /\ \A m \in DOMAIN J \ {k} : L[m] = J[m]
  /\ k \in DOMAIN L => L[k].pc = "notify"

\* What that does to the count.
OneLess(c, J, k, d, L) ==
  /\ Cardinality(Uncounted(c, J)) \in Nat
  /\ Cardinality(Uncounted(d, L)) = Cardinality(Uncounted(c, J)) - 1
  /\ Cardinality(Uncounted(d, L)) = 0 => Uncounted(d, L) = {} /\ DOMAIN J = {k}
  /\ Unrun(d, L) = Unrun(c, J)
  /\ \A m \in DOMAIN J : Pending(J, m)
  /\ ~c.pending_jobs.mu_ /\ ~c.pending_jobs.notified_

\* A task that has counted its unit leaves one uncounted unit less.
LEMMA UnitCounted ==
  ASSUME NEW c, NEW J, NEW k, NEW d, NEW L, CountsTask(c, J, k, d, L)
  PROVE  OneLess(c, J, k, d, L)
<1>. /\ CallOK(c, J) /\ k \in DOMAIN J /\ J[k].pc = "dec"
     /\ d \in Calls /\ SameWork(c, d) /\ Shape(d)
     /\ Unscheduled(d) = Unscheduled(c) /\ Own(d) = Own(c)
     /\ DOMAIN J \ {k} \subseteq DOMAIN L /\ DOMAIN L \subseteq DOMAIN J
     /\ \A m \in DOMAIN J \ {k} : L[m] = J[m]
     /\ k \in DOMAIN L => L[k].pc = "notify"
  BY DEF CountsTask
<1>1. c \in Calls /\ c.pc # "done" /\ Busy(c, J) /\ Shape(c) /\ Fits(c, J[k])
  BY HasTask
<1>2. /\ AllUnits(d) = AllUnits(c)
      /\ \A u : UnitWork(d, u) = UnitWork(c, u)
      /\ \A y : Units(d, y) = Units(c, y) /\ (Fits(d, y) <=> Fits(c, y))
  BY <1>1, SameWorkSame
<1>3. c.kind = "block" => J[k].last - J[k].first <= c.block_size
  BY <1>1 DEF Fits
<1>4. PICK v : Units(c, J[k]) = {v}
  BY <1>1, <1>3, TaskUnits
<1>5. Pending(J, k) /\ Apart(c, J) /\ Notified(c, J)
  BY <1>1 DEF Pending, Busy
<1>6. v \in AllUnits(c) /\ v \in Uncounted(c, J) /\ v \notin Unscheduled(c)
      /\ \A m \in DOMAIN J \ {k} : Pending(J, m) => v \notin Units(c, J[m])
  <2>1. v \in AllUnits(c)
    BY <1>1, <1>4, TaskUnits
  <2>. QED  BY <2>1, <1>4, <1>5 DEF Apart, Uncounted
<1>7. Uncounted(d, L) = Uncounted(c, J) \ {v}
  <2>1. ASSUME NEW u \in Uncounted(d, L) PROVE u \in Uncounted(c, J) /\ u # v
    <3>1. CASE u \in Unscheduled(d)
      BY <3>1, <1>6 DEF Uncounted
    <3>2. CASE u \notin Unscheduled(d)
      <4>1. PICK m \in DOMAIN L : Pending(L, m) /\ u \in Units(d, L[m]) /\ u \in AllUnits(d)
        BY <3>2, <2>1 DEF Uncounted
      <4>2. m # k
        BY <4>1 DEF Pending
      <4>3. m \in DOMAIN J /\ Pending(J, m) /\ u \in Units(c, J[m])
        BY <4>1, <4>2, <1>2 DEF Pending
      <4>. QED  BY <4>1, <4>2, <4>3, <1>2, <1>6 DEF Uncounted
    <3>. QED  BY <3>1, <3>2
  <2>2. ASSUME NEW u \in Uncounted(c, J), u # v PROVE u \in Uncounted(d, L)
    <3>1. CASE u \in Unscheduled(c)
      BY <3>1 DEF Uncounted
    <3>2. CASE u \notin Unscheduled(c)
      <4>1. PICK m \in DOMAIN J : Pending(J, m) /\ u \in Units(c, J[m]) /\ u \in AllUnits(c)
        BY <3>2, <2>2 DEF Uncounted
      <4>2. m # k
        BY <4>1, <2>2, <1>4
      <4>3. m \in DOMAIN L /\ Pending(L, m) /\ u \in Units(d, L[m])
        BY <4>1, <4>2, <1>2 DEF Pending
      <4>. QED  BY <4>1, <4>3, <1>2 DEF Uncounted
    <3>. QED  BY <3>1, <3>2
  <2>. QED  BY <2>1, <2>2
<1>8. IsFiniteSet(Uncounted(c, J)) /\ Cardinality(Uncounted(c, J)) \in Nat
  BY <1>1, UnitsAreUnits
<1>9. /\ Cardinality(Uncounted(d, L)) = Cardinality(Uncounted(c, J)) - 1
      /\ Cardinality(Uncounted(d, L)) \in Nat /\ IsFiniteSet(Uncounted(d, L))
  BY <1>6, <1>7, <1>8, FS_RemoveElement, FS_CardinalityType
<1>10. \A m \in DOMAIN J : Pending(J, m)
  BY <1>5 DEF Notified
<1>11. ASSUME Cardinality(Uncounted(d, L)) = 0
       PROVE  Uncounted(d, L) = {} /\ DOMAIN J = {k}
  <2>1. Uncounted(d, L) = {}
    BY <1>9, <1>11, FS_EmptySet
  <2>2. ASSUME NEW m \in DOMAIN J, m # k PROVE FALSE
    <3>1. m \in DOMAIN L /\ L[m] = J[m] /\ Pending(L, m) /\ Fits(c, J[m])
      BY <2>2, <1>1, <1>10 DEF Busy, Pending
    <3>2. PICK u \in Units(c, J[m]) : u \in AllUnits(c)
      BY <3>1, <1>1, TaskUnits
    <3>3. u \in Uncounted(d, L)
      BY <3>1, <3>2, <1>2 DEF Uncounted
    <3>. QED  BY <3>3, <2>1
  <2>. QED  BY <2>1, <2>2
<1>12. Unrun(d, L) = Unrun(c, J)
  <2>1. \A u : (\E m \in DOMAIN L : L[m].pc = "run" /\ u \in Units(d, L[m]))
                 <=> (\E m \in DOMAIN J : J[m].pc = "run" /\ u \in Units(c, J[m]))
    <3>1. \A m \in DOMAIN L : L[m].pc = "run" => m \in DOMAIN J \ {k}
      OBVIOUS
    <3>2. \A m \in DOMAIN J : J[m].pc = "run" => m \in DOMAIN J \ {k}
      OBVIOUS
    <3>. QED  BY <3>1, <3>2, <1>2
  <2>. QED  BY <2>1, <1>2 DEF Unrun
<1>13. ~c.pending_jobs.mu_ /\ ~c.pending_jobs.notified_
  BY <1>5, <1>10 DEF Notified, Pending
<1>. QED  BY <1>8, <1>9, <1>10, <1>11, <1>12, <1>13 DEF OneLess

\* A decrement that is not the last one, or finds no waiter: the task ends.
LEMMA TaskEnds ==
  ASSUME NEW c, NEW J, CallOK(c, J), NEW k \in DOMAIN J, J[k].pc = "dec",
         NEW d \in Calls, SameWork(c, d), Shape(d), d.pc = c.pc, d.ran = c.ran,
         Unscheduled(d) = Unscheduled(c), Own(d) = Own(c),
         d.pending_jobs.state_ = c.pending_jobs.state_ - 2,
         d.pending_jobs.notified_ = c.pending_jobs.notified_,
         d.pending_jobs.mu_ = c.pending_jobs.mu_
  PROVE  CallOK(d, WithoutTask(J, k))
<1>. DEFINE K == WithoutTask(J, k)
<1>1. /\ c \in Calls /\ c.pc # "done" /\ Busy(c, J) /\ Shape(c)
      /\ c.n = d.n /\ d.n \in 1 .. MaxN /\ d.ran \in [0 .. d.n - 1 -> Nat]
  BY HasTask DEF CallOK, SameWork
<1>2. /\ AllUnits(d) = AllUnits(c)
      /\ \A u : UnitWork(d, u) = UnitWork(c, u)
      /\ \A y : Units(d, y) = Units(c, y) /\ (Fits(d, y) <=> Fits(c, y))
  BY <1>1, SameWorkSame
<1>3. DOMAIN K = DOMAIN J \ {k} /\ \A m \in DOMAIN J \ {k} : K[m] = J[m]
  BY DEF WithoutTask
<1>. HIDE DEF K
<1>4. /\ Cardinality(Uncounted(c, J)) \in Nat
      /\ Cardinality(Uncounted(d, K)) = Cardinality(Uncounted(c, J)) - 1
      /\ Unrun(d, K) = Unrun(c, J)
      /\ \A m \in DOMAIN J : Pending(J, m)
      /\ ~c.pending_jobs.mu_ /\ ~c.pending_jobs.notified_
  <2>1. CountsTask(c, J, k, d, K)
    BY <1>3 DEF CountsTask
  <2>2. OneLess(c, J, k, d, K)
    BY <2>1, UnitCounted, Zenon
  <2>. QED  BY <2>2 DEF OneLess
<1>5. \A m \in DOMAIN K : Fits(d, K[m]) /\ Pending(K, m)
  BY <1>1, <1>2, <1>3, <1>4 DEF Busy, Pending
<1>6. Apart(d, K)
  BY <1>1, <1>2, <1>3, <1>4 DEF Busy, Apart, Pending
<1>7. Counted(d, K)
  <2>1. Counted(c, J)
    BY <1>1 DEF Busy
  <2>. DEFINE a == Cardinality(Uncounted(c, J))  b == Cardinality(Uncounted(d, K))
              f == IF c.pc \in {"lock", "sleep"} THEN 1 ELSE 0
  <2>2. a \in Nat /\ b = a - 1 /\ c.pending_jobs.state_ = 2 * a + f /\ f \in Nat
    BY <1>4, <2>1 DEF Counted
  <2>. HIDE DEF a, b, f
  <2>3. d.pending_jobs.state_ = 2 * b + f
    BY <2>2
  <2>. QED  BY <2>3 DEF Counted, b, f
<1>8. Tallied(d, K)
  BY <1>1, <1>2, <1>4 DEF Busy, Tallied
<1>9. Notified(d, K)
  BY <1>4, <1>5 DEF Notified
<1>. QED  BY <1>1, <1>5, <1>6, <1>7, <1>8, <1>9 DEF CallOK, Busy, K

\* The decrement that leaves only the waiter flag.
LEMMA LastTask ==
  ASSUME NEW c, NEW J, CallOK(c, J), NEW k \in DOMAIN J, J[k].pc = "dec",
         NEW d \in Calls, SameWork(c, d), Shape(d), d.pc = c.pc, d.ran = c.ran,
         Unscheduled(d) = Unscheduled(c), Own(d) = Own(c),
         d.pending_jobs.state_ = c.pending_jobs.state_ - 2,
         c.pending_jobs.state_ - 2 = 1,
         d.pending_jobs.notified_ = c.pending_jobs.notified_,
         d.pending_jobs.mu_ = c.pending_jobs.mu_,
         NEW x, Fits(d, x), x.pc = "notify", c.pending_jobs.state_ \in Nat
  PROVE  CallOK(d, WithTask(J, k, x))
<1>. DEFINE K == WithTask(J, k, x)
<1>1. /\ c \in Calls /\ c.pc # "done" /\ Busy(c, J) /\ Shape(c)
      /\ c.n = d.n /\ d.n \in 1 .. MaxN /\ d.ran \in [0 .. d.n - 1 -> Nat]
  BY HasTask DEF CallOK, SameWork
<1>2. /\ AllUnits(d) = AllUnits(c)
      /\ \A u : UnitWork(d, u) = UnitWork(c, u)
      /\ \A y : Units(d, y) = Units(c, y) /\ (Fits(d, y) <=> Fits(c, y))
  BY <1>1, SameWorkSame
<1>3. DOMAIN K = DOMAIN J /\ K[k] = x /\ \A m \in DOMAIN J \ {k} : K[m] = J[m]
  BY DEF WithTask
<1>. HIDE DEF K
<1>4. /\ Cardinality(Uncounted(c, J)) \in Nat
      /\ Cardinality(Uncounted(d, K)) = Cardinality(Uncounted(c, J)) - 1
      /\ Cardinality(Uncounted(d, K)) = 0 => Uncounted(d, K) = {} /\ DOMAIN J = {k}
      /\ Unrun(d, K) = Unrun(c, J)
      /\ \A m \in DOMAIN J : Pending(J, m)
      /\ ~c.pending_jobs.mu_ /\ ~c.pending_jobs.notified_
  <2>1. CountsTask(c, J, k, d, K)
    BY <1>3 DEF CountsTask
  <2>2. OneLess(c, J, k, d, K)
    BY <2>1, UnitCounted, Zenon
  <2>. QED  BY <2>2 DEF OneLess
<1>5. Cardinality(Uncounted(d, K)) = 0 /\ c.pc \in {"lock", "sleep"}
  <2>1. Counted(c, J)
    BY <1>1 DEF Busy
  <2>. DEFINE a == Cardinality(Uncounted(c, J))  b == Cardinality(Uncounted(d, K))
  <2>2. a \in Nat /\ b = a - 1
        /\ c.pending_jobs.state_ = 2 * a + (IF c.pc \in {"lock", "sleep"} THEN 1 ELSE 0)
    BY <1>4, <2>1 DEF Counted
  <2>. HIDE DEF a, b
  <2>3. b = 0 /\ c.pc \in {"lock", "sleep"}
    BY <2>2
  <2>. QED  BY <2>3 DEF b
<1>6. Uncounted(d, K) = {} /\ DOMAIN K = {k} /\ DOMAIN J = {k}
  BY <1>3, <1>4, <1>5
<1>7. \A m \in DOMAIN K : Fits(d, K[m]) /\ ~Pending(K, m)
  BY <1>3, <1>6 DEF Pending
<1>8. Apart(d, K)
  BY <1>7 DEF Apart
<1>9. Counted(d, K)
  BY <1>5 DEF Counted
<1>10. Tallied(d, K)
  BY <1>1, <1>2, <1>4 DEF Busy, Tallied
<1>11. Notified(d, K)
  BY <1>3, <1>4, <1>5, <1>6 DEF Notified
<1>. QED  BY <1>1, <1>7, <1>8, <1>9, <1>10, <1>11 DEF CallOK, Busy, K

\* The last task takes mu_, sets notified_ and wakes the waiter.
LEMMA TaskNotifies ==
  ASSUME NEW c, NEW J, CallOK(c, J), NEW k \in DOMAIN J, J[k].pc = "notify",
         NEW d \in Calls, SameWork(c, d), Shape(d), d.ran = c.ran, d.pc = "lock",
         Unscheduled(d) = Unscheduled(c), Own(d) = Own(c),
         d.pending_jobs.state_ = c.pending_jobs.state_,
         d.pending_jobs.notified_ = TRUE, d.pending_jobs.mu_ = TRUE,
         NEW x, Fits(d, x), x.pc = "unlock"
  PROVE  CallOK(d, WithTask(J, k, x))
<1>. DEFINE K == WithTask(J, k, x)
<1>1. /\ c \in Calls /\ c.pc # "done" /\ Busy(c, J) /\ Shape(c)
      /\ c.n = d.n /\ d.n \in 1 .. MaxN /\ d.ran \in [0 .. d.n - 1 -> Nat]
  BY HasTask DEF CallOK, SameWork
<1>2. /\ AllUnits(d) = AllUnits(c)
      /\ \A u : UnitWork(d, u) = UnitWork(c, u)
      /\ \A y : Units(d, y) = Units(c, y) /\ (Fits(d, y) <=> Fits(c, y))
  BY <1>1, SameWorkSame
<1>3. DOMAIN K = DOMAIN J /\ K[k] = x
  BY DEF WithTask
<1>. HIDE DEF K
<1>4. /\ DOMAIN J = {k} /\ Uncounted(c, J) = {} /\ c.pc \in {"lock", "sleep"}
  BY <1>1 DEF Busy, Notified, Pending
<1>5. \A m \in DOMAIN K : K[m] = x /\ ~Pending(K, m)
  BY <1>3, <1>4 DEF Pending
<1>6. Uncounted(d, K) = {} /\ Unscheduled(c) = {}
  BY <1>4, <1>5 DEF Uncounted
<1>7. Unrun(d, K) = Unrun(c, J)
  BY <1>2, <1>3, <1>4 DEF Unrun
<1>8. Apart(d, K)
  BY <1>5 DEF Apart
<1>9. Counted(d, K)
  BY <1>1, <1>4, <1>6 DEF Busy, Counted
<1>10. Tallied(d, K)
  BY <1>1, <1>2, <1>7 DEF Busy, Tallied
<1>11. Notified(d, K)
  BY <1>3, <1>4, <1>5, <1>6 DEF Notified
<1>. QED  BY <1>1, <1>5, <1>8, <1>9, <1>10, <1>11 DEF CallOK, Busy, K

\* The last task gives mu_ back and ends.
LEMMA TaskUnlocks ==
  ASSUME NEW c, NEW J, CallOK(c, J), NEW k \in DOMAIN J, J[k].pc = "unlock",
         NEW d \in Calls, SameWork(c, d), Shape(d), d.ran = c.ran, d.pc = c.pc,
         Unscheduled(d) = Unscheduled(c), Own(d) = Own(c),
         d.pending_jobs.state_ = c.pending_jobs.state_,
         d.pending_jobs.mu_ = FALSE
  PROVE  CallOK(d, WithoutTask(J, k))
<1>. DEFINE K == WithoutTask(J, k)
<1>1. /\ c \in Calls /\ c.pc # "done" /\ Busy(c, J) /\ Shape(c)
      /\ c.n = d.n /\ d.n \in 1 .. MaxN /\ d.ran \in [0 .. d.n - 1 -> Nat]
  BY HasTask DEF CallOK, SameWork
<1>2. /\ AllUnits(d) = AllUnits(c)
      /\ \A u : UnitWork(d, u) = UnitWork(c, u)
      /\ \A y : Units(d, y) = Units(c, y) /\ (Fits(d, y) <=> Fits(c, y))
  BY <1>1, SameWorkSame
<1>3. DOMAIN K = DOMAIN J \ {k}
  BY DEF WithoutTask
<1>. HIDE DEF K
<1>4. DOMAIN J = {k} /\ Uncounted(c, J) = {} /\ c.pc = "lock"
  BY <1>1 DEF Busy, Notified, Pending
<1>5. DOMAIN K = {}
  BY <1>3, <1>4
<1>6. Uncounted(d, K) = {}
  BY <1>4, <1>5 DEF Uncounted
<1>7. Unrun(d, K) = Unrun(c, J)
  BY <1>2, <1>4, <1>5 DEF Unrun
<1>8. Apart(d, K)
  BY <1>5 DEF Apart
<1>9. Counted(d, K)
  BY <1>1, <1>4, <1>6 DEF Busy, Counted
<1>10. Tallied(d, K)
  BY <1>1, <1>2, <1>7 DEF Busy, Tallied
<1>11. Notified(d, K)
  BY <1>5, <1>6 DEF Notified
<1>. QED  BY <1>1, <1>4, <1>5, <1>8, <1>9, <1>10, <1>11 DEF CallOK, Busy, K

-----------------------------------------------------------------------------
(* The inductive invariant *)

\* The place of a task: in the queue, or at a depth of a thread's stack.
InQueue(x) == <<"queue", x>>
OnStack(t, d) == <<"stack", <<t, d>>>>

IsTaskOf(x, b, a) == x.kind = "task" /\ x.by = b /\ x.at = a

\* The tasks of the call at depth a of thread b, by their places.
PlacesOf(s, q, b, a) ==
  {InQueue(x) : x \in {y \in q : IsTaskOf(y, b, a)}} \cup
  UNION {{OnStack(t, d) : d \in {e \in DOMAIN s[t] : IsTaskOf(s[t][e], b, a)}} : t \in Threads}

TasksOf(s, q, b, a) ==
  [k \in PlacesOf(s, q, b, a) |->
     IF k[1] = "queue" THEN k[2] ELSE s[k[2][1]][k[2][2]]]

Stacks == [Threads -> Seq(Frame)]

\* A task refers to a call.
HasCall(s, x) == x.at \in DOMAIN s[x.by] /\ s[x.by][x.at].kind # "task"

Queued(s, q) ==
  \A x \in q : x \in Tasks /\ x.pc = "run" /\ HasCall(s, x)

\* How deep which frames are: calls are nested up to MaxDepth, and the ranges split
\* off on one thread move to the right.
Placed(s, t, d) ==
  LET f == s[t][d]
  IN  /\ f.kind # "task" => d <= MaxDepth
      /\ f \in Jobs => d <= MaxDepth + 1
      /\ f \in Ranges => d <= MaxDepth + f.first + 1
      /\ f.kind = "task" => HasCall(s, f)

CallsOK(s, q) ==
  \A b \in Threads : \A a \in DOMAIN s[b] :
    s[b][a].kind # "task" => CallOK(s[b][a], TasksOf(s, q, b, a))

Sound(s, q) ==
  /\ s \in Stacks
  /\ Queued(s, q)
  /\ \A t \in Threads : \A d \in DOMAIN s[t] : Placed(s, t, d)

Good(s, q) == Sound(s, q) /\ CallsOK(s, q)

IInv == Good(stack, queue)

-----------------------------------------------------------------------------
(* Stacks *)

\* A frame is a call or a task, never both.
LEMMA FramesDistinct ==
  /\ \A f \in Calls : f.kind \in {"for", "block"} /\ f.kind # "task"
  /\ \A f \in Tasks : f.kind = "task" /\ f.by \in Threads /\ f.at \in Nat \ {0}
                      /\ f.pc \in TaskPlaces
  /\ \A f \in Frame : f.kind # "task" => f \in Calls
  /\ \A f \in Frame : f.kind = "task" => f \in Tasks
  BY DEF Frame, Calls, Tasks, Fors, Blocks, Jobs, Ranges

\* A frame is replaced.
Replace(s, t, d, f) == [s EXCEPT ![t][d] = f]

\* Replacing a frame leaves all others.
LEMMA ReplaceFrame ==
  ASSUME NEW s \in Stacks, NEW t \in Threads, NEW d \in DOMAIN s[t], NEW f \in Frame
  PROVE  LET r == Replace(s, t, d, f)
         IN  /\ r \in Stacks
             /\ \A u \in Threads : DOMAIN r[u] = DOMAIN s[u] /\ Len(r[u]) = Len(s[u])
             /\ r[t][d] = f
             /\ \A u \in Threads : \A e \in DOMAIN s[u] :
                  u # t \/ e # d => r[u][e] = s[u][e]
<1>. DEFINE r == Replace(s, t, d, f)
<1>1. s[t] \in Seq(Frame)
  BY DEF Stacks
<1>2. DEFINE w == [s[t] EXCEPT ![d] = f]
<1>3. w \in Seq(Frame) /\ DOMAIN w = DOMAIN s[t] /\ Len(w) = Len(s[t]) /\ w[d] = f
      /\ \A e \in DOMAIN s[t] : e # d => w[e] = s[t][e]
  BY <1>1
<1>4. r = [s EXCEPT ![t] = w]
  BY DEF Replace
<1>. HIDE DEF w, r
<1>5. r \in Stacks /\ r[t] = w /\ \A u \in Threads : u # t => r[u] = s[u]
  BY <1>3, <1>4 DEF Stacks
<1>6. /\ \A u \in Threads : DOMAIN r[u] = DOMAIN s[u] /\ Len(r[u]) = Len(s[u])
      /\ r[t][d] = f
      /\ \A u \in Threads : \A e \in DOMAIN s[u] : u # t \/ e # d => r[u][e] = s[u][e]
  BY <1>3, <1>5
<1>. QED  BY <1>5, <1>6 DEF r

\* A frame is pushed.
LEMMA PushFrame ==
  ASSUME NEW s \in Stacks, NEW t \in Threads, NEW f \in Frame
  PROVE  LET r == Push(s, t, f)
         IN  /\ r \in Stacks
             /\ Len(s[t]) \in Nat /\ Len(r[t]) = Len(s[t]) + 1
             /\ Len(s[t]) + 1 \notin DOMAIN s[t] /\ Len(s[t]) + 1 \in Nat \ {0}
             /\ DOMAIN r[t] = DOMAIN s[t] \cup {Len(s[t]) + 1}
             /\ r[t][Len(s[t]) + 1] = f
             /\ \A u \in Threads : u # t => r[u] = s[u]
             /\ \A u \in Threads : \A e \in DOMAIN s[u] :
                  e \in DOMAIN r[u] /\ r[u][e] = s[u][e]
<1>. DEFINE r == Push(s, t, f)
<1>1. s[t] \in Seq(Frame)
  BY DEF Stacks
<1>2. DEFINE w == Append(s[t], f)
<1>3. w \in Seq(Frame) /\ Len(w) = Len(s[t]) + 1 /\ w[Len(s[t]) + 1] = f /\ Len(s[t]) \in Nat
      /\ DOMAIN s[t] = 1 .. Len(s[t]) /\ DOMAIN w = 1 .. Len(s[t]) + 1
      /\ \A e \in DOMAIN s[t] : w[e] = s[t][e]
  BY <1>1
<1>4. r = [s EXCEPT ![t] = w]
  BY DEF Push
<1>. HIDE DEF w, r
<1>5. r \in Stacks /\ r[t] = w /\ \A u \in Threads : u # t => r[u] = s[u]
  BY <1>3, <1>4 DEF Stacks
<1>6. DOMAIN r[t] = DOMAIN s[t] \cup {Len(s[t]) + 1} /\ Len(s[t]) + 1 \notin DOMAIN s[t]
      /\ Len(s[t]) + 1 \in Nat \ {0}
  BY <1>3, <1>5
<1>7. \A u \in Threads : \A e \in DOMAIN s[u] : e \in DOMAIN r[u] /\ r[u][e] = s[u][e]
  BY <1>3, <1>5, <1>6
<1>. QED  BY <1>3, <1>5, <1>6, <1>7 DEF r

\* The innermost frame is popped.
LEMMA PopFrame ==
  ASSUME NEW s \in Stacks, NEW t \in Threads, s[t] # <<>>
  PROVE  LET r == Pop(s, t)
         IN  /\ r \in Stacks
             /\ Len(s[t]) \in DOMAIN s[t]
             /\ DOMAIN r[t] = DOMAIN s[t] \ {Len(s[t])}
             /\ \A u \in Threads : u # t => r[u] = s[u]
             /\ \A u \in Threads : \A e \in DOMAIN r[u] :
                  e \in DOMAIN s[u] /\ r[u][e] = s[u][e]
<1>. DEFINE r == Pop(s, t)
<1>1. s[t] \in Seq(Frame)
  BY DEF Stacks
<1>2. DEFINE w == Front(s[t])
<1>3. Len(s[t]) \in Nat /\ Len(s[t]) >= 1 /\ DOMAIN s[t] = 1 .. Len(s[t])
  BY <1>1
<1>4. w \in Seq(Frame)
  BY <1>1, <1>3 DEF Front
<1>5. Len(w) = Len(s[t]) - 1
  BY <1>1, <1>3 DEF Front
<1>6. \A e \in 1 .. Len(s[t]) - 1 : w[e] = s[t][e]
  BY <1>1, <1>3 DEF Front
<1>7. r = [s EXCEPT ![t] = w]
  BY DEF Pop
<1>. HIDE DEF w, r
<1>8. r \in Stacks /\ r[t] = w /\ \A u \in Threads : u # t => r[u] = s[u]
  BY <1>4, <1>7 DEF Stacks
<1>9. DOMAIN w = 1 .. Len(s[t]) - 1
  BY <1>3, <1>4, <1>5
<1>10. DOMAIN r[t] = DOMAIN s[t] \ {Len(s[t])} /\ Len(s[t]) \in DOMAIN s[t]
  BY <1>3, <1>8, <1>9
<1>11. \A u \in Threads : \A e \in DOMAIN r[u] : e \in DOMAIN s[u] /\ r[u][e] = s[u][e]
  BY <1>3, <1>6, <1>8, <1>9
<1>. QED  BY <1>8, <1>10, <1>11 DEF r

-----------------------------------------------------------------------------
(* The tasks of a call *)

\* Different places are different.
LEMMA PlacesDistinct ==
  /\ \A x, y : InQueue(x) = InQueue(y) => x = y
  /\ \A t, d, u, e : OnStack(t, d) = OnStack(u, e) => t = u /\ d = e
  /\ \A x, t, d : InQueue(x) # OnStack(t, d)
  BY DEF InQueue, OnStack

\* The tasks of a call are found by looking at the queue and all stacks.
LEMMA TasksAre ==
  ASSUME NEW s, NEW q, NEW b, NEW a
  PROVE  LET J == TasksOf(s, q, b, a)
         IN  /\ J = [k \in DOMAIN J |-> J[k]]
             /\ \A k : k \in DOMAIN J <=>
                  \/ \E x \in q : IsTaskOf(x, b, a) /\ k = InQueue(x)
                  \/ \E t \in Threads : \E d \in DOMAIN s[t] :
                       IsTaskOf(s[t][d], b, a) /\ k = OnStack(t, d)
             /\ \A x : InQueue(x) \in DOMAIN J => J[InQueue(x)] = x
             /\ \A t, d : OnStack(t, d) \in DOMAIN J => J[OnStack(t, d)] = s[t][d]
<1>. DEFINE J == TasksOf(s, q, b, a)
<1>1. J = [k \in DOMAIN J |-> J[k]] /\ DOMAIN J = PlacesOf(s, q, b, a)
  BY DEF TasksOf
<1>2. \A k : k \in PlacesOf(s, q, b, a) <=>
                  \/ \E x \in q : IsTaskOf(x, b, a) /\ k = InQueue(x)
                  \/ \E t \in Threads : \E d \in DOMAIN s[t] :
                       IsTaskOf(s[t][d], b, a) /\ k = OnStack(t, d)
  BY DEF PlacesOf
<1>3. \A x : InQueue(x) \in DOMAIN J => J[InQueue(x)] = x
  BY DEF TasksOf, InQueue
<1>4. \A t, d : OnStack(t, d) \in DOMAIN J => J[OnStack(t, d)] = s[t][d]
  BY DEF TasksOf, OnStack
<1>. QED  BY <1>1, <1>2, <1>3, <1>4

\* Place k holds x.
Holds(s, q, k, x) ==
  \/ x \in q /\ k = InQueue(x)
  \/ \E t \in Threads : \E d \in DOMAIN s[t] : x = s[t][d] /\ k = OnStack(t, d)

\* A place holds at most one task.
LEMMA HoldsOne ==
  ASSUME NEW s, NEW q
  PROVE  \A k, x, y : Holds(s, q, k, x) /\ Holds(s, q, k, y) => x = y
  BY PlacesDistinct DEF Holds

\* The same, in terms of what the places hold.
LEMMA TasksHeld ==
  ASSUME NEW s, NEW q, NEW b, NEW a
  PROVE  LET J == TasksOf(s, q, b, a)
         IN  /\ J = [k \in DOMAIN J |-> J[k]]
             /\ \A k : k \in DOMAIN J <=> \E x : Holds(s, q, k, x) /\ IsTaskOf(x, b, a)
             /\ \A k \in DOMAIN J : Holds(s, q, k, J[k]) /\ IsTaskOf(J[k], b, a)
<1>. DEFINE J == TasksOf(s, q, b, a)
<1>1. J = [k \in DOMAIN J |-> J[k]]
  BY TasksAre
<1>2. /\ \A k : k \in DOMAIN J <=>
            \/ \E x \in q : IsTaskOf(x, b, a) /\ k = InQueue(x)
            \/ \E t \in Threads : \E d \in DOMAIN s[t] :
                 IsTaskOf(s[t][d], b, a) /\ k = OnStack(t, d)
      /\ \A x : InQueue(x) \in DOMAIN J => J[InQueue(x)] = x
      /\ \A t, d : OnStack(t, d) \in DOMAIN J => J[OnStack(t, d)] = s[t][d]
  BY TasksAre
<1>. HIDE DEF J
<1>3. \A k : k \in DOMAIN J <=> \E x : Holds(s, q, k, x) /\ IsTaskOf(x, b, a)
  BY <1>2 DEF Holds
<1>4. ASSUME NEW k \in DOMAIN J PROVE Holds(s, q, k, J[k]) /\ IsTaskOf(J[k], b, a)
  <2>1. CASE \E x \in q : IsTaskOf(x, b, a) /\ k = InQueue(x)
    BY <2>1, <1>2 DEF Holds
  <2>2. CASE \E t \in Threads : \E d \in DOMAIN s[t] :
               IsTaskOf(s[t][d], b, a) /\ k = OnStack(t, d)
    BY <2>2, <1>2 DEF Holds
  <2>. QED  BY <2>1, <2>2, <1>2
<1>5. /\ J = [k \in DOMAIN J |-> J[k]]
      /\ \A k : k \in DOMAIN J <=> \E x : Holds(s, q, k, x) /\ IsTaskOf(x, b, a)
      /\ \A k \in DOMAIN J : Holds(s, q, k, J[k]) /\ IsTaskOf(J[k], b, a)
  BY <1>1, <1>3, <1>4
<1>. QED  BY <1>5 DEF J

\* Between two states, only place k changes.
ChangesAt(s, q, r, p, k) ==
  \A l, y : l # k => (Holds(s, q, l, y) <=> Holds(r, p, l, y))

\* What that does to the tasks of a call, by what place k holds before and after.
LEMMA TasksKept ==
  ASSUME NEW s, NEW q, NEW r, NEW p, NEW k, ChangesAt(s, q, r, p, k), NEW b, NEW a,
         \A y : Holds(s, q, k, y) => ~IsTaskOf(y, b, a),
         \A y : Holds(r, p, k, y) => ~IsTaskOf(y, b, a)
  PROVE  TasksOf(r, p, b, a) = TasksOf(s, q, b, a)
<1>. DEFINE J == TasksOf(s, q, b, a)  K == TasksOf(r, p, b, a)
<1>1. /\ J = [l \in DOMAIN J |-> J[l]]
      /\ \A l : l \in DOMAIN J <=> \E x : Holds(s, q, l, x) /\ IsTaskOf(x, b, a)
      /\ \A l \in DOMAIN J : Holds(s, q, l, J[l]) /\ IsTaskOf(J[l], b, a)
  BY TasksHeld
<1>2. /\ K = [l \in DOMAIN K |-> K[l]]
      /\ \A l : l \in DOMAIN K <=> \E x : Holds(r, p, l, x) /\ IsTaskOf(x, b, a)
      /\ \A l \in DOMAIN K : Holds(r, p, l, K[l]) /\ IsTaskOf(K[l], b, a)
  BY TasksHeld
<1>. HIDE DEF J, K
<1>3. DOMAIN J = DOMAIN K /\ k \notin DOMAIN J
  BY <1>1, <1>2 DEF ChangesAt
<1>4. \A l \in DOMAIN J : J[l] = K[l]
  BY <1>1, <1>2, <1>3, HoldsOne DEF ChangesAt
<1>5. J = K
  BY <1>1, <1>2, <1>3, <1>4
<1>. QED  BY <1>5 DEF J, K

\* Changing one place to hold a task of the call adds it there.
LEMMA TaskAdded ==
  ASSUME NEW s, NEW q, NEW r, NEW p, NEW k, ChangesAt(s, q, r, p, k), NEW b, NEW a,
         NEW x, Holds(r, p, k, x), IsTaskOf(x, b, a)
  PROVE  TasksOf(r, p, b, a) = WithTask(TasksOf(s, q, b, a), k, x)
<1>. DEFINE J == TasksOf(s, q, b, a)  K == TasksOf(r, p, b, a)
<1>1. /\ \A l : l \in DOMAIN J <=> \E y : Holds(s, q, l, y) /\ IsTaskOf(y, b, a)
      /\ \A l \in DOMAIN J : Holds(s, q, l, J[l]) /\ IsTaskOf(J[l], b, a)
  BY TasksHeld
<1>2. /\ K = [l \in DOMAIN K |-> K[l]]
      /\ \A l : l \in DOMAIN K <=> \E y : Holds(r, p, l, y) /\ IsTaskOf(y, b, a)
      /\ \A l \in DOMAIN K : Holds(r, p, l, K[l]) /\ IsTaskOf(K[l], b, a)
  BY TasksHeld
<1>. HIDE DEF J, K
<1>3. DOMAIN K = DOMAIN J \cup {k}
  BY <1>1, <1>2 DEF ChangesAt
<1>4. K[k] = x
  BY <1>2, <1>3, HoldsOne
<1>5. \A l \in DOMAIN K : l # k => K[l] = J[l]
  BY <1>1, <1>2, <1>3, HoldsOne DEF ChangesAt
<1>6. K = WithTask(J, k, x)
  BY <1>2, <1>3, <1>4, <1>5 DEF WithTask
<1>. QED  BY <1>6 DEF J, K

\* Changing one place to hold no task of the call removes what was there.
LEMMA TaskRemoved ==
  ASSUME NEW s, NEW q, NEW r, NEW p, NEW k, ChangesAt(s, q, r, p, k), NEW b, NEW a,
         \A y : Holds(r, p, k, y) => ~IsTaskOf(y, b, a)
  PROVE  TasksOf(r, p, b, a) = WithoutTask(TasksOf(s, q, b, a), k)
<1>. DEFINE J == TasksOf(s, q, b, a)  K == TasksOf(r, p, b, a)
<1>1. /\ \A l : l \in DOMAIN J <=> \E y : Holds(s, q, l, y) /\ IsTaskOf(y, b, a)
      /\ \A l \in DOMAIN J : Holds(s, q, l, J[l]) /\ IsTaskOf(J[l], b, a)
  BY TasksHeld
<1>2. /\ K = [l \in DOMAIN K |-> K[l]]
      /\ \A l : l \in DOMAIN K <=> \E y : Holds(r, p, l, y) /\ IsTaskOf(y, b, a)
      /\ \A l \in DOMAIN K : Holds(r, p, l, K[l]) /\ IsTaskOf(K[l], b, a)
  BY TasksHeld
<1>. HIDE DEF J, K
<1>3. DOMAIN K = DOMAIN J \ {k}
  BY <1>1, <1>2 DEF ChangesAt
<1>5. \A l \in DOMAIN K : K[l] = J[l]
  BY <1>1, <1>2, <1>3, HoldsOne DEF ChangesAt
<1>6. K = WithoutTask(J, k)
  BY <1>2, <1>3, <1>5 DEF WithoutTask
<1>. QED  BY <1>6 DEF J, K

\* What the operations on stacks and queue do to the places.
LEMMA HoldsAfterReplace ==
  ASSUME NEW s \in Stacks, NEW q, NEW t \in Threads, NEW d \in DOMAIN s[t], NEW f \in Frame
  PROVE  LET r == Replace(s, t, d, f)
         IN  /\ ChangesAt(s, q, r, q, OnStack(t, d))
             /\ \A y : Holds(s, q, OnStack(t, d), y) <=> y = s[t][d]
             /\ \A y : Holds(r, q, OnStack(t, d), y) <=> y = f
<1>. DEFINE r == Replace(s, t, d, f)
<1>1. /\ \A u \in Threads : DOMAIN r[u] = DOMAIN s[u]
      /\ r[t][d] = f
      /\ \A u \in Threads : \A e \in DOMAIN s[u] : u # t \/ e # d => r[u][e] = s[u][e]
  BY ReplaceFrame
<1>. HIDE DEF r
<1>2. ChangesAt(s, q, r, q, OnStack(t, d))
  BY <1>1, PlacesDistinct DEF ChangesAt, Holds
<1>3. \A y : Holds(s, q, OnStack(t, d), y) <=> y = s[t][d]
  BY PlacesDistinct DEF Holds
<1>4. \A y : Holds(r, q, OnStack(t, d), y) <=> y = f
  BY <1>1, PlacesDistinct DEF Holds
<1>. QED  BY <1>2, <1>3, <1>4 DEF r

\* A push changes one place, which was empty.
LEMMA HoldsAfterPush ==
  ASSUME NEW s \in Stacks, NEW q, NEW t \in Threads, NEW f \in Frame
  PROVE  LET r == Push(s, t, f)
             k == OnStack(t, Len(s[t]) + 1)
         IN  /\ ChangesAt(s, q, r, q, k)
             /\ \A y : ~Holds(s, q, k, y)
             /\ \A y : Holds(r, q, k, y) <=> y = f
<1>. DEFINE r == Push(s, t, f)  e == Len(s[t]) + 1
<1>1. /\ e \notin DOMAIN s[t]
      /\ DOMAIN r[t] = DOMAIN s[t] \cup {e}
      /\ r[t][e] = f
      /\ \A u \in Threads : u # t => r[u] = s[u]
      /\ \A u \in Threads : \A m \in DOMAIN s[u] : m \in DOMAIN r[u] /\ r[u][m] = s[u][m]
  BY PushFrame
<1>. HIDE DEF r, e
<1>2. ChangesAt(s, q, r, q, OnStack(t, e))
  <2>. SUFFICES ASSUME NEW l, NEW y, l # OnStack(t, e)
                PROVE  Holds(s, q, l, y) <=> Holds(r, q, l, y)
    BY DEF ChangesAt
  <2>1. ASSUME Holds(s, q, l, y) PROVE Holds(r, q, l, y)
    BY <1>1, <2>1 DEF Holds
  <2>2. ASSUME Holds(r, q, l, y) PROVE Holds(s, q, l, y)
    <3>1. CASE y \in q /\ l = InQueue(y)
      BY <3>1 DEF Holds
    <3>2. CASE \E u \in Threads : \E m \in DOMAIN r[u] : y = r[u][m] /\ l = OnStack(u, m)
      <4>1. PICK u \in Threads : \E m \in DOMAIN r[u] : y = r[u][m] /\ l = OnStack(u, m)
        BY <3>2
      <4>2. PICK m \in DOMAIN r[u] : y = r[u][m] /\ l = OnStack(u, m)
        BY <4>1
      <4>3. m \in DOMAIN s[u]
        BY <4>2, <1>1
      <4>. QED  BY <4>2, <4>3, <1>1 DEF Holds
    <3>. QED  BY <2>2, <3>1, <3>2 DEF Holds
  <2>. QED  BY <2>1, <2>2
<1>3. \A y : ~Holds(s, q, OnStack(t, e), y)
  BY <1>1, PlacesDistinct DEF Holds
<1>4. \A y : Holds(r, q, OnStack(t, e), y) <=> y = f
  BY <1>1, PlacesDistinct DEF Holds
<1>. QED  BY <1>2, <1>3, <1>4 DEF r, e

\* A pop changes one place, which becomes empty.
LEMMA HoldsAfterPop ==
  ASSUME NEW s \in Stacks, NEW q, NEW t \in Threads, s[t] # <<>>
  PROVE  LET r == Pop(s, t)
             k == OnStack(t, Len(s[t]))
         IN  /\ ChangesAt(s, q, r, q, k)
             /\ \A y : Holds(s, q, k, y) <=> y = s[t][Len(s[t])]
             /\ \A y : ~Holds(r, q, k, y)
<1>. DEFINE r == Pop(s, t)  e == Len(s[t])
<1>1. /\ e \in DOMAIN s[t]
      /\ DOMAIN r[t] = DOMAIN s[t] \ {e}
      /\ \A u \in Threads : u # t => r[u] = s[u]
      /\ \A u \in Threads : \A m \in DOMAIN r[u] : m \in DOMAIN s[u] /\ r[u][m] = s[u][m]
  BY PopFrame
<1>. HIDE DEF r, e
<1>2. ChangesAt(s, q, r, q, OnStack(t, e))
  <2>. SUFFICES ASSUME NEW l, NEW y, l # OnStack(t, e)
                PROVE  Holds(s, q, l, y) <=> Holds(r, q, l, y)
    BY DEF ChangesAt
  <2>1. ASSUME Holds(r, q, l, y) PROVE Holds(s, q, l, y)
    BY <1>1, <2>1 DEF Holds
  <2>2. ASSUME Holds(s, q, l, y) PROVE Holds(r, q, l, y)
    <3>1. CASE y \in q /\ l = InQueue(y)
      BY <3>1 DEF Holds
    <3>2. CASE \E u \in Threads : \E m \in DOMAIN s[u] : y = s[u][m] /\ l = OnStack(u, m)
      <4>1. PICK u \in Threads : \E m \in DOMAIN s[u] : y = s[u][m] /\ l = OnStack(u, m)
        BY <3>2
      <4>2. PICK m \in DOMAIN s[u] : y = s[u][m] /\ l = OnStack(u, m)
        BY <4>1
      <4>3. m \in DOMAIN r[u]
        BY <4>2, <1>1
      <4>. QED  BY <4>2, <4>3, <1>1 DEF Holds
    <3>. QED  BY <2>2, <3>1, <3>2 DEF Holds
  <2>. QED  BY <2>1, <2>2
<1>3. \A y : Holds(s, q, OnStack(t, e), y) <=> y = s[t][e]
  BY <1>1, PlacesDistinct DEF Holds
<1>4. \A y : ~Holds(r, q, OnStack(t, e), y)
  BY <1>1, PlacesDistinct DEF Holds
<1>. QED  BY <1>2, <1>3, <1>4 DEF r, e

\* Enqueuing or dequeuing a task changes that task's place only.
LEMMA HoldsAfterQueue ==
  ASSUME NEW s, NEW q, NEW x
  PROVE  /\ ChangesAt(s, q, s, q \cup {x}, InQueue(x))
         /\ ChangesAt(s, q, s, q \ {x}, InQueue(x))
         /\ \A y : Holds(s, q, InQueue(x), y) <=> y = x /\ x \in q
  BY PlacesDistinct DEF ChangesAt, Holds

-----------------------------------------------------------------------------
(* One frame or one queued task at a time *)

\* Between two states, no call changes but the one at depth a of thread b, and only
\* its tasks do.
OnlyCall(s, q, r, p, b, a) ==
  \A u \in Threads : \A e \in DOMAIN r[u] :
    r[u][e].kind # "task" /\ (u # b \/ e # a) =>
      /\ e \in DOMAIN s[u]
      /\ r[u][e] = s[u][e]
      /\ TasksOf(r, p, u, e) = TasksOf(s, q, u, e)

\* Two changes that concern one call concern one call.
LEMMA OnlyCallTwice ==
  ASSUME NEW s, NEW q, NEW r, NEW p, NEW v, NEW o, NEW b, NEW a,
         OnlyCall(s, q, r, p, b, a), OnlyCall(r, p, v, o, b, a)
  PROVE  OnlyCall(s, q, v, o, b, a)
  BY DEF OnlyCall

\* After a change that concerns one call only that call has to be looked at.
LEMMA StillGood ==
  ASSUME NEW s, NEW q, NEW r, NEW p, NEW b, NEW a,
         Good(s, q), Sound(r, p), OnlyCall(s, q, r, p, b, a),
         a \in DOMAIN r[b] => CallOK(r[b][a], TasksOf(r, p, b, a))
  PROVE  Good(r, p)
<1>1. ASSUME NEW u \in Threads, NEW e \in DOMAIN r[u], r[u][e].kind # "task"
      PROVE  CallOK(r[u][e], TasksOf(r, p, u, e))
  <2>1. CASE u = b /\ e = a
    BY <2>1
  <2>2. CASE u # b \/ e # a
    <3>1. /\ e \in DOMAIN s[u]
          /\ r[u][e] = s[u][e]
          /\ TasksOf(r, p, u, e) = TasksOf(s, q, u, e)
      BY <1>1, <2>2 DEF OnlyCall
    <3>2. CallOK(s[u][e], TasksOf(s, q, u, e))
      BY <1>1, <3>1 DEF Good, CallsOK
    <3>. QED  BY <3>1, <3>2
  <2>. QED  BY <2>1, <2>2
<1>. QED  BY <1>1 DEF Good, CallsOK

\* A closure of parallel_for is not one of handle_range.
LEMMA JobsAreNotRanges ==
  ASSUME NEW x \in Jobs
  PROVE  x \notin Ranges
<1>1. "i" \in DOMAIN x
  BY DEF Jobs
<1>2. x \in Ranges => "i" \notin DOMAIN x
  BY DEF Ranges
<1>. QED  BY <1>1, <1>2

\* Changing a call's progress keeps the stacks sound and its tasks.
LEMMA ChangeCall ==
  ASSUME NEW s, NEW q, Sound(s, q), NEW t \in Threads, NEW d \in DOMAIN s[t],
         s[t][d].kind # "task", NEW f \in Calls, f.kind = s[t][d].kind
  PROVE  LET r == Replace(s, t, d, f)
         IN  /\ Sound(r, q)
             /\ OnlyCall(s, q, r, q, t, d)
             /\ TasksOf(r, q, t, d) = TasksOf(s, q, t, d)
             /\ r[t][d] = f
<1>. DEFINE r == Replace(s, t, d, f)  k == OnStack(t, d)
<1>1. /\ s \in Stacks /\ f \in Frame /\ f.kind # "task"
      /\ Queued(s, q)
      /\ \A u \in Threads : \A e \in DOMAIN s[u] : Placed(s, u, e)
  BY FramesDistinct DEF Sound, Frame
<1>2. /\ r \in Stacks
      /\ \A u \in Threads : DOMAIN r[u] = DOMAIN s[u]
      /\ r[t][d] = f
      /\ \A u \in Threads : \A e \in DOMAIN s[u] : u # t \/ e # d => r[u][e] = s[u][e]
  BY <1>1, ReplaceFrame
<1>3. /\ ChangesAt(s, q, r, q, k)
      /\ \A y : Holds(s, q, k, y) <=> y = s[t][d]
      /\ \A y : Holds(r, q, k, y) <=> y = f
  BY <1>1, HoldsAfterReplace
<1>. HIDE DEF r, k
<1>4. ASSUME NEW b, NEW a PROVE TasksOf(r, q, b, a) = TasksOf(s, q, b, a)
  <2>1. \A y : Holds(s, q, k, y) => ~IsTaskOf(y, b, a)
    BY <1>3 DEF IsTaskOf
  <2>2. \A y : Holds(r, q, k, y) => ~IsTaskOf(y, b, a)
    BY <1>1, <1>3 DEF IsTaskOf
  <2>. QED  BY <1>3, <2>1, <2>2, TasksKept
<1>5. \A x \in Tasks : HasCall(s, x) => HasCall(r, x)
  BY <1>1, <1>2, FramesDistinct DEF HasCall
<1>6. Queued(r, q)
  BY <1>1, <1>5 DEF Queued
<1>7. ASSUME NEW u \in Threads, NEW e \in DOMAIN r[u] PROVE Placed(r, u, e)
  <2>1. e \in DOMAIN s[u] /\ Placed(s, u, e) /\ r[u][e] \in Frame
    BY <1>1, <1>2 DEF Stacks
  <2>2. CASE u = t /\ e = d
    <3>1. r[u][e] = f
      BY <2>2, <1>2
    <3>2. f \notin Jobs /\ f \notin Ranges
      BY <1>1 DEF Jobs, Ranges
    <3>. QED  BY <2>1, <2>2, <3>1, <3>2, <1>1 DEF Placed
  <2>3. CASE u # t \/ e # d
    <3>1. r[u][e] = s[u][e]
      BY <2>1, <2>3, <1>2
    <3>2. r[u][e].kind = "task" => r[u][e] \in Tasks
      BY <2>1, FramesDistinct
    <3>. QED  BY <2>1, <3>1, <3>2, <1>5 DEF Placed
  <2>. QED  BY <2>2, <2>3
<1>8. Sound(r, q)
  BY <1>2, <1>6, <1>7 DEF Sound
<1>9. OnlyCall(s, q, r, q, t, d)
  BY <1>2, <1>4 DEF OnlyCall
<1>. QED  BY <1>2, <1>4, <1>8, <1>9 DEF r

\* Changing a task's progress changes it among the tasks of its call.
LEMMA ChangeTask ==
  ASSUME NEW s, NEW q, Sound(s, q), NEW t \in Threads, NEW d \in DOMAIN s[t],
         s[t][d].kind = "task", NEW f, f.by = s[t][d].by, f.at = s[t][d].at,
         \/ f \in Jobs /\ s[t][d] \in Jobs
         \/ f \in Ranges /\ s[t][d] \in Ranges /\ f.first = s[t][d].first
  PROVE  LET r == Replace(s, t, d, f)
         IN  /\ Sound(r, q)
             /\ OnlyCall(s, q, r, q, f.by, f.at)
             /\ TasksOf(r, q, f.by, f.at) = WithTask(TasksOf(s, q, f.by, f.at), OnStack(t, d), f)
             /\ r[f.by][f.at] = s[f.by][f.at]
<1>. DEFINE r == Replace(s, t, d, f)  k == OnStack(t, d)
<1>1. /\ s \in Stacks /\ f \in Frame /\ f \in Tasks /\ f.kind = "task"
      /\ Queued(s, q)
      /\ \A u \in Threads : \A e \in DOMAIN s[u] : Placed(s, u, e)
  BY FramesDistinct DEF Sound, Frame, Tasks
<1>2. /\ r \in Stacks
      /\ \A u \in Threads : DOMAIN r[u] = DOMAIN s[u]
      /\ r[t][d] = f
      /\ \A u \in Threads : \A e \in DOMAIN s[u] : u # t \/ e # d => r[u][e] = s[u][e]
  BY <1>1, ReplaceFrame
<1>3. /\ ChangesAt(s, q, r, q, k)
      /\ \A y : Holds(s, q, k, y) <=> y = s[t][d]
      /\ \A y : Holds(r, q, k, y) <=> y = f
  BY <1>1, HoldsAfterReplace
<1>. HIDE DEF r, k
<1>4. ASSUME NEW b, NEW a, b # f.by \/ a # f.at
      PROVE  TasksOf(r, q, b, a) = TasksOf(s, q, b, a)
  <2>1. \A y : Holds(s, q, k, y) => ~IsTaskOf(y, b, a)
    BY <1>3, <1>4 DEF IsTaskOf
  <2>2. \A y : Holds(r, q, k, y) => ~IsTaskOf(y, b, a)
    BY <1>3, <1>4 DEF IsTaskOf
  <2>. QED  BY <1>3, <2>1, <2>2, TasksKept
<1>5. \A x \in Tasks : HasCall(s, x) => HasCall(r, x) /\ r[x.by][x.at] = s[x.by][x.at]
  BY <1>1, <1>2, FramesDistinct DEF HasCall
<1>6. Queued(r, q)
  BY <1>1, <1>5 DEF Queued
<1>7. ASSUME NEW u \in Threads, NEW e \in DOMAIN r[u] PROVE Placed(r, u, e)
  <2>1. e \in DOMAIN s[u] /\ Placed(s, u, e) /\ r[u][e] \in Frame
    BY <1>1, <1>2 DEF Stacks
  <2>2. CASE u = t /\ e = d
    <3>1. r[u][e] = f
      BY <2>2, <1>2
    <3>2. HasCall(s, f)
      BY <2>1, <2>2 DEF Placed, HasCall
    <3>3. f \in Jobs => s[t][d] \in Jobs
      BY JobsAreNotRanges
    <3>4. f \in Ranges => s[t][d] \in Ranges /\ f.first = s[t][d].first
      BY JobsAreNotRanges
    <3>. QED  BY <2>1, <2>2, <3>1, <3>2, <3>3, <3>4, <1>1, <1>5 DEF Placed
  <2>3. CASE u # t \/ e # d
    <3>1. r[u][e] = s[u][e]
      BY <2>1, <2>3, <1>2
    <3>2. r[u][e].kind = "task" => r[u][e] \in Tasks
      BY <2>1, FramesDistinct
    <3>. QED  BY <2>1, <3>1, <3>2, <1>5 DEF Placed
  <2>. QED  BY <2>2, <2>3
<1>8. Sound(r, q)
  BY <1>2, <1>6, <1>7 DEF Sound
<1>9. OnlyCall(s, q, r, q, f.by, f.at)
  BY <1>1, <1>2, <1>4 DEF OnlyCall
<1>10. TasksOf(r, q, f.by, f.at) = WithTask(TasksOf(s, q, f.by, f.at), k, f)
  <2>1. IsTaskOf(f, f.by, f.at) /\ Holds(r, q, k, f)
    BY <1>1, <1>3 DEF IsTaskOf
  <2>. QED  BY <2>1, <1>3, TaskAdded
<1>11. r[f.by][f.at] = s[f.by][f.at]
  <2>1. HasCall(s, f)
    BY <1>1 DEF Placed, HasCall
  <2>. QED  BY <2>1, <1>1, <1>5
<1>. QED  BY <1>8, <1>9, <1>10, <1>11 DEF r, k

\* A new call has no tasks.
LEMMA AddCall ==
  ASSUME NEW s, NEW q, Sound(s, q), NEW t \in Threads, NEW f \in Calls,
         Len(s[t]) < MaxDepth
  PROVE  LET r == Push(s, t, f)
             d == Len(s[t]) + 1
         IN  /\ Sound(r, q)
             /\ OnlyCall(s, q, r, q, t, d)
             /\ DOMAIN TasksOf(r, q, t, d) = {}
             /\ r[t][d] = f
<1>. DEFINE r == Push(s, t, f)  d == Len(s[t]) + 1  k == OnStack(t, d)
<1>1. /\ s \in Stacks /\ f \in Frame /\ f.kind # "task"
      /\ Queued(s, q)
      /\ \A u \in Threads : \A e \in DOMAIN s[u] : Placed(s, u, e)
  BY FramesDistinct DEF Sound, Frame
<1>2. /\ r \in Stacks /\ d \notin DOMAIN s[t]
      /\ DOMAIN r[t] = DOMAIN s[t] \cup {d}
      /\ r[t][d] = f
      /\ \A u \in Threads : u # t => r[u] = s[u]
      /\ \A u \in Threads : \A e \in DOMAIN s[u] : e \in DOMAIN r[u] /\ r[u][e] = s[u][e]
  BY <1>1, PushFrame
<1>3. d <= MaxDepth
  <2>1. Len(s[t]) \in Nat /\ MaxDepth \in Nat
    BY <1>1, PushFrame, PoolAssumption
  <2>. QED  BY <2>1
<1>4. /\ ChangesAt(s, q, r, q, k)
      /\ \A y : ~Holds(s, q, k, y)
      /\ \A y : Holds(r, q, k, y) <=> y = f
  BY <1>1, HoldsAfterPush
<1>. HIDE DEF r, d, k
<1>5. ASSUME NEW b, NEW a PROVE TasksOf(r, q, b, a) = TasksOf(s, q, b, a)
  <2>1. \A y : Holds(s, q, k, y) => ~IsTaskOf(y, b, a)
    BY <1>4
  <2>2. \A y : Holds(r, q, k, y) => ~IsTaskOf(y, b, a)
    BY <1>1, <1>4 DEF IsTaskOf
  <2>. QED  BY <1>4, <2>1, <2>2, TasksKept
<1>6. \A x \in Tasks : HasCall(s, x) => HasCall(r, x)
  BY <1>2, FramesDistinct DEF HasCall
<1>7. Queued(r, q)
  BY <1>1, <1>6 DEF Queued
<1>8. ASSUME NEW u \in Threads, NEW e \in DOMAIN r[u] PROVE Placed(r, u, e)
  <2>1. r[u][e] \in Frame
    BY <1>2 DEF Stacks
  <2>2. CASE u = t /\ e = d
    <3>1. r[u][e] = f
      BY <2>2, <1>2
    <3>2. f \notin Jobs /\ f \notin Ranges
      BY <1>1 DEF Jobs, Ranges
    <3>. QED  BY <2>2, <3>1, <3>2, <1>1, <1>3 DEF Placed
  <2>3. CASE ~(u = t /\ e = d)
    <3>1. e \in DOMAIN s[u] /\ r[u][e] = s[u][e] /\ Placed(s, u, e)
      BY <2>3, <1>1, <1>2
    <3>2. r[u][e].kind = "task" => r[u][e] \in Tasks
      BY <2>1, FramesDistinct
    <3>. QED  BY <3>1, <3>2, <1>6 DEF Placed
  <2>. QED  BY <2>2, <2>3
<1>9. Sound(r, q)
  BY <1>2, <1>7, <1>8 DEF Sound
<1>10. OnlyCall(s, q, r, q, t, d)
  BY <1>2, <1>5 DEF OnlyCall
<1>11. DOMAIN TasksOf(s, q, t, d) = {}
  <2>1. ASSUME NEW l \in DOMAIN TasksOf(s, q, t, d) PROVE FALSE
    <3>1. PICK x : Holds(s, q, l, x) /\ IsTaskOf(x, t, d)
      BY TasksHeld
    <3>2. HasCall(s, x)
      BY <3>1, <1>1 DEF Holds, IsTaskOf, Queued, Placed
    <3>. QED  BY <3>1, <3>2, <1>2 DEF HasCall, IsTaskOf
  <2>. QED  BY <2>1
<1>. QED  BY <1>2, <1>5, <1>9, <1>10, <1>11 DEF r, d

\* A call without tasks may be removed.
LEMMA RemoveCall ==
  ASSUME NEW s, NEW q, Sound(s, q), NEW t \in Threads, s[t] # <<>>,
         s[t][Len(s[t])].kind # "task", DOMAIN TasksOf(s, q, t, Len(s[t])) = {}
  PROVE  LET r == Pop(s, t)
             d == Len(s[t])
         IN  /\ Sound(r, q)
             /\ OnlyCall(s, q, r, q, t, d)
             /\ d \notin DOMAIN r[t]
<1>. DEFINE r == Pop(s, t)  d == Len(s[t])  k == OnStack(t, d)
<1>1. /\ s \in Stacks
      /\ Queued(s, q)
      /\ \A u \in Threads : \A e \in DOMAIN s[u] : Placed(s, u, e)
  BY DEF Sound
<1>2. /\ r \in Stacks /\ d \in DOMAIN s[t]
      /\ DOMAIN r[t] = DOMAIN s[t] \ {d}
      /\ \A u \in Threads : u # t => r[u] = s[u]
      /\ \A u \in Threads : \A e \in DOMAIN r[u] : e \in DOMAIN s[u] /\ r[u][e] = s[u][e]
  BY <1>1, PopFrame
<1>3. /\ ChangesAt(s, q, r, q, k)
      /\ \A y : Holds(s, q, k, y) <=> y = s[t][d]
      /\ \A y : ~Holds(r, q, k, y)
  BY <1>1, HoldsAfterPop
<1>4. s[t][d].kind # "task" /\ DOMAIN TasksOf(s, q, t, d) = {}
  OBVIOUS
<1>. HIDE DEF r, d, k
<1>5. ASSUME NEW b, NEW a PROVE TasksOf(r, q, b, a) = TasksOf(s, q, b, a)
  <2>1. \A y : Holds(s, q, k, y) => ~IsTaskOf(y, b, a)
    BY <1>3, <1>4 DEF IsTaskOf
  <2>2. \A y : Holds(r, q, k, y) => ~IsTaskOf(y, b, a)
    BY <1>3
  <2>. QED  BY <1>3, <2>1, <2>2, TasksKept
<1>6. ASSUME NEW l, NEW x \in Tasks, Holds(s, q, l, x), HasCall(s, x)
      PROVE  HasCall(r, x)
  <2>1. x.kind = "task" /\ x.by \in Threads
    BY FramesDistinct
  <2>2. ~IsTaskOf(x, t, d)
    BY <1>4, <1>6, TasksHeld
  <2>3. ~(x.by = t /\ x.at = d)
    BY <2>1, <2>2 DEF IsTaskOf
  <2>4. x.at \in DOMAIN r[x.by]
    BY <2>1, <2>3, <1>2, <1>6 DEF HasCall
  <2>. QED  BY <2>1, <2>4, <1>2, <1>6 DEF HasCall
<1>7. Queued(r, q)
  BY <1>1, <1>6 DEF Queued, Holds
<1>8. ASSUME NEW u \in Threads, NEW e \in DOMAIN r[u] PROVE Placed(r, u, e)
  <2>1. e \in DOMAIN s[u] /\ r[u][e] = s[u][e] /\ Placed(s, u, e) /\ r[u][e] \in Frame
    BY <1>1, <1>2 DEF Stacks
  <2>2. r[u][e].kind = "task" => HasCall(r, r[u][e])
    <3>1. r[u][e].kind = "task" => r[u][e] \in Tasks /\ HasCall(s, r[u][e])
      BY <2>1, FramesDistinct DEF Placed
    <3>2. Holds(s, q, OnStack(u, e), r[u][e])
      BY <2>1 DEF Holds
    <3>. QED  BY <3>1, <3>2, <1>6
  <2>. QED  BY <2>1, <2>2 DEF Placed
<1>9. Sound(r, q)
  BY <1>2, <1>7, <1>8 DEF Sound
<1>10. OnlyCall(s, q, r, q, t, d)
  BY <1>2, <1>5 DEF OnlyCall
<1>. QED  BY <1>2, <1>9, <1>10 DEF r, d

\* A task that a thread begins is one more task of its call.
LEMMA AddTask ==
  ASSUME NEW s, NEW q, Sound(s, q), NEW t \in Threads, NEW x \in Tasks, HasCall(s, x),
         x \in Jobs => Len(s[t]) <= MaxDepth,
         x \in Ranges => Len(s[t]) <= MaxDepth + x.first
  PROVE  LET r == Push(s, t, x)
             k == OnStack(t, Len(s[t]) + 1)
         IN  /\ Sound(r, q)
             /\ OnlyCall(s, q, r, q, x.by, x.at)
             /\ TasksOf(r, q, x.by, x.at) = WithTask(TasksOf(s, q, x.by, x.at), k, x)
             /\ r[x.by][x.at] = s[x.by][x.at]
             /\ k \notin DOMAIN TasksOf(s, q, x.by, x.at)
<1>. DEFINE r == Push(s, t, x)  d == Len(s[t]) + 1  k == OnStack(t, d)
<1>1. /\ s \in Stacks /\ x \in Frame /\ x.kind = "task" /\ x.by \in Threads
      /\ Queued(s, q)
      /\ \A u \in Threads : \A e \in DOMAIN s[u] : Placed(s, u, e)
  BY FramesDistinct DEF Sound, Frame
<1>2. /\ r \in Stacks /\ d \notin DOMAIN s[t]
      /\ DOMAIN r[t] = DOMAIN s[t] \cup {d}
      /\ r[t][d] = x
      /\ \A u \in Threads : u # t => r[u] = s[u]
      /\ \A u \in Threads : \A e \in DOMAIN s[u] : e \in DOMAIN r[u] /\ r[u][e] = s[u][e]
  BY <1>1, PushFrame
<1>3. (x \in Jobs => d <= MaxDepth + 1) /\ (x \in Ranges => d <= MaxDepth + x.first + 1)
  <2>1. Len(s[t]) \in Nat /\ MaxDepth \in Nat
    BY <1>1, PushFrame, PoolAssumption
  <2>2. x \in Ranges => x.first \in Nat
    BY DEF Ranges
  <2>. QED  BY <2>1, <2>2
<1>4. /\ ChangesAt(s, q, r, q, k)
      /\ \A y : ~Holds(s, q, k, y)
      /\ \A y : Holds(r, q, k, y) <=> y = x
  BY <1>1, HoldsAfterPush
<1>. HIDE DEF r, d, k
<1>5. ASSUME NEW b, NEW a, b # x.by \/ a # x.at
      PROVE  TasksOf(r, q, b, a) = TasksOf(s, q, b, a)
  <2>1. \A y : Holds(s, q, k, y) => ~IsTaskOf(y, b, a)
    BY <1>4
  <2>2. \A y : Holds(r, q, k, y) => ~IsTaskOf(y, b, a)
    BY <1>4, <1>5 DEF IsTaskOf
  <2>. QED  BY <1>4, <2>1, <2>2, TasksKept
<1>6. \A y \in Tasks : HasCall(s, y) => HasCall(r, y) /\ r[y.by][y.at] = s[y.by][y.at]
  BY <1>2, FramesDistinct DEF HasCall
<1>7. Queued(r, q)
  BY <1>1, <1>6 DEF Queued
<1>8. ASSUME NEW u \in Threads, NEW e \in DOMAIN r[u] PROVE Placed(r, u, e)
  <2>1. r[u][e] \in Frame
    BY <1>2 DEF Stacks
  <2>2. CASE u = t /\ e = d
    <3>1. r[u][e] = x
      BY <2>2, <1>2
    <3>. QED  BY <2>2, <3>1, <1>1, <1>3, <1>6 DEF Placed
  <2>3. CASE ~(u = t /\ e = d)
    <3>1. e \in DOMAIN s[u] /\ r[u][e] = s[u][e] /\ Placed(s, u, e)
      BY <2>3, <1>1, <1>2
    <3>2. r[u][e].kind = "task" => r[u][e] \in Tasks
      BY <2>1, FramesDistinct
    <3>. QED  BY <3>1, <3>2, <1>6 DEF Placed
  <2>. QED  BY <2>2, <2>3
<1>9. Sound(r, q)
  BY <1>2, <1>7, <1>8 DEF Sound
<1>10. OnlyCall(s, q, r, q, x.by, x.at)
  BY <1>1, <1>2, <1>5 DEF OnlyCall
<1>11. TasksOf(r, q, x.by, x.at) = WithTask(TasksOf(s, q, x.by, x.at), k, x)
  <2>1. IsTaskOf(x, x.by, x.at) /\ Holds(r, q, k, x)
    BY <1>1, <1>4 DEF IsTaskOf
  <2>. QED  BY <2>1, <1>4, TaskAdded
<1>12. k \notin DOMAIN TasksOf(s, q, x.by, x.at)
  BY <1>4, TasksHeld
<1>13. r[x.by][x.at] = s[x.by][x.at]
  BY <1>6
<1>. QED  BY <1>9, <1>10, <1>11, <1>12, <1>13 DEF r, d, k

\* A task that ends is one task less of its call, and the call is still there.
LEMMA RemoveTask ==
  ASSUME NEW s, NEW q, Sound(s, q), NEW t \in Threads, s[t] # <<>>,
         NEW x, x = s[t][Len(s[t])], x.kind = "task"
  PROVE  LET r == Pop(s, t)
         IN  /\ Sound(r, q)
             /\ OnlyCall(s, q, r, q, x.by, x.at)
             /\ TasksOf(r, q, x.by, x.at)
                  = WithoutTask(TasksOf(s, q, x.by, x.at), OnStack(t, Len(s[t])))
             /\ r[x.by][x.at] = s[x.by][x.at]
<1>. DEFINE r == Pop(s, t)  d == Len(s[t])  k == OnStack(t, d)
<1>1. /\ s \in Stacks
      /\ Queued(s, q)
      /\ \A u \in Threads : \A e \in DOMAIN s[u] : Placed(s, u, e)
  BY DEF Sound
<1>2. /\ r \in Stacks /\ d \in DOMAIN s[t]
      /\ DOMAIN r[t] = DOMAIN s[t] \ {d}
      /\ \A u \in Threads : u # t => r[u] = s[u]
      /\ \A u \in Threads : \A e \in DOMAIN r[u] : e \in DOMAIN s[u] /\ r[u][e] = s[u][e]
  BY <1>1, PopFrame
<1>3. /\ ChangesAt(s, q, r, q, k)
      /\ \A y : Holds(s, q, k, y) <=> y = s[t][d]
      /\ \A y : ~Holds(r, q, k, y)
  BY <1>1, HoldsAfterPop
<1>4. x = s[t][d]
  OBVIOUS
<1>. HIDE DEF r, d, k
<1>5. ASSUME NEW b, NEW a, b # x.by \/ a # x.at
      PROVE  TasksOf(r, q, b, a) = TasksOf(s, q, b, a)
  <2>1. \A y : Holds(s, q, k, y) => ~IsTaskOf(y, b, a)
    BY <1>3, <1>4, <1>5 DEF IsTaskOf
  <2>2. \A y : Holds(r, q, k, y) => ~IsTaskOf(y, b, a)
    BY <1>3
  <2>. QED  BY <1>3, <2>1, <2>2, TasksKept
<1>6. ASSUME NEW y \in Tasks, HasCall(s, y)
      PROVE  HasCall(r, y) /\ r[y.by][y.at] = s[y.by][y.at]
  <2>1. y.by \in Threads /\ ~(y.by = t /\ y.at = d)
    BY <1>4, <1>6, FramesDistinct DEF HasCall
  <2>2. y.at \in DOMAIN r[y.by]
    BY <2>1, <1>2, <1>6 DEF HasCall
  <2>. QED  BY <2>1, <2>2, <1>2, <1>6 DEF HasCall
<1>7. Queued(r, q)
  BY <1>1, <1>6 DEF Queued
<1>8. ASSUME NEW u \in Threads, NEW e \in DOMAIN r[u] PROVE Placed(r, u, e)
  <2>1. e \in DOMAIN s[u] /\ r[u][e] = s[u][e] /\ Placed(s, u, e) /\ r[u][e] \in Frame
    BY <1>1, <1>2 DEF Stacks
  <2>2. r[u][e].kind = "task" => r[u][e] \in Tasks
    BY <2>1, FramesDistinct
  <2>. QED  BY <2>1, <2>2, <1>6 DEF Placed
<1>9. Sound(r, q)
  BY <1>2, <1>7, <1>8 DEF Sound
<1>10. OnlyCall(s, q, r, q, x.by, x.at)
  BY <1>2, <1>5 DEF OnlyCall
<1>11. TasksOf(r, q, x.by, x.at) = WithoutTask(TasksOf(s, q, x.by, x.at), k)
  <2>1. \A y : Holds(r, q, k, y) => ~IsTaskOf(y, x.by, x.at)
    BY <1>3
  <2>. QED  BY <2>1, <1>3, TaskRemoved
<1>12. r[x.by][x.at] = s[x.by][x.at]
  <2>1. x \in Tasks /\ HasCall(s, x)
    BY <1>1, <1>2, <1>4, FramesDistinct DEF Stacks, Placed
  <2>. QED  BY <2>1, <1>6
<1>. QED  BY <1>9, <1>10, <1>11, <1>12 DEF r, d, k

\* A scheduled task is one more task of its call.
LEMMA Enqueue ==
  ASSUME NEW s, NEW q, Sound(s, q), NEW x \in Tasks, x.pc = "run", HasCall(s, x)
  PROVE  /\ Sound(s, q \cup {x})
         /\ OnlyCall(s, q, s, q \cup {x}, x.by, x.at)
         /\ TasksOf(s, q \cup {x}, x.by, x.at)
              = WithTask(TasksOf(s, q, x.by, x.at), InQueue(x), x)
<1>. DEFINE p == q \cup {x}  k == InQueue(x)
<1>1. /\ ChangesAt(s, q, s, p, k)
      /\ \A y : Holds(s, q, k, y) => y = x
      /\ \A y : Holds(s, p, k, y) <=> y = x
  BY HoldsAfterQueue
<1>2. Sound(s, p)
  BY DEF Sound, Queued
<1>. HIDE DEF p, k
<1>3. ASSUME NEW b, NEW a, b # x.by \/ a # x.at
      PROVE  TasksOf(s, p, b, a) = TasksOf(s, q, b, a)
  <2>1. \A y : Holds(s, q, k, y) => ~IsTaskOf(y, b, a)
    BY <1>1, <1>3 DEF IsTaskOf
  <2>2. \A y : Holds(s, p, k, y) => ~IsTaskOf(y, b, a)
    BY <1>1, <1>3 DEF IsTaskOf
  <2>. QED  BY <1>1, <2>1, <2>2, TasksKept
<1>4. OnlyCall(s, q, s, p, x.by, x.at)
  BY <1>3 DEF OnlyCall
<1>5. TasksOf(s, p, x.by, x.at) = WithTask(TasksOf(s, q, x.by, x.at), k, x)
  <2>1. IsTaskOf(x, x.by, x.at) /\ Holds(s, p, k, x)
    BY <1>1, FramesDistinct DEF IsTaskOf
  <2>. QED  BY <2>1, <1>1, TaskAdded
<1>. QED  BY <1>2, <1>4, <1>5 DEF p, k

\* A task that is taken from the queue is no longer there.
LEMMA Dequeue ==
  ASSUME NEW s, NEW q, Sound(s, q), NEW x \in q
  PROVE  /\ Sound(s, q \ {x})
         /\ OnlyCall(s, q, s, q \ {x}, x.by, x.at)
         /\ TasksOf(s, q \ {x}, x.by, x.at)
              = WithoutTask(TasksOf(s, q, x.by, x.at), InQueue(x))
<1>. DEFINE p == q \ {x}  k == InQueue(x)
<1>1. /\ ChangesAt(s, q, s, p, k)
      /\ \A y : Holds(s, q, k, y) => y = x
      /\ \A y : ~Holds(s, p, k, y)
  <2>1. \A y : ~Holds(s, p, k, y)
    BY PlacesDistinct DEF Holds
  <2>. QED  BY <2>1, HoldsAfterQueue
<1>2. Sound(s, p)
  BY DEF Sound, Queued
<1>. HIDE DEF p, k
<1>3. ASSUME NEW b, NEW a, b # x.by \/ a # x.at
      PROVE  TasksOf(s, p, b, a) = TasksOf(s, q, b, a)
  <2>1. \A y : Holds(s, q, k, y) => ~IsTaskOf(y, b, a)
    BY <1>1, <1>3 DEF IsTaskOf
  <2>2. \A y : Holds(s, p, k, y) => ~IsTaskOf(y, b, a)
    BY <1>1
  <2>. QED  BY <1>1, <2>1, <2>2, TasksKept
<1>4. OnlyCall(s, q, s, p, x.by, x.at)
  BY <1>3 DEF OnlyCall
<1>5. TasksOf(s, p, x.by, x.at) = WithoutTask(TasksOf(s, q, x.by, x.at), k)
  <2>1. \A y : Holds(s, p, k, y) => ~IsTaskOf(y, x.by, x.at)
    BY <1>1
  <2>. QED  BY <2>1, <1>1, TaskRemoved
<1>. QED  BY <1>2, <1>4, <1>5 DEF p, k

-----------------------------------------------------------------------------
(* Fields *)

Update(c, pc, ran, counter) ==
  [c EXCEPT !.pc = pc, !.ran = ran, !.pending_jobs = counter]

\* An update changes place, tally and counter of a call, and not its work.
LEMMA Updated ==
  ASSUME NEW c \in Calls, NEW p \in CallPlaces, NEW r \in Tallies, NEW m \in Counters
  PROVE  LET d == Update(c, p, r, m)
         IN  /\ d \in Calls /\ d.pc = p /\ d.ran = r /\ d.pending_jobs = m
             /\ SameWork(c, d) /\ d.kind = c.kind /\ d.n = c.n
             /\ c.kind = "for" => d.next = c.next
<1>1. CASE c \in Fors
  BY <1>1 DEF Update, Calls, Fors, SameWork
<1>2. CASE c \in Blocks
  BY <1>2 DEF Update, Calls, Blocks, SameWork
<1>. QED  BY <1>1, <1>2 DEF Calls

\* Changing a field of a call is an update.
LEMMA Updates ==
  ASSUME NEW c \in Calls
  PROVE  /\ \A p : [c EXCEPT !.pc = p] = Update(c, p, c.ran, c.pending_jobs)
         /\ \A p, r : [c EXCEPT !.pc = p, !.ran = r] = Update(c, p, r, c.pending_jobs)
<1>1. CASE c \in Fors
  BY <1>1 DEF Update, Fors
<1>2. CASE c \in Blocks
  BY <1>2 DEF Update, Blocks
<1>. QED  BY <1>1, <1>2 DEF Calls

\* The types of the fields of a call.
LEMMA CallFields ==
  ASSUME NEW c \in Calls
  PROVE  /\ c.pc \in CallPlaces /\ c.ran \in Tallies /\ c.pending_jobs \in Counters
         /\ c.n \in Nat /\ c.kind \in {"for", "block"}
         /\ c.pending_jobs.state_ \in Nat
  BY DEF Calls, Fors, Blocks, Counters

\* y is task x but for its place in the code and what it has nested.
SameTask(x, y) ==
  /\ x.by = y.by /\ x.at = y.at
  /\ \/ x \in Jobs /\ y \in Jobs /\ x.i = y.i
     \/ x \in Ranges /\ y \in Ranges /\ x.first = y.first /\ x.last = y.last

\* Moving a task, or noting its parallel region, leaves what it has to do.
LEMMA TaskUpdates ==
  ASSUME NEW x \in Tasks
  PROVE  /\ \A p \in TaskPlaces : SameTask(x, [x EXCEPT !.pc = p]) /\ [x EXCEPT !.pc = p].pc = p
         /\ SameTask(x, [x EXCEPT !.nested = TRUE]) /\ [x EXCEPT !.nested = TRUE].pc = x.pc
<1>1. CASE x \in Jobs
  BY <1>1 DEF Jobs, SameTask
<1>2. CASE x \in Ranges
  BY <1>2 DEF Ranges, SameTask
<1>. QED  BY <1>1, <1>2 DEF Tasks

\* A task that has moved on has the same units.
LEMMA SameTaskFits ==
  ASSUME NEW c \in Calls, NEW x, Fits(c, x), NEW y, SameTask(x, y),
         c.kind = "block" /\ y.pc # "run" => x.last - x.first <= c.block_size
  PROVE  Fits(c, y) /\ Units(c, y) = Units(c, x) /\ y \in Tasks /\ y.kind = "task"
<1>1. c.kind \in {"for", "block"}
  BY CallFields
<1>2. CASE c.kind = "for"
  <2>1. x \in Jobs /\ y \in Jobs /\ x.i = y.i
    BY <1>2, JobsAreNotRanges DEF Fits, SameTask
  <2>. QED  BY <1>2, <2>1, FramesDistinct DEF Fits, Units, Tasks
<1>3. CASE c.kind = "block"
  <2>1. x \in Ranges /\ y \in Ranges /\ x.first = y.first /\ x.last = y.last
    BY <1>3, JobsAreNotRanges DEF Fits, SameTask
  <2>. QED  BY <1>3, <2>1, FramesDistinct DEF Fits, Units, Tasks
<1>. QED  BY <1>1, <1>2, <1>3

-----------------------------------------------------------------------------
(* The innermost frame *)

\* The innermost frame of a thread.
LEMMA TopFrame ==
  ASSUME IInv, NEW t \in Threads, stack[t] # <<>>
  PROVE  /\ Sound(stack, queue)
         /\ Len(stack[t]) \in DOMAIN stack[t]
         /\ Len(stack[t]) \in Nat \ {0}
         /\ Top(t) = stack[t][Len(stack[t])]
         /\ Top(t) \in Frame
         /\ \A f : SetTop(stack, t, f) = Replace(stack, t, Len(stack[t]), f)
<1>1. stack \in Stacks /\ Sound(stack, queue)
  BY DEF IInv, Good, Sound
<1>2. stack[t] \in Seq(Frame)
  BY <1>1 DEF Stacks
<1>3. Len(stack[t]) \in Nat \ {0} /\ Len(stack[t]) \in DOMAIN stack[t]
  BY <1>2
<1>4. Top(t) = stack[t][Len(stack[t])] /\ Top(t) \in Frame
  BY <1>2, <1>3 DEF Top, Last
<1>. QED  BY <1>1, <1>3, <1>4 DEF SetTop, Replace

\* If the innermost frame is a call, it is consistent with its tasks.
LEMMA TopCall ==
  ASSUME IInv, NEW t \in Threads, stack[t] # <<>>, Top(t).kind # "task"
  PROVE  /\ Top(t) \in Calls /\ Top(t).kind \in {"for", "block"}
         /\ CallOK(Top(t), TasksOf(stack, queue, t, Len(stack[t])))
         /\ Len(stack[t]) <= MaxDepth
<1>. DEFINE d == Len(stack[t])
<1>1. d \in DOMAIN stack[t] /\ Top(t) = stack[t][d] /\ Top(t) \in Calls
  BY TopFrame, FramesDistinct
<1>2. Placed(stack, t, d) /\ CallOK(stack[t][d], TasksOf(stack, queue, t, d))
  BY <1>1 DEF IInv, Good, Sound, CallsOK
<1>3. Top(t).kind \in {"for", "block"}
  BY <1>1, CallFields
<1>. QED  BY <1>1, <1>2, <1>3 DEF Placed

\* The call of a task that is somewhere.
LEMMA CallOfTask ==
  ASSUME IInv, NEW k, NEW x, Holds(stack, queue, k, x), x.kind = "task"
  PROVE  /\ x \in Tasks /\ x.by \in Threads /\ x.at \in DOMAIN stack[x.by]
         /\ CallOf(x).kind # "task" /\ HasCall(stack, x) /\ CallExists(x)
         /\ CallOK(CallOf(x), TasksOf(stack, queue, x.by, x.at))
         /\ k \in DOMAIN TasksOf(stack, queue, x.by, x.at)
         /\ TasksOf(stack, queue, x.by, x.at)[k] = x
         /\ CallOf(x) \in Calls /\ CallOf(x).pc # "done"
         /\ Shape(CallOf(x)) /\ Fits(CallOf(x), x)
<1>. DEFINE J == TasksOf(stack, queue, x.by, x.at)
<1>1. stack \in Stacks /\ Queued(stack, queue)
      /\ \A u \in Threads : \A e \in DOMAIN stack[u] : Placed(stack, u, e)
      /\ CallsOK(stack, queue)
  BY DEF IInv, Good, Sound
<1>2. x \in Tasks /\ HasCall(stack, x)
  <2>1. CASE x \in queue
    BY <2>1, <1>1 DEF Queued
  <2>2. CASE \E t \in Threads : \E d \in DOMAIN stack[t] : x = stack[t][d]
    BY <2>2, <1>1, FramesDistinct DEF Stacks, Placed
  <2>. QED  BY <2>1, <2>2 DEF Holds
<1>3. x.by \in Threads /\ x.at \in DOMAIN stack[x.by] /\ CallOf(x).kind # "task"
  BY <1>2, FramesDistinct DEF HasCall, CallOf
<1>4. CallOK(CallOf(x), J)
  BY <1>1, <1>3 DEF CallsOK, CallOf
<1>5. k \in DOMAIN J /\ J[k] = x
  <2>1. IsTaskOf(x, x.by, x.at)
    BY DEF IsTaskOf
  <2>2. k \in DOMAIN J /\ Holds(stack, queue, k, J[k])
    BY <2>1, TasksHeld
  <2>. QED  BY <2>2, HoldsOne
<1>6. CallExists(x)
  <2>1. stack[x.by] \in Seq(Frame)
    BY <1>1, <1>3 DEF Stacks
  <2>. QED  BY <2>1, <1>3 DEF CallExists, CallOf
<1>. HIDE DEF J
<1>7. CallOf(x) \in Calls /\ CallOf(x).pc # "done" /\ Shape(CallOf(x)) /\ Fits(CallOf(x), x)
  BY <1>4, <1>5, HasTask
<1>. QED  BY <1>2, <1>3, <1>4, <1>5, <1>6, <1>7 DEF J

\* If the innermost frame is a task, its place holds it.
LEMMA TopTask ==
  ASSUME IInv, NEW t \in Threads, stack[t] # <<>>, Top(t).kind = "task"
  PROVE  Holds(stack, queue, OnStack(t, Len(stack[t])), Top(t))
  BY TopFrame DEF Holds

-----------------------------------------------------------------------------
(* The steps of the calls *)

\* A call may be replaced by one that is consistent with the same tasks.
LEMMA CallReplaced ==
  ASSUME IInv, NEW t \in Threads, stack[t] # <<>>, Top(t).kind # "task",
         NEW f \in Calls, f.kind = Top(t).kind,
         CallOK(f, TasksOf(stack, queue, t, Len(stack[t])))
  PROVE  Good(SetTop(stack, t, f), queue)
<1>. DEFINE d == Len(stack[t])  r == Replace(stack, t, d, f)
<1>1. /\ Sound(stack, queue) /\ d \in DOMAIN stack[t] /\ Top(t) = stack[t][d]
      /\ SetTop(stack, t, f) = r
  BY TopFrame
<1>2. /\ Sound(r, queue)
      /\ OnlyCall(stack, queue, r, queue, t, d)
      /\ TasksOf(r, queue, t, d) = TasksOf(stack, queue, t, d)
      /\ r[t][d] = f
  BY <1>1, ChangeCall
<1>3. Good(stack, queue) /\ CallOK(f, TasksOf(stack, queue, t, d))
  BY DEF IInv
<1>. HIDE DEF d, r
<1>4. Good(r, queue)
  BY <1>2, <1>3, StillGood
<1>. QED  BY <1>1, <1>4

\* The same for an action that changes the innermost call.
LEMMA CallChanges ==
  ASSUME IInv, NEW t \in Threads, stack[t] # <<>>, Top(t).kind # "task",
         NEW f \in Calls, f.kind = Top(t).kind,
         CallOK(f, TasksOf(stack, queue, t, Len(stack[t]))), SetCall(t, f)
  PROVE  IInv'
<1>1. Good(SetTop(stack, t, f), queue)
  BY CallReplaced
<1>. QED  BY <1>1 DEF IInv, SetCall

\* mu_ is held only by a task of a call whose waiter is in Wait().
LEMMA MuNotHeld ==
  ASSUME NEW c, NEW J, CallOK(c, J), c.pc \notin {"done", "lock"}
  PROVE  ~c.pending_jobs.mu_
<1>1. Notified(c, J)
  BY DEF CallOK, Busy
<1>. QED  BY <1>1 DEF Notified, Pending

\* EndSchedule keeps the invariant.
LEMMA EndScheduleStep ==
  ASSUME IInv, NEW t \in Threads, EndSchedule(t)
  PROVE  IInv'
<1>. DEFINE c == Top(t)  J == TasksOf(stack, queue, t, Len(stack[t]))
            p == IF c.toSchedule < c.njobs THEN "own" ELSE "wait"
            f == Update(c, p, c.ran, c.pending_jobs)
<1>1. /\ stack[t] # <<>> /\ c.kind = "for" /\ c.kind # "task" /\ c.pc = "schedule"
      /\ c.next = c.toSchedule
      /\ SetCall(t, [c EXCEPT !.pc = p])
  BY DEF EndSchedule
<1>2. c \in Calls /\ CallOK(c, J)
  BY <1>1, TopCall
<1>. HIDE DEF c, J, p
<1>3. p \in CallPlaces /\ p \in {"own", "wait"} /\ (p = "own" <=> c.toSchedule < c.njobs)
  BY DEF p, CallPlaces
<1>4. /\ f \in Calls /\ f.pc = p /\ f.ran = c.ran /\ f.pending_jobs = c.pending_jobs
      /\ SameWork(c, f) /\ f.kind = c.kind /\ f.n = c.n /\ f.next = c.next
  BY <1>1, <1>2, <1>3, CallFields, Updated
<1>5. SetCall(t, f)
  <2>1. [c EXCEPT !.pc = p] = f
    BY <1>2, Updates
  <2>. QED  BY <1>1, <2>1
<1>. HIDE DEF f
<1>6. Shape(c)
  BY <1>1, <1>2 DEF CallOK, Busy
<1>7. c.njobs \in Nat /\ c.toSchedule \in Nat
  BY <1>1, <1>2 DEF Calls, Fors, Blocks
<1>8. Shape(f)
  BY <1>1, <1>3, <1>4, <1>6, <1>7 DEF Shape, SameWork
<1>9. Unscheduled(f) = Unscheduled(c)
  BY <1>1, <1>3, <1>4, <1>7 DEF Unscheduled
<1>10. Own(f) = Own(c)
  <2>1. f.toSchedule = c.toSchedule /\ f.njobs = c.njobs
    BY <1>1, <1>4 DEF SameWork
  <2>. QED  BY <2>1, <1>1, <1>3, <1>4, <1>7 DEF Own
<1>11. ~c.pending_jobs.mu_
  BY <1>1, <1>2, MuNotHeld
<1>12. CallOK(f, J)
  BY <1>1, <1>2, <1>3, <1>4, <1>8, <1>9, <1>10, <1>11, CallMoves
<1>. QED  BY <1>1, <1>4, <1>5, <1>12, CallChanges DEF c, J

\* OwnJob keeps the invariant.
LEMMA OwnJobStep ==
  ASSUME IInv, NEW t \in Threads, OwnJob(t)
  PROVE  IInv'
<1>. DEFINE c == Top(t)  J == TasksOf(stack, queue, t, Len(stack[t]))
            g == Execute(c.ran, run_jobs(c.balance, c.njobs - 1, c.n, c.njobs))
            f == Update(c, "wait", g, c.pending_jobs)
<1>1. /\ stack[t] # <<>> /\ c.kind = "for" /\ c.kind # "task" /\ c.pc = "own"
      /\ SetCall(t, [c EXCEPT !.pc = "wait", !.ran = g])
  BY DEF OwnJob
<1>2. c \in Calls /\ CallOK(c, J)
  BY <1>1, TopCall
<1>3. g \in Tallies
  <2>1. c.ran \in [0 .. c.n - 1 -> Nat] /\ c.n \in Nat
    BY <1>2, CallFields DEF CallOK
  <2>. DEFINE W == run_jobs(c.balance, c.njobs - 1, c.n, c.njobs)  n == c.n  h == c.ran
  <2>2. h \in [0 .. n - 1 -> Nat] /\ n \in Nat
    BY <2>1
  <2>. HIDE DEF W, n, h, c
  <2>3. Execute(h, W) \in [0 .. n - 1 -> Nat]
    BY <2>2 DEF Execute
  <2>4. Execute(h, W) \in Tallies
    BY <2>2, <2>3 DEF Tallies
  <2>. QED  BY <2>4 DEF W, n, h
<1>. HIDE DEF c, J
<1>4. /\ f \in Calls /\ f.pc = "wait" /\ f.ran = g /\ f.pending_jobs = c.pending_jobs
      /\ SameWork(c, f) /\ f.kind = c.kind /\ f.n = c.n /\ f.next = c.next
  <2>1. "wait" \in CallPlaces
    BY DEF CallPlaces
  <2>. HIDE DEF g
  <2>. QED  BY <1>1, <1>2, <1>3, <2>1, CallFields, Updated
<1>5. SetCall(t, f)
  <2>1. [c EXCEPT !.pc = "wait", !.ran = g] = f
    <3>. HIDE DEF g
    <3>. QED  BY <1>2, Updates
  <2>. QED  BY <1>1, <2>1
<1>. HIDE DEF f
<1>6. Shape(c)
  BY <1>1, <1>2 DEF CallOK, Busy
<1>7. Shape(f)
  BY <1>1, <1>4, <1>6 DEF Shape, SameWork
<1>8. CallOK(f, J)
  BY <1>1, <1>2, <1>4, <1>7, OwnJobRun
<1>. QED  BY <1>1, <1>4, <1>5, <1>8, CallChanges DEF c, J

\* WaitFetchOr keeps the invariant.
LEMMA WaitFetchOrStep ==
  ASSUME IInv, NEW t \in Threads, WaitFetchOr(t)
  PROVE  IInv'
<1>. DEFINE c == Top(t)  J == TasksOf(stack, queue, t, Len(stack[t]))
            v == c.pending_jobs.state_
            w == IF v % 2 = 0 THEN v + 1 ELSE v
            p == IF v \div 2 = 0 THEN "done" ELSE "lock"
            m == [c.pending_jobs EXCEPT !.state_ = w]
            f == Update(c, p, c.ran, m)
<1>1. /\ stack[t] # <<>> /\ c.kind # "task" /\ c.pc = "wait"
      /\ SetCall(t, [c EXCEPT !.pending_jobs.state_ = w, !.pc = p])
  BY DEF WaitFetchOr
<1>2. c \in Calls /\ CallOK(c, J)
  BY <1>1, TopCall
<1>. HIDE DEF c, J
<1>3. p \in CallPlaces /\ p \in {"done", "lock"} /\ (p = "done" <=> v \div 2 = 0)
  BY DEF p, CallPlaces
<1>. HIDE DEF p
<1>4. Shape(c) /\ Counted(c, J) /\ Cardinality(Uncounted(c, J)) \in Nat
  BY <1>1, <1>2, UnitsAreUnits DEF CallOK, Busy
<1>5. v \in Nat /\ w = v + 1
  <2>. DEFINE a == Cardinality(Uncounted(c, J))
  <2>1. a \in Nat /\ v = 2 * a
    BY <1>1, <1>4 DEF Counted
  <2>. HIDE DEF a, v
  <2>. QED  BY <2>1
<1>. HIDE DEF w, v
<1>6. /\ m \in Counters /\ m.state_ = w /\ m.mu_ = c.pending_jobs.mu_
      /\ m.notified_ = c.pending_jobs.notified_
  BY <1>2, <1>5, CallFields DEF Counters
<1>7. SetCall(t, f)
  <2>1. [c EXCEPT !.pending_jobs.state_ = w, !.pc = p] = f
    <3>1. CASE c \in Fors
      BY <3>1 DEF Update, Fors
    <3>2. CASE c \in Blocks
      BY <3>2 DEF Update, Blocks
    <3>. QED  BY <1>2, <3>1, <3>2 DEF Calls
  <2>. QED  BY <1>1, <2>1
<1>. HIDE DEF m
<1>8. /\ f \in Calls /\ f.pc = p /\ f.ran = c.ran /\ f.pending_jobs = m
      /\ SameWork(c, f) /\ f.kind = c.kind /\ f.n = c.n
      /\ c.kind = "for" => f.next = c.next
  BY <1>2, <1>3, <1>6, CallFields, Updated
<1>. HIDE DEF f
<1>9. CASE p = "done"
  <2>1. Uncounted(c, J) = {} /\ DOMAIN J = {} /\ v = 0
    BY <1>1, <1>2, <1>3, <1>9, WaitFindsZero DEF v
  <2>2. CallOK(f, J)
    BY <1>1, <1>2, <1>5, <1>6, <1>8, <1>9, <2>1, CallEnds
  <2>. QED  BY <1>1, <1>7, <1>8, <2>2, CallChanges DEF c, J
<1>10. CASE p = "lock"
  <2>1. Shape(f)
    BY <1>1, <1>4, <1>8, <1>10 DEF Shape, SameWork
  <2>2. Unscheduled(f) = Unscheduled(c) /\ Own(f) = Own(c)
    BY <1>1, <1>8, <1>10 DEF Unscheduled, Own
  <2>3. ~c.pending_jobs.mu_
    BY <1>1, <1>2, MuNotHeld
  <2>4. f.pending_jobs.state_ = c.pending_jobs.state_ + 1
    BY <1>5, <1>6, <1>8 DEF v
  <2>5. CallOK(f, J)
    BY <1>1, <1>2, <1>6, <1>8, <1>10, <2>1, <2>2, <2>3, <2>4, CallMoves
  <2>. QED  BY <1>1, <1>7, <1>8, <2>5, CallChanges DEF c, J
<1>. QED  BY <1>3, <1>9, <1>10

\* WaitLocked keeps the invariant.
LEMMA WaitLockedStep ==
  ASSUME IInv, NEW t \in Threads, WaitLocked(t)
  PROVE  IInv'
<1>. DEFINE c == Top(t)  J == TasksOf(stack, queue, t, Len(stack[t]))
            p == IF c.pending_jobs.notified_ THEN "done" ELSE "sleep"
            f == Update(c, p, c.ran, c.pending_jobs)
<1>1. /\ stack[t] # <<>> /\ c.kind # "task" /\ c.pc = "lock" /\ ~c.pending_jobs.mu_
      /\ SetCall(t, [c EXCEPT !.pc = p])
  BY DEF WaitLocked
<1>2. c \in Calls /\ CallOK(c, J)
  BY <1>1, TopCall
<1>. HIDE DEF c, J
<1>3. p \in CallPlaces /\ p \in {"done", "sleep"} /\ (p = "done" => c.pending_jobs.notified_)
  BY DEF p, CallPlaces
<1>. HIDE DEF p
<1>4. SetCall(t, f)
  <2>1. [c EXCEPT !.pc = p] = f
    BY <1>2, Updates
  <2>. QED  BY <1>1, <2>1
<1>5. /\ f \in Calls /\ f.pc = p /\ f.ran = c.ran /\ f.pending_jobs = c.pending_jobs
      /\ SameWork(c, f) /\ f.kind = c.kind /\ f.n = c.n
      /\ c.kind = "for" => f.next = c.next
  BY <1>2, <1>3, CallFields, Updated
<1>. HIDE DEF f
<1>6. CASE p = "done"
  <2>1. Uncounted(c, J) = {} /\ DOMAIN J = {} /\ c.pending_jobs.state_ = 1
    BY <1>1, <1>2, <1>3, <1>6, WaitFindsNotified
  <2>2. CallOK(f, J)
    BY <1>1, <1>2, <1>5, <1>6, <2>1, CallEnds
  <2>. QED  BY <1>1, <1>4, <1>5, <2>2, CallChanges DEF c, J
<1>7. CASE p = "sleep"
  <2>0. Shape(c)
    BY <1>1, <1>2 DEF CallOK, Busy
  <2>1. Shape(f)
    BY <1>1, <1>5, <1>7, <2>0 DEF Shape, SameWork
  <2>2. Unscheduled(f) = Unscheduled(c) /\ Own(f) = Own(c)
    BY <1>1, <1>5, <1>7 DEF Unscheduled, Own
  <2>3. CallOK(f, J)
    BY <1>1, <1>2, <1>5, <1>7, <2>1, <2>2, CallMoves
  <2>. QED  BY <1>1, <1>4, <1>5, <2>3, CallChanges DEF c, J
<1>. QED  BY <1>3, <1>6, <1>7

\* SpuriousWakeup keeps the invariant.
LEMMA SpuriousWakeupStep ==
  ASSUME IInv, NEW t \in Threads, SpuriousWakeup(t)
  PROVE  IInv'
<1>. DEFINE c == Top(t)  J == TasksOf(stack, queue, t, Len(stack[t]))
            f == Update(c, "lock", c.ran, c.pending_jobs)
<1>1. /\ stack[t] # <<>> /\ c.kind # "task" /\ c.pc = "sleep"
      /\ SetCall(t, [c EXCEPT !.pc = "lock"])
  BY DEF SpuriousWakeup
<1>2. c \in Calls /\ CallOK(c, J)
  BY <1>1, TopCall
<1>. HIDE DEF c, J
<1>3. SetCall(t, f)
  <2>1. [c EXCEPT !.pc = "lock"] = f
    BY <1>2, Updates
  <2>. QED  BY <1>1, <2>1
<1>4. /\ f \in Calls /\ f.pc = "lock" /\ f.ran = c.ran /\ f.pending_jobs = c.pending_jobs
      /\ SameWork(c, f) /\ f.kind = c.kind /\ f.n = c.n
      /\ c.kind = "for" => f.next = c.next
  <2>1. "lock" \in CallPlaces
    BY DEF CallPlaces
  <2>. QED  BY <1>2, <2>1, CallFields, Updated
<1>. HIDE DEF f
<1>5. Shape(c) /\ ~c.pending_jobs.mu_
  BY <1>1, <1>2, MuNotHeld DEF CallOK, Busy
<1>6. Shape(f)
  BY <1>1, <1>4, <1>5 DEF Shape, SameWork
<1>7. Unscheduled(f) = Unscheduled(c) /\ Own(f) = Own(c)
  BY <1>1, <1>4 DEF Unscheduled, Own
<1>8. CallOK(f, J)
  BY <1>1, <1>2, <1>4, <1>5, <1>6, <1>7, CallMoves
<1>. QED  BY <1>1, <1>3, <1>4, <1>8, CallChanges DEF c, J

\* Return keeps the invariant.
LEMMA ReturnStep ==
  ASSUME IInv, NEW t \in Threads, Return(t)
  PROVE  IInv'
<1>. DEFINE d == Len(stack[t])  r == Pop(stack, t)
<1>1. /\ stack[t] # <<>> /\ Top(t).kind # "task" /\ Top(t).pc = "done"
      /\ stack' = r /\ queue' = queue
  BY DEF Return
<1>2. /\ Sound(stack, queue) /\ Top(t) = stack[t][d]
      /\ CallOK(Top(t), TasksOf(stack, queue, t, d))
  BY <1>1, TopFrame, TopCall
<1>3. DOMAIN TasksOf(stack, queue, t, d) = {}
  BY <1>1, <1>2 DEF CallOK, Over
<1>4. /\ Sound(r, queue)
      /\ OnlyCall(stack, queue, r, queue, t, d)
      /\ d \notin DOMAIN r[t]
  BY <1>1, <1>2, <1>3, RemoveCall
<1>. HIDE DEF d, r
<1>5. Good(r, queue)
  BY <1>4, StillGood DEF IInv
<1>. QED  BY <1>1, <1>5 DEF IInv

\* A consistent call without tasks may be pushed.
LEMMA CallMade ==
  ASSUME NEW s, NEW q, Good(s, q), NEW t \in Threads, NEW f \in Calls,
         Len(s[t]) < MaxDepth,
         \A J : DOMAIN J = {} => CallOK(f, J)
  PROVE  Good(Push(s, t, f), q)
<1>. DEFINE r == Push(s, t, f)  d == Len(s[t]) + 1
<1>1. Sound(s, q)
  BY DEF Good
<1>2. /\ Sound(r, q)
      /\ OnlyCall(s, q, r, q, t, d)
      /\ DOMAIN TasksOf(r, q, t, d) = {}
      /\ r[t][d] = f
  BY <1>1, AddCall
<1>. HIDE DEF r, d
<1>3. Good(r, q)
  BY <1>2, StillGood
<1>. QED  BY <1>3 DEF r

\* A task may move on if its call remains consistent.
LEMMA TaskReplaced ==
  ASSUME IInv, NEW t \in Threads, stack[t] # <<>>, Top(t).kind = "task",
         NEW f, SameTask(Top(t), f),
         CallOK(CallOf(f), WithTask(TasksOf(stack, queue, f.by, f.at),
                                    OnStack(t, Len(stack[t])), f))
  PROVE  Good(SetTop(stack, t, f), queue)
<1>. DEFINE d == Len(stack[t])  r == Replace(stack, t, d, f)
<1>1. /\ Sound(stack, queue) /\ d \in DOMAIN stack[t] /\ Top(t) = stack[t][d]
      /\ SetTop(stack, t, f) = r
  BY TopFrame
<1>2. /\ f.by = stack[t][d].by /\ f.at = stack[t][d].at
      /\ \/ f \in Jobs /\ stack[t][d] \in Jobs
         \/ f \in Ranges /\ stack[t][d] \in Ranges /\ f.first = stack[t][d].first
  BY <1>1 DEF SameTask
<1>3. /\ Sound(r, queue)
      /\ OnlyCall(stack, queue, r, queue, f.by, f.at)
      /\ TasksOf(r, queue, f.by, f.at)
           = WithTask(TasksOf(stack, queue, f.by, f.at), OnStack(t, d), f)
      /\ r[f.by][f.at] = stack[f.by][f.at]
  BY <1>1, <1>2, ChangeTask
<1>4. Good(stack, queue)
      /\ CallOK(stack[f.by][f.at], WithTask(TasksOf(stack, queue, f.by, f.at), OnStack(t, d), f))
  BY DEF IInv, CallOf
<1>. HIDE DEF d, r
<1>5. Good(r, queue)
  BY <1>3, <1>4, StillGood
<1>. QED  BY <1>1, <1>5

\* Noting a parallel region inside an own job.
LEMMA NestedInCall ==
  ASSUME IInv, NEW t \in Threads, stack[t] # <<>>, Top(t).kind = "for", Top(t).pc = "own"
  PROVE  Good(SetTop(stack, t, [Top(t) EXCEPT !.nested = TRUE]), queue)
<1>. DEFINE c == Top(t)  J == TasksOf(stack, queue, t, Len(stack[t]))
            f == [c EXCEPT !.nested = TRUE]
<1>1. c \in Calls /\ CallOK(c, J)
  BY TopCall
<1>2. c.kind = "for" /\ c.pc = "own"
  OBVIOUS
<1>3. Good(stack, queue)
  BY DEF IInv
<1>. HIDE DEF c, J
<1>4. /\ f \in Calls /\ f.pc = c.pc /\ f.ran = c.ran /\ f.pending_jobs = c.pending_jobs
      /\ SameWork(c, f) /\ f.kind = c.kind /\ f.n = c.n /\ f.next = c.next
  <2>1. c \in Fors
    BY <1>1, <1>2 DEF Calls, Fors, Blocks
  <2>. QED  BY <2>1 DEF Fors, SameWork, Calls
<1>. HIDE DEF f
<1>5. Shape(c)
  BY <1>1, <1>2 DEF CallOK, Busy
<1>6. Shape(f)
  BY <1>2, <1>4, <1>5 DEF Shape, SameWork
<1>7. Unscheduled(f) = Unscheduled(c) /\ Own(f) = Own(c)
  BY <1>2, <1>4 DEF Unscheduled, Own, SameWork
<1>8. CallOK(f, J)
  BY <1>1, <1>2, <1>4, <1>6, <1>7, CallMoves
<1>. QED  BY <1>2, <1>4, <1>8, CallReplaced DEF c, J, f

\* Noting a parallel region inside a task.
LEMMA NestedInTask ==
  ASSUME IInv, NEW t \in Threads, stack[t] # <<>>, Top(t).kind = "task"
  PROVE  Good(SetTop(stack, t, [Top(t) EXCEPT !.nested = TRUE]), queue)
<1>. DEFINE x == Top(t)  J == TasksOf(stack, queue, x.by, x.at)
            k == OnStack(t, Len(stack[t]))  c == CallOf(x)
            f == [x EXCEPT !.nested = TRUE]
<1>1. Holds(stack, queue, k, x)
  BY TopTask
<1>2. /\ x \in Tasks /\ CallOK(c, J) /\ k \in DOMAIN J /\ J[k] = x
      /\ c \in Calls /\ Fits(c, x)
  BY <1>1, CallOfTask
<1>3. SameTask(x, f) /\ f.pc = x.pc
  BY <1>2, TaskUpdates
<1>4. c = CallOf(f) /\ f.by = x.by /\ f.at = x.at
  BY <1>3 DEF SameTask, CallOf
<1>. HIDE DEF k, c, f
<1>5. Fits(c, f) /\ Units(c, f) = Units(c, x)
  <2>1. c.kind = "block" /\ f.pc # "run" => x.last - x.first <= c.block_size
    BY <1>2, <1>3 DEF Fits
  <2>. QED  BY <2>1, <1>2, <1>3, SameTaskFits
<1>. HIDE DEF x, J
<1>6. CallOK(c, WithTask(WithoutTask(J, k), k, f))
  BY <1>2, <1>3, <1>5, TaskMoves
<1>7. WithTask(WithoutTask(J, k), k, f) = WithTask(J, k, f)
  BY <1>2 DEF WithTask, WithoutTask
<1>8. CallOK(c, WithTask(J, k, f))
  BY <1>6, <1>7
<1>9. CallOK(CallOf(f), WithTask(TasksOf(stack, queue, f.by, f.at), OnStack(t, Len(stack[t])), f))
  BY <1>4, <1>8 DEF J, k
<1>. QED  BY <1>3, <1>9, TaskReplaced DEF x, f

\* A call starts, with a frame that is consistent as long as it has no tasks.
LEMMA CallStep ==
  ASSUME IInv, NEW t \in Threads, NEW n, NEW f, \A J : DOMAIN J = {} => CallOK(f, J),
         Call(t, n, f)
  PROVE  IInv'
<1>1. /\ queue' = queue
      /\ \/ stack[t] = <<>> /\ stack' = Push(stack, t, f)
         \/ /\ InFn(t) /\ Len(stack[t]) < MaxDepth
            /\ stack' = Push(SetTop(stack, t, [Top(t) EXCEPT !.nested = TRUE]), t, f)
  BY DEF Call
<1>2. f \in Calls
  <2>1. DOMAIN [k \in {} |-> 0] = {}
    OBVIOUS
  <2>. QED  BY <2>1 DEF CallOK
<1>3. CASE stack[t] = <<>> /\ stack' = Push(stack, t, f)
  <2>1. Len(stack[t]) < MaxDepth
    BY <1>3, PoolAssumption
  <2>2. Good(Push(stack, t, f), queue)
    BY <1>2, <2>1, CallMade DEF IInv
  <2>. QED  BY <1>1, <1>3, <2>2 DEF IInv
<1>4. CASE /\ InFn(t) /\ Len(stack[t]) < MaxDepth
           /\ stack' = Push(SetTop(stack, t, [Top(t) EXCEPT !.nested = TRUE]), t, f)
  <2>. DEFINE g == [Top(t) EXCEPT !.nested = TRUE]  s == SetTop(stack, t, g)
  <2>1. stack[t] # <<>>
        /\ ((Top(t).kind = "for" /\ Top(t).pc = "own") \/ Top(t).kind = "task")
    BY <1>4 DEF InFn
  <2>2. Good(s, queue)
    BY <2>1, NestedInCall, NestedInTask
  <2>3. stack' = Push(s, t, f)
    BY <1>4
  <2>4. Len(s[t]) = Len(stack[t])
    <3>1. stack \in Stacks
      BY DEF IInv, Good, Sound
    <3>2. stack[t] \in Seq(Frame)
      BY <3>1 DEF Stacks
    <3>. HIDE DEF g
    <3>3. s[t] = [stack[t] EXCEPT ![Len(stack[t])] = g]
      BY <3>1 DEF SetTop, Stacks
    <3>. QED  BY <3>2, <3>3
  <2>. HIDE DEF s
  <2>5. Good(Push(s, t, f), queue)
    BY <1>2, <1>4, <2>2, <2>4, CallMade
  <2>. QED  BY <1>1, <2>3, <2>5 DEF IInv
<1>. QED  BY <1>1, <1>3, <1>4

\* Both kinds of call keep the invariant.
LEMMA ParallelForStep ==
  ASSUME IInv, NEW t \in Threads, NEW n \in 1 .. MaxN, NEW num_threads \in Asked,
         NEW cpus \in CPUs, parallel_for(t, n, num_threads, cpus)
  PROVE  IInv'
<1>. DEFINE f == ForFrame(n, num_threads, cpus)
<1>1. \A J : DOMAIN J = {} => CallOK(f, J)
  BY NewFor
<1>2. Call(t, n, f)
  BY DEF parallel_for
<1>. HIDE DEF f
<1>. QED  BY <1>1, <1>2, CallStep

LEMMA ParallelForFixedBlockSizeSchedulingStep ==
  ASSUME IInv, NEW t \in Threads, NEW total \in 1 .. MaxN, NEW block_size \in 0 .. total,
         ParallelForFixedBlockSizeScheduling(t, total, block_size)
  PROVE  IInv'
<1>. DEFINE f == BlockFrame(total, block_size)
<1>1. \A J : DOMAIN J = {} => CallOK(f, J)
  BY NewBlock
<1>2. Call(t, total, f)
  BY DEF ParallelForFixedBlockSizeScheduling
<1>. HIDE DEF f
<1>. QED  BY <1>1, <1>2, CallStep

-----------------------------------------------------------------------------
(* Scheduling *)

\* Replacing the innermost frame keeps the depth.
LEMMA LengthKept ==
  ASSUME IInv, NEW t \in Threads, NEW f
  PROVE  Len(SetTop(stack, t, f)[t]) = Len(stack[t])
<1>1. stack \in Stacks
  BY DEF IInv, Good, Sound
<1>2. stack[t] \in Seq(Frame)
  BY <1>1 DEF Stacks
<1>3. SetTop(stack, t, f)[t] = [stack[t] EXCEPT ![Len(stack[t])] = f]
  BY <1>1 DEF SetTop, Stacks
<1>. QED  BY <1>2, <1>3

\* A call schedules one of its tasks, into the queue or onto the stack.
LEMMA CallSchedules ==
  ASSUME IInv, NEW t \in Threads, stack[t] # <<>>, Top(t).kind # "task",
         NEW f \in Calls, f.kind = Top(t).kind,
         NEW x \in Tasks, x.by = t, x.at = Len(stack[t]), x.pc = "run",
         x \in Jobs => Len(stack[t]) <= MaxDepth,
         x \in Ranges => Len(stack[t]) <= MaxDepth + x.first,
         NEW J, J = TasksOf(stack, queue, t, Len(stack[t])),
         InQueue(x) \notin DOMAIN J,
         \A k : k \notin DOMAIN J => CallOK(f, WithTask(J, k, x))
  PROVE  /\ Good(Push(SetTop(stack, t, f), t, x), queue)
         /\ Good(SetTop(stack, t, f), queue \cup {x})
<1>. DEFINE d == Len(stack[t])  r == SetTop(stack, t, f)
<1>1. /\ Sound(stack, queue) /\ d \in DOMAIN stack[t] /\ Top(t) = stack[t][d]
      /\ r = Replace(stack, t, d, f)
  BY TopFrame
<1>2. /\ Sound(r, queue)
      /\ OnlyCall(stack, queue, r, queue, t, d)
      /\ TasksOf(r, queue, t, d) = J
      /\ r[t][d] = f
  BY <1>1, ChangeCall
<1>3. Len(r[t]) = d /\ x.at = d /\ Good(stack, queue)
  BY LengthKept DEF IInv
<1>4. HasCall(r, x)
  <2>1. f.kind # "task"
    OBVIOUS
  <2>2. d \in DOMAIN r[t]
    <3>1. stack \in Stacks /\ f \in Frame
      BY <1>1 DEF Sound, Frame
    <3>. QED  BY <1>1, <3>1, ReplaceFrame
  <2>. QED  BY <2>1, <2>2, <1>2, <1>3 DEF HasCall
<1>5. (x \in Jobs => Len(r[t]) <= MaxDepth) /\ (x \in Ranges => Len(r[t]) <= MaxDepth + x.first)
  BY <1>3
<1>. HIDE DEF d, r
<1>6. Good(Push(r, t, x), queue)
  <2>. DEFINE v == Push(r, t, x)  k == OnStack(t, Len(r[t]) + 1)
  <2>1. /\ Sound(v, queue)
        /\ OnlyCall(r, queue, v, queue, x.by, x.at)
        /\ TasksOf(v, queue, x.by, x.at) = WithTask(TasksOf(r, queue, x.by, x.at), k, x)
        /\ v[x.by][x.at] = r[x.by][x.at]
        /\ k \notin DOMAIN TasksOf(r, queue, x.by, x.at)
    BY <1>2, <1>4, <1>5, AddTask
  <2>. HIDE DEF v, k
  <2>2. CallOK(v[t][d], TasksOf(v, queue, t, d))
    BY <2>1, <1>2, <1>3
  <2>3. OnlyCall(stack, queue, v, queue, t, d)
    BY <2>1, <1>2, <1>3, OnlyCallTwice
  <2>4. Good(v, queue)
    BY <2>1, <2>2, <2>3, <1>3, StillGood
  <2>. QED  BY <2>4 DEF v
<1>7. Good(r, queue \cup {x})
  <2>. DEFINE p == queue \cup {x}
  <2>1. /\ Sound(r, p)
        /\ OnlyCall(r, queue, r, p, x.by, x.at)
        /\ TasksOf(r, p, x.by, x.at) = WithTask(TasksOf(r, queue, x.by, x.at), InQueue(x), x)
    BY <1>2, <1>4, Enqueue
  <2>. HIDE DEF p
  <2>2. CallOK(r[t][d], TasksOf(r, p, t, d))
    BY <2>1, <1>2, <1>3
  <2>3. OnlyCall(stack, queue, r, p, t, d)
    BY <2>1, <1>2, <1>3, OnlyCallTwice
  <2>4. Good(r, p)
    BY <2>1, <2>2, <2>3, <1>3, StillGood
  <2>. QED  BY <2>4 DEF p
<1>. QED  BY <1>6, <1>7 DEF r

\* A task that is about to be scheduled is not in the queue.
LEMMA NotYetQueued ==
  ASSUME NEW s, NEW q, NEW b, NEW a, NEW c, NEW J, J = TasksOf(s, q, b, a),
         CallOK(c, J), c.pc = "schedule",
         NEW x, x.pc = "run", Units(c, x) \subseteq Unscheduled(c), Units(c, x) # {}
  PROVE  InQueue(x) \notin DOMAIN J
<1>. SUFFICES ASSUME InQueue(x) \in DOMAIN J PROVE FALSE
  OBVIOUS
<1>1. J[InQueue(x)] = x
  BY TasksAre
<1>2. Apart(c, J)
  BY DEF CallOK, Busy
<1>3. Pending(J, InQueue(x))
  BY <1>1 DEF Pending
<1>. QED  BY <1>1, <1>2, <1>3 DEF Apart

\* ScheduleJob keeps the invariant.
LEMMA ScheduleJobStep ==
  ASSUME IInv, NEW t \in Threads, ScheduleJob(t)
  PROVE  IInv'
<1>. DEFINE c == Top(t)  d == Len(stack[t])  J == TasksOf(stack, queue, t, d)
            f == [c EXCEPT !.next = @ + 1]
            x == Job(t, d, c.next)
<1>1. /\ stack[t] # <<>> /\ c.kind = "for" /\ c.kind # "task" /\ c.pc = "schedule"
      /\ c.next < c.toSchedule
      /\ Schedule(t, x, SetTop(stack, t, f))
  BY DEF ScheduleJob
<1>2. c \in Calls /\ CallOK(c, J) /\ d <= MaxDepth /\ d \in Nat \ {0}
  BY <1>1, TopCall, TopFrame
<1>. HIDE DEF c, d
<1>3. c \in Fors /\ c.next \in Nat /\ c.toSchedule \in Nat /\ c.njobs \in Nat
  BY <1>1, <1>2 DEF Calls, Fors, Blocks
<1>4. /\ f \in Calls /\ f.pc = c.pc /\ f.ran = c.ran /\ f.pending_jobs = c.pending_jobs
      /\ SameWork(c, f) /\ f.kind = c.kind /\ f.n = c.n /\ f.next = c.next + 1
      /\ f.toSchedule = c.toSchedule /\ f.njobs = c.njobs
  BY <1>3 DEF Fors, SameWork, Calls
<1>5. /\ x \in Jobs /\ x \in Tasks /\ x.by = t /\ x.at = d /\ x.pc = "run" /\ x.i = c.next
  BY <1>2, <1>3 DEF Job, Jobs, Tasks, TaskPlaces
<1>. HIDE DEF f, x
<1>6. Shape(c)
  BY <1>1, <1>2 DEF CallOK, Busy
<1>7. Shape(f)
  <2>1. c.next + 1 \in 0 .. c.toSchedule
    BY <1>1, <1>3
  <2>. QED  BY <1>1, <1>4, <1>6, <2>1 DEF Shape, SameWork
<1>8. Fits(f, x)
  BY <1>1, <1>3, <1>4, <1>5 DEF Fits
<1>9. Units(f, x) = {c.next} /\ Units(c, x) = {c.next}
  BY <1>1, <1>4, <1>5 DEF Units
<1>10. Unscheduled(c) = c.next .. c.toSchedule - 1
       /\ Unscheduled(f) = c.next + 1 .. c.toSchedule - 1
  BY <1>1, <1>4 DEF Unscheduled
<1>11. {c.next} \subseteq Unscheduled(c) /\ Unscheduled(f) = Unscheduled(c) \ {c.next}
  BY <1>1, <1>3, <1>10
<1>12. Own(f) = Own(c)
  BY <1>1, <1>4 DEF Own
<1>. HIDE DEF J
<1>13. \A k : k \notin DOMAIN J => CallOK(f, WithTask(J, k, x))
  <2>. SUFFICES ASSUME NEW k, k \notin DOMAIN J PROVE CallOK(f, WithTask(J, k, x))
    OBVIOUS
  <2>1. Units(f, x) \subseteq Unscheduled(c) /\ Unscheduled(f) = Unscheduled(c) \ Units(f, x)
    BY <1>9, <1>11
  <2>. QED
    BY <1>1, <1>2, <1>4, <1>5, <1>7, <1>8, <1>12, <2>1, Scheduled
<1>14. InQueue(x) \notin DOMAIN J
  BY <1>1, <1>2, <1>5, <1>9, <1>11, NotYetQueued DEF J
<1>15. x \notin Ranges
  BY <1>5, JobsAreNotRanges
<1>16. /\ Good(Push(SetTop(stack, t, f), t, x), queue)
       /\ Good(SetTop(stack, t, f), queue \cup {x})
  BY <1>1, <1>2, <1>4, <1>5, <1>13, <1>14, <1>15, CallSchedules DEF c, d, J
<1>. QED  BY <1>1, <1>16 DEF Schedule, IInv

\* StartRoot keeps the invariant.
LEMMA StartRootStep ==
  ASSUME IInv, NEW t \in Threads, StartRoot(t)
  PROVE  IInv'
<1>. DEFINE c == Top(t)  d == Len(stack[t])  J == TasksOf(stack, queue, t, d)
            f == [c EXCEPT !.pc = "wait"]
            x == Range_(t, d, 0, c.n)
<1>1. /\ stack[t] # <<>> /\ c.kind = "block" /\ c.kind # "task" /\ c.pc = "schedule"
      /\ \/ stack' = Push(SetTop(stack, t, f), t, x) /\ queue' = queue
         \/ Schedule(t, x, SetTop(stack, t, f))
  BY DEF StartRoot
<1>2. c \in Calls /\ CallOK(c, J) /\ d <= MaxDepth /\ d \in Nat \ {0}
  BY <1>1, TopCall, TopFrame
<1>. HIDE DEF c, d
<1>3. c \in Blocks /\ c.n \in Nat /\ c.block_size \in Nat
  BY <1>1, <1>2 DEF Calls, Fors, Blocks
<1>4. /\ f \in Calls /\ f.pc = "wait" /\ f.ran = c.ran /\ f.pending_jobs = c.pending_jobs
      /\ SameWork(c, f) /\ f.kind = c.kind /\ f.n = c.n /\ f.block_size = c.block_size
  BY <1>3 DEF Blocks, SameWork, Calls, CallPlaces
<1>5. /\ x \in Ranges /\ x \in Tasks /\ x.by = t /\ x.at = d /\ x.pc = "run"
      /\ x.first = 0 /\ x.last = c.n
  BY <1>2, <1>3 DEF Range_, Ranges, Tasks, TaskPlaces
<1>. HIDE DEF f, x
<1>6. Shape(c)
  BY <1>1, <1>2 DEF CallOK, Busy
<1>7. Shape(f)
  BY <1>1, <1>4, <1>6 DEF Shape
<1>8. 0 \in BlockStarts(c.n, c.block_size) /\ 0 < c.n
  BY <1>1, <1>6 DEF BlockStarts, Shape
<1>9. Fits(f, x)
  BY <1>1, <1>4, <1>5, <1>8 DEF Fits
<1>10. /\ Units(f, x) = BlockStarts(c.n, c.block_size)
       /\ Units(c, x) = BlockStarts(c.n, c.block_size)
  BY <1>1, <1>3, <1>4, <1>5 DEF Units, BlockStarts
<1>11. /\ Unscheduled(c) = BlockStarts(c.n, c.block_size)
       /\ Unscheduled(f) = {}
       /\ Own(f) = Own(c)
  BY <1>1, <1>4 DEF Unscheduled, Own
<1>. HIDE DEF J
<1>12. \A k : k \notin DOMAIN J => CallOK(f, WithTask(J, k, x))
  <2>. SUFFICES ASSUME NEW k, k \notin DOMAIN J PROVE CallOK(f, WithTask(J, k, x))
    OBVIOUS
  <2>1. Units(f, x) \subseteq Unscheduled(c) /\ Unscheduled(f) = Unscheduled(c) \ Units(f, x)
    BY <1>10, <1>11
  <2>. QED
    BY <1>1, <1>2, <1>4, <1>5, <1>7, <1>9, <1>11, <2>1, Scheduled
<1>13. InQueue(x) \notin DOMAIN J
  BY <1>1, <1>2, <1>5, <1>8, <1>10, <1>11, NotYetQueued DEF J
<1>14. x \notin Jobs /\ d <= MaxDepth + x.first
  BY <1>2, <1>5, JobsAreNotRanges, PoolAssumption
<1>15. /\ Good(Push(SetTop(stack, t, f), t, x), queue)
       /\ Good(SetTop(stack, t, f), queue \cup {x})
  BY <1>1, <1>2, <1>4, <1>5, <1>12, <1>13, <1>14, CallSchedules DEF c, d, J
<1>. QED  BY <1>1, <1>15 DEF Schedule, IInv

\* A range is split: its left part stays, the other is queued or pushed.
LEMMA SplitRangeStep ==
  ASSUME IInv, NEW t \in Threads, SplitRange(t)
  PROVE  IInv'
<1>. DEFINE x == Top(t)  d == Len(stack[t])  k == OnStack(t, d)
            J == TasksOf(stack, queue, x.by, x.at)  c == CallOf(x)
            mid == Midpoint(x.first, x.last, c.block_size)
            f == [x EXCEPT !.last = mid]
            y == Range_(x.by, x.at, mid, x.last)
            r == SetTop(stack, t, f)
<1>1. /\ stack[t] # <<>> /\ x.kind = "task" /\ x.pc = "run"
      /\ c.kind = "block" /\ x.last - x.first > c.block_size
      /\ Schedule(t, y, r)
  BY DEF SplitRange
<1>2. Holds(stack, queue, k, x)
  BY <1>1, TopTask
<1>3. /\ x \in Tasks /\ CallOK(c, J) /\ k \in DOMAIN J /\ J[k] = x
      /\ c \in Calls /\ Fits(c, x) /\ Shape(c)
      /\ x.by \in Threads /\ x.at \in DOMAIN stack[x.by] /\ c.kind # "task"
  BY <1>1, <1>2, CallOfTask
<1>4. /\ Sound(stack, queue) /\ d \in DOMAIN stack[t] /\ x = stack[t][d]
      /\ r = Replace(stack, t, d, f) /\ d \in Nat
      /\ Len(r[t]) = d /\ Good(stack, queue)
  BY <1>1, TopFrame, LengthKept DEF IInv
<1>5. c = stack[x.by][x.at]
  BY DEF CallOf
<1>. HIDE DEF x, d, k, J, c, r
<1>6. /\ x \in Ranges /\ x.first \in BlockStarts(c.n, c.block_size)
      /\ x.last \in BlockStarts(c.n, c.block_size) \cup {c.n} /\ x.first < x.last
  BY <1>1, <1>3 DEF Fits
<1>7. c.n \in Nat /\ c.block_size \in Nat \ {0}
  BY <1>1, <1>3 DEF Shape
<1>8. x.first \in Nat /\ x.last \in Nat /\ x.last \in 0 .. c.n
  BY <1>6, <1>7 DEF BlockStarts, Ranges
<1>9. mid \in BlockStarts(c.n, c.block_size) /\ x.first < mid /\ mid < x.last
  <2>. DEFINE n == c.n  bs == c.block_size  a == x.first  e == x.last
  <2>1. n \in Nat /\ bs \in Nat \ {0} /\ a \in BlockStarts(n, bs) /\ e \in 0 .. n /\ e - a > bs
    BY <1>1, <1>6, <1>7, <1>8
  <2>. HIDE DEF n, bs, a, e, mid
  <2>2. Midpoint(a, e, bs) \in BlockStarts(n, bs) /\ a < Midpoint(a, e, bs)
        /\ Midpoint(a, e, bs) < e
    BY <2>1, Midpoints
  <2>. QED  BY <2>2 DEF n, bs, a, e, mid
<1>. HIDE DEF mid
<1>10. mid \in Nat
  BY <1>9 DEF BlockStarts
<1>11. /\ f \in Ranges /\ f.by = x.by /\ f.at = x.at /\ f.first = x.first /\ f.last = mid
       /\ f.pc = "run" /\ f.kind = "task"
  BY <1>1, <1>6, <1>10 DEF Ranges
<1>12. /\ y \in Ranges /\ y \in Tasks /\ y.by = x.by /\ y.at = x.at /\ y.first = mid
       /\ y.last = x.last /\ y.pc = "run"
  BY <1>6, <1>8, <1>10 DEF Ranges, Range_, Tasks, TaskPlaces
<1>. HIDE DEF f, y
<1>13. Fits(c, f) /\ Fits(c, y)
  BY <1>1, <1>6, <1>9, <1>11, <1>12 DEF Fits
<1>14. /\ Units(c, f) \cup Units(c, y) = Units(c, x)
       /\ Units(c, f) \cap Units(c, y) = {}
  <2>1. BlockStarts(c.n, c.block_size) \subseteq Nat
    BY <1>7 DEF BlockStarts
  <2>. QED  BY <1>1, <1>8, <1>9, <1>10, <1>11, <1>12, <2>1 DEF Units
<1>15. \A l : l \notin DOMAIN J => CallOK(c, WithTask(WithTask(J, k, f), l, y))
  BY <1>1, <1>3, <1>11, <1>12, <1>13, <1>14, TaskSplits
<1>16. InQueue(y) \notin DOMAIN J
  <2>. SUFFICES ASSUME InQueue(y) \in DOMAIN J PROVE FALSE
    OBVIOUS
  <2>1. J[InQueue(y)] = y
    BY TasksAre DEF J
  <2>2. Apart(c, J)
    BY <1>3, HasTask DEF Busy
  <2>3. Pending(J, InQueue(y)) /\ Pending(J, k) /\ InQueue(y) # k
    BY <2>1, <1>1, <1>3, <1>12, PlacesDistinct DEF Pending, k
  <2>4. Units(c, y) \cap Units(c, x) = {}
    BY <2>1, <2>2, <2>3, <1>3 DEF Apart
  <2>5. Units(c, y) # {}
    BY <1>3, <1>13, TaskUnits
  <2>. QED  BY <2>4, <2>5, <1>14
<1>17. /\ Sound(r, queue)
       /\ OnlyCall(stack, queue, r, queue, x.by, x.at)
       /\ TasksOf(r, queue, x.by, x.at) = WithTask(J, k, f)
       /\ r[x.by][x.at] = c
  <2>1. stack[t][d].kind = "task"
    BY <1>1, <1>4
  <2>2. /\ Sound(r, queue)
        /\ OnlyCall(stack, queue, r, queue, f.by, f.at)
        /\ TasksOf(r, queue, f.by, f.at)
             = WithTask(TasksOf(stack, queue, f.by, f.at), OnStack(t, d), f)
        /\ r[f.by][f.at] = stack[f.by][f.at]
    BY <1>4, <1>6, <1>11, <2>1, ChangeTask
  <2>. QED  BY <2>2, <1>5, <1>11 DEF J, k
<1>18. HasCall(r, y)
  <2>1. x.at \in DOMAIN r[x.by]
    <3>1. stack \in Stacks /\ f \in Frame
      BY <1>4, <1>11 DEF Sound, Frame, Tasks
    <3>. QED  BY <1>3, <1>4, <3>1, ReplaceFrame
  <2>. QED  BY <2>1, <1>3, <1>12, <1>17 DEF HasCall
<1>19. Len(r[t]) <= MaxDepth + y.first /\ y \notin Jobs
  <2>1. Placed(stack, t, d)
    BY <1>4 DEF Sound
  <2>2. d <= MaxDepth + x.first + 1 /\ MaxDepth \in Nat
    BY <2>1, <1>4, <1>6, PoolAssumption DEF Placed
  <2>3. y \notin Jobs
    BY <1>12, JobsAreNotRanges
  <2>. QED  BY <2>2, <2>3, <1>4, <1>8, <1>9, <1>10, <1>12
<1>20. DOMAIN WithTask(J, k, f) = DOMAIN J
  BY <1>3 DEF WithTask
<1>21. Good(Push(r, t, y), queue)
  <2>. DEFINE v == Push(r, t, y)  l == OnStack(t, Len(r[t]) + 1)
  <2>1. /\ Sound(v, queue)
        /\ OnlyCall(r, queue, v, queue, y.by, y.at)
        /\ TasksOf(v, queue, y.by, y.at) = WithTask(TasksOf(r, queue, y.by, y.at), l, y)
        /\ v[y.by][y.at] = r[y.by][y.at]
        /\ l \notin DOMAIN TasksOf(r, queue, y.by, y.at)
    BY <1>12, <1>17, <1>18, <1>19, AddTask
  <2>. HIDE DEF v, l
  <2>2. CallOK(v[x.by][x.at], TasksOf(v, queue, x.by, x.at))
    BY <2>1, <1>12, <1>15, <1>17, <1>20
  <2>3. OnlyCall(stack, queue, v, queue, x.by, x.at)
    BY <2>1, <1>12, <1>17, OnlyCallTwice
  <2>4. Good(v, queue)
    BY <2>1, <2>2, <2>3, <1>4, StillGood
  <2>. QED  BY <2>4 DEF v
<1>22. Good(r, queue \cup {y})
  <2>. DEFINE p == queue \cup {y}
  <2>1. /\ Sound(r, p)
        /\ OnlyCall(r, queue, r, p, y.by, y.at)
        /\ TasksOf(r, p, y.by, y.at) = WithTask(TasksOf(r, queue, y.by, y.at), InQueue(y), y)
    BY <1>12, <1>17, <1>18, Enqueue
  <2>. HIDE DEF p
  <2>2. CallOK(r[x.by][x.at], TasksOf(r, p, x.by, x.at))
    BY <2>1, <1>12, <1>15, <1>16, <1>17
  <2>3. OnlyCall(stack, queue, r, p, x.by, x.at)
    BY <2>1, <1>12, <1>17, OnlyCallTwice
  <2>4. Good(r, p)
    BY <2>1, <2>2, <2>3, <1>4, StillGood
  <2>. QED  BY <2>4 DEF p
<1>. QED  BY <1>1, <1>21, <1>22 DEF Schedule, IInv

\* An idle thread of the pool takes a task.
LEMMA TakeStep ==
  ASSUME IInv, NEW w \in Workers, NEW t \in Threads, Take(w, t)
  PROVE  IInv'
<1>1. PICK x \in queue : /\ stack[w] = <<>>
                         /\ queue' = queue \ {x} /\ stack' = Push(stack, w, x)
  BY DEF Take
<1>. DEFINE J == TasksOf(stack, queue, x.by, x.at)  c == CallOf(x)  k == InQueue(x)
            p == queue \ {x}  v == Push(stack, w, x)  l == OnStack(w, Len(stack[w]) + 1)
<1>2. w \in Threads /\ Good(stack, queue) /\ Sound(stack, queue)
  BY DEF Threads, IInv, Good
<1>3. Holds(stack, queue, k, x) /\ x.kind = "task"
  BY <1>2, FramesDistinct DEF Holds, Sound, Queued
<1>4. /\ x \in Tasks /\ CallOK(c, J) /\ k \in DOMAIN J /\ J[k] = x
      /\ c \in Calls /\ Fits(c, x) /\ HasCall(stack, x)
  BY <1>3, CallOfTask
<1>5. c = stack[x.by][x.at]
  BY DEF CallOf
<1>6. /\ Sound(stack, p)
      /\ OnlyCall(stack, queue, stack, p, x.by, x.at)
      /\ TasksOf(stack, p, x.by, x.at) = WithoutTask(J, k)
  BY <1>2, Dequeue
<1>7. /\ x \in Jobs => Len(stack[w]) <= MaxDepth
      /\ x \in Ranges => Len(stack[w]) <= MaxDepth + x.first
  <2>1. Len(stack[w]) = 0
    BY <1>1
  <2>2. x \in Ranges => x.first \in Nat
    BY DEF Ranges
  <2>. QED  BY <2>1, <2>2, PoolAssumption
<1>. HIDE DEF p
<1>8. /\ Sound(v, p)
      /\ OnlyCall(stack, p, v, p, x.by, x.at)
      /\ TasksOf(v, p, x.by, x.at) = WithTask(TasksOf(stack, p, x.by, x.at), l, x)
      /\ v[x.by][x.at] = stack[x.by][x.at]
      /\ l \notin DOMAIN TasksOf(stack, p, x.by, x.at)
  BY <1>2, <1>4, <1>6, <1>7, AddTask
<1>. HIDE DEF J, c, k, v, l
<1>9. l \notin DOMAIN J \ {k}
  BY <1>6, <1>8 DEF WithoutTask
<1>10. CallOK(c, WithTask(WithoutTask(J, k), l, x))
  BY <1>4, <1>9, TaskMoves
<1>11. CallOK(v[x.by][x.at], TasksOf(v, p, x.by, x.at))
  BY <1>5, <1>6, <1>8, <1>10
<1>12. OnlyCall(stack, queue, v, p, x.by, x.at)
  BY <1>6, <1>8, OnlyCallTwice
<1>13. Good(v, p)
  BY <1>2, <1>8, <1>11, <1>12, StillGood
<1>. QED  BY <1>1, <1>13 DEF IInv, v, p

-----------------------------------------------------------------------------
(* The steps of the tasks *)

\* A task and its call change.
LEMMA TaskAndCall ==
  ASSUME IInv, NEW t \in Threads, stack[t] # <<>>, NEW x, x = Top(t), x.kind = "task",
         NEW g \in Calls, g.kind = CallOf(x).kind, NEW f, SameTask(x, f),
         CallOK(g, WithTask(TasksOf(stack, queue, x.by, x.at), OnStack(t, Len(stack[t])), f))
  PROVE  Good(SetTop(Replace(stack, x.by, x.at, g), t, f), queue)
<1>. DEFINE d == Len(stack[t])  k == OnStack(t, d)  J == TasksOf(stack, queue, x.by, x.at)
            r == Replace(stack, x.by, x.at, g)  v == SetTop(r, t, f)
<1>1. Holds(stack, queue, k, x)
  BY TopTask
<1>2. /\ x \in Tasks /\ x.by \in Threads /\ x.at \in DOMAIN stack[x.by]
      /\ CallOf(x) = stack[x.by][x.at] /\ CallOf(x).kind # "task"
  BY <1>1, CallOfTask DEF CallOf
<1>3. /\ Sound(stack, queue) /\ d \in DOMAIN stack[t] /\ x = stack[t][d]
      /\ Good(stack, queue) /\ stack \in Stacks /\ g \in Frame
  BY TopFrame DEF IInv, Sound, Frame
<1>4. /\ Sound(r, queue)
      /\ OnlyCall(stack, queue, r, queue, x.by, x.at)
      /\ TasksOf(r, queue, x.by, x.at) = J
      /\ r[x.by][x.at] = g
  BY <1>2, <1>3, ChangeCall, SMTT(30)
<1>5. r[t][d] = x /\ d \in DOMAIN r[t] /\ Len(r[t]) = d
  <2>1. /\ \A u \in Threads : DOMAIN r[u] = DOMAIN stack[u] /\ Len(r[u]) = Len(stack[u])
        /\ \A u \in Threads : \A e \in DOMAIN stack[u] :
             u # x.by \/ e # x.at => r[u][e] = stack[u][e]
    <3>. DEFINE b == x.by  a == x.at  w == Replace(stack, b, a, g)
    <3>1. b \in Threads /\ a \in DOMAIN stack[b]
      BY <1>2
    <3>. HIDE DEF b, a
    <3>2. /\ \A u \in Threads : DOMAIN w[u] = DOMAIN stack[u] /\ Len(w[u]) = Len(stack[u])
          /\ \A u \in Threads : \A e \in DOMAIN stack[u] :
               u # b \/ e # a => w[u][e] = stack[u][e]
      BY <1>3, <3>1, ReplaceFrame
    <3>. QED  BY <3>2 DEF b, a
  <2>2. t # x.by \/ d # x.at
    BY <1>2, <1>3
  <2>. HIDE DEF r
  <2>. QED  BY <1>3, <2>1, <2>2
<1>6. v = Replace(r, t, d, f)
  BY <1>5 DEF SetTop, Replace
<1>7. CallOK(g, WithTask(J, k, f))
  OBVIOUS
<1>. HIDE DEF d, r, v, J
<1>8. /\ f.by = x.by /\ f.at = x.at
      /\ \/ f \in Jobs /\ r[t][d] \in Jobs
         \/ f \in Ranges /\ r[t][d] \in Ranges /\ f.first = r[t][d].first
  BY <1>5 DEF SameTask
<1>9. /\ Sound(v, queue)
      /\ OnlyCall(r, queue, v, queue, f.by, f.at)
      /\ TasksOf(v, queue, f.by, f.at) = WithTask(TasksOf(r, queue, f.by, f.at), k, f)
      /\ v[f.by][f.at] = r[f.by][f.at]
  BY <1>4, <1>5, <1>6, <1>8, ChangeTask
<1>. HIDE DEF k
<1>10. CallOK(v[x.by][x.at], TasksOf(v, queue, x.by, x.at))
  BY <1>4, <1>7, <1>8, <1>9
<1>11. OnlyCall(stack, queue, v, queue, x.by, x.at)
  BY <1>4, <1>8, <1>9, OnlyCallTwice
<1>12. Good(v, queue)
  BY <1>3, <1>9, <1>10, <1>11, StillGood
<1>. QED  BY <1>12 DEF v, r

\* A task ends and its call changes.
LEMMA TaskGone ==
  ASSUME IInv, NEW t \in Threads, stack[t] # <<>>, NEW x, x = Top(t), x.kind = "task",
         NEW g \in Calls, g.kind = CallOf(x).kind,
         CallOK(g, WithoutTask(TasksOf(stack, queue, x.by, x.at), OnStack(t, Len(stack[t]))))
  PROVE  Good(Pop(Replace(stack, x.by, x.at, g), t), queue)
<1>. DEFINE d == Len(stack[t])  k == OnStack(t, d)  J == TasksOf(stack, queue, x.by, x.at)
            r == Replace(stack, x.by, x.at, g)  v == Pop(r, t)
<1>1. Holds(stack, queue, k, x)
  BY TopTask
<1>2. /\ x \in Tasks /\ x.by \in Threads /\ x.at \in DOMAIN stack[x.by]
      /\ CallOf(x) = stack[x.by][x.at] /\ CallOf(x).kind # "task"
  BY <1>1, CallOfTask DEF CallOf
<1>3. /\ Sound(stack, queue) /\ d \in DOMAIN stack[t] /\ x = stack[t][d]
      /\ Good(stack, queue) /\ stack \in Stacks /\ g \in Frame
  BY TopFrame DEF IInv, Sound, Frame
<1>4. /\ Sound(r, queue)
      /\ OnlyCall(stack, queue, r, queue, x.by, x.at)
      /\ TasksOf(r, queue, x.by, x.at) = J
      /\ r[x.by][x.at] = g
  BY <1>2, <1>3, ChangeCall, SMTT(30)
<1>5. r[t][d] = x /\ d \in DOMAIN r[t] /\ Len(r[t]) = d
  <2>1. /\ \A u \in Threads : DOMAIN r[u] = DOMAIN stack[u] /\ Len(r[u]) = Len(stack[u])
        /\ \A u \in Threads : \A e \in DOMAIN stack[u] :
             u # x.by \/ e # x.at => r[u][e] = stack[u][e]
    <3>. DEFINE b == x.by  a == x.at  w == Replace(stack, b, a, g)
    <3>1. b \in Threads /\ a \in DOMAIN stack[b]
      BY <1>2
    <3>. HIDE DEF b, a
    <3>2. /\ \A u \in Threads : DOMAIN w[u] = DOMAIN stack[u] /\ Len(w[u]) = Len(stack[u])
          /\ \A u \in Threads : \A e \in DOMAIN stack[u] :
               u # b \/ e # a => w[u][e] = stack[u][e]
      BY <1>3, <3>1, ReplaceFrame
    <3>. QED  BY <3>2 DEF b, a
  <2>2. t # x.by \/ d # x.at
    BY <1>2, <1>3
  <2>. HIDE DEF r
  <2>. QED  BY <1>3, <2>1, <2>2
<1>6. r[t] # <<>>
  BY <1>5
<1>7. CallOK(g, WithoutTask(J, k))
  OBVIOUS
<1>. HIDE DEF d, r, J
<1>8. x = r[t][Len(r[t])]
  BY <1>5
<1>9. /\ Sound(v, queue)
      /\ OnlyCall(r, queue, v, queue, x.by, x.at)
      /\ TasksOf(v, queue, x.by, x.at) = WithoutTask(TasksOf(r, queue, x.by, x.at), OnStack(t, Len(r[t])))
      /\ v[x.by][x.at] = r[x.by][x.at]
  BY <1>4, <1>6, <1>8, RemoveTask
<1>. HIDE DEF v
<1>10. CallOK(v[x.by][x.at], TasksOf(v, queue, x.by, x.at))
  BY <1>4, <1>5, <1>7, <1>9
<1>11. OnlyCall(stack, queue, v, queue, x.by, x.at)
  BY <1>4, <1>9, OnlyCallTwice
<1>12. Good(v, queue)
  BY <1>3, <1>9, <1>10, <1>11, StillGood
<1>. QED  BY <1>12 DEF v, r

SetRan(s, b, a, v) == [s EXCEPT ![b][a].ran = v]
SetState(s, b, a, v) == [s EXCEPT ![b][a].pending_jobs.state_ = v]
SetMu(s, b, a, v) == [s EXCEPT ![b][a].pending_jobs.mu_ = v]
WithState(m, v) == [m EXCEPT !.state_ = v]
WithMu(m, v) == [m EXCEPT !.mu_ = v]

\* SetRan is an update of the call.
LEMMA RanOfCall ==
  ASSUME NEW s \in Stacks, NEW b \in Threads, NEW a \in DOMAIN s[b], NEW v,
         NEW c \in Calls, s[b][a] = c
  PROVE  SetRan(s, b, a, v) = Replace(s, b, a, Update(c, c.pc, v, c.pending_jobs))
<1>1. [c EXCEPT !.ran = v] = Update(c, c.pc, v, c.pending_jobs)
  <2>1. CASE c \in Fors
    BY <2>1 DEF Update, Fors
  <2>2. CASE c \in Blocks
    BY <2>2 DEF Update, Blocks
  <2>. QED  BY <2>1, <2>2 DEF Calls
<1>2. SetRan(s, b, a, v) = Replace(s, b, a, [c EXCEPT !.ran = v])
  BY DEF Replace, SetRan
<1>. QED  BY <1>1, <1>2

\* SetState is an update of the call.
LEMMA StateOfCall ==
  ASSUME NEW s \in Stacks, NEW b \in Threads, NEW a \in DOMAIN s[b], NEW v,
         NEW c \in Calls, s[b][a] = c
  PROVE  SetState(s, b, a, v) = Replace(s, b, a, Update(c, c.pc, c.ran, WithState(c.pending_jobs, v)))
<1>1. [c EXCEPT !.pending_jobs.state_ = v] = Update(c, c.pc, c.ran, WithState(c.pending_jobs, v))
  <2>1. CASE c \in Fors
    BY <2>1 DEF Update, WithState, Fors
  <2>2. CASE c \in Blocks
    BY <2>2 DEF Update, WithState, Blocks
  <2>. QED  BY <2>1, <2>2 DEF Calls
<1>2. SetState(s, b, a, v) = Replace(s, b, a, [c EXCEPT !.pending_jobs.state_ = v])
  BY DEF Replace, SetState
<1>. QED  BY <1>1, <1>2

\* SetMu is an update of the call.
LEMMA MuOfCall ==
  ASSUME NEW s \in Stacks, NEW b \in Threads, NEW a \in DOMAIN s[b], NEW v,
         NEW c \in Calls, s[b][a] = c
  PROVE  SetMu(s, b, a, v) = Replace(s, b, a, Update(c, c.pc, c.ran, WithMu(c.pending_jobs, v)))
<1>1. [c EXCEPT !.pending_jobs.mu_ = v] = Update(c, c.pc, c.ran, WithMu(c.pending_jobs, v))
  <2>1. CASE c \in Fors
    BY <2>1 DEF Update, WithMu, Fors
  <2>2. CASE c \in Blocks
    BY <2>2 DEF Update, WithMu, Blocks
  <2>. QED  BY <2>1, <2>2 DEF Calls
<1>2. SetMu(s, b, a, v) = Replace(s, b, a, [c EXCEPT !.pending_jobs.mu_ = v])
  BY DEF Replace, SetMu
<1>. QED  BY <1>1, <1>2

\* The units and the shape of a call do not depend on its counter and tally.
LEMMA SameUnits ==
  ASSUME NEW c \in Calls, NEW g \in Calls, SameWork(c, g), g.pc = c.pc,
         c.kind = "for" => g.next = c.next
  PROVE  /\ Unscheduled(g) = Unscheduled(c) /\ Own(g) = Own(c)
         /\ Shape(c) => Shape(g)
<1>1. c.kind \in {"for", "block"} /\ g.kind = c.kind /\ g.n = c.n
  BY CallFields DEF SameWork
<1>2. CASE c.kind = "for"
  BY <1>1, <1>2 DEF SameWork, Unscheduled, Own, Shape
<1>3. CASE c.kind = "block"
  BY <1>1, <1>3 DEF SameWork, Unscheduled, Own, Shape
<1>. QED  BY <1>1, <1>2, <1>3

\* RunTask keeps the invariant.
LEMMA RunTaskStep ==
  ASSUME IInv, NEW t \in Threads, RunTask(t)
  PROVE  IInv'
<1>. DEFINE x == Top(t)  d == Len(stack[t])  k == OnStack(t, d)
            J == TasksOf(stack, queue, x.by, x.at)  c == CallOf(x)
            W == Iterations(x)
            f == [x EXCEPT !.pc = "dec"]
            g == Update(c, c.pc, Execute(c.ran, W), c.pending_jobs)
<1>1. /\ stack[t] # <<>> /\ x.kind = "task" /\ x.pc = "run"
      /\ c.kind = "block" => x.last - x.first <= c.block_size
      /\ stack' = SetTop([stack EXCEPT ![x.by][x.at].ran = Execute(c.ran, W)], t, f)
      /\ queue' = queue
  BY DEF RunTask, InFn, CallOf
<1>2. Holds(stack, queue, k, x)
  BY <1>1, TopTask
<1>3. /\ x \in Tasks /\ CallOK(c, J) /\ k \in DOMAIN J /\ J[k] = x
      /\ c \in Calls /\ Fits(c, x) /\ Shape(c) /\ c.kind # "task"
      /\ x.by \in Threads /\ x.at \in DOMAIN stack[x.by] /\ c = stack[x.by][x.at]
  BY <1>1, <1>2, CallOfTask DEF CallOf
<1>4. stack \in Stacks
  BY DEF IInv, Good, Sound
<1>5. W = Work(c, x)
  BY <1>3, CallFields DEF Iterations, Work
<1>6. SameTask(x, f) /\ f.pc = "dec"
  BY <1>3, TaskUpdates DEF TaskPlaces
<1>7. Execute(c.ran, W) \in Tallies
  <2>1. c.ran \in [0 .. c.n - 1 -> Nat] /\ c.n \in Nat
    BY <1>3, CallFields DEF CallOK
  <2>. DEFINE n == c.n  h == c.ran
  <2>2. h \in [0 .. n - 1 -> Nat] /\ n \in Nat
    BY <2>1
  <2>. HIDE DEF W, n, h, c
  <2>3. Execute(h, W) \in [0 .. n - 1 -> Nat]
    BY <2>2 DEF Execute
  <2>4. Execute(h, W) \in Tallies
    BY <2>2, <2>3 DEF Tallies
  <2>. QED  BY <2>4 DEF h
<1>8. c = CallOf(x) /\ x = Top(t)
  OBVIOUS
<1>. HIDE DEF W, x, c, J, k, d, f
<1>9. /\ g \in Calls /\ g.pc = c.pc /\ g.ran = Execute(c.ran, W)
      /\ g.pending_jobs = c.pending_jobs
      /\ SameWork(c, g) /\ g.kind = c.kind /\ g.n = c.n
      /\ c.kind = "for" => g.next = c.next
  BY <1>3, <1>7, CallFields, Updated, SMTT(30)
<1>10. stack' = SetTop(Replace(stack, x.by, x.at, g), t, f)
  <2>1. [stack EXCEPT ![x.by][x.at].ran = Execute(c.ran, W)] = Replace(stack, x.by, x.at, g)
    <3>. DEFINE b == x.by  a == x.at  e == Execute(c.ran, W)
    <3>1. b \in Threads /\ a \in DOMAIN stack[b] /\ c = stack[b][a]
      BY <1>3
    <3>. HIDE DEF b, a, e
    <3>2. SetRan(stack, b, a, e) = Replace(stack, b, a, Update(c, c.pc, e, c.pending_jobs))
      BY <1>3, <1>4, <3>1, RanOfCall
    <3>. QED  BY <3>2 DEF b, a, e, SetRan
  <2>. QED  BY <1>1, <2>1
<1>. HIDE DEF g
<1>11. Unscheduled(g) = Unscheduled(c) /\ Own(g) = Own(c) /\ Shape(g)
  BY <1>3, <1>9, SameUnits
<1>12. Fits(c, f) /\ Units(c, f) = Units(c, x)
  BY <1>1, <1>3, <1>6, SameTaskFits
<1>13. Fits(g, f)
  BY <1>3, <1>9, <1>12, SameWorkSame
<1>14. CallOK(g, WithTask(J, k, f))
  BY <1>1, <1>3, <1>5, <1>6, <1>9, <1>11, <1>12, <1>13, TaskRuns
<1>15. Good(SetTop(Replace(stack, x.by, x.at, g), t, f), queue)
  BY <1>1, <1>6, <1>8, <1>9, <1>14, TaskAndCall DEF J, k, d
<1>. QED  BY <1>1, <1>10, <1>15 DEF IInv

\* DecrementCount keeps the invariant.
LEMMA DecrementCountStep ==
  ASSUME IInv, NEW t \in Threads, DecrementCount(t)
  PROVE  IInv'
<1>. DEFINE x == Top(t)  d == Len(stack[t])  k == OnStack(t, d)
            J == TasksOf(stack, queue, x.by, x.at)  c == CallOf(x)
            v == c.pending_jobs.state_ - 2
            counted == [stack EXCEPT ![x.by][x.at].pending_jobs.state_ = v]
            f == [x EXCEPT !.pc = "notify"]
            m == [c.pending_jobs EXCEPT !.state_ = v]
            g == Update(c, c.pc, c.ran, m)
<1>1. /\ stack[t] # <<>> /\ x.kind = "task" /\ x.pc = "dec"
      /\ stack' = IF v # 1 THEN Pop(counted, t) ELSE SetTop(counted, t, f)
      /\ queue' = queue
  BY DEF DecrementCount
<1>2. Holds(stack, queue, k, x)
  BY <1>1, TopTask
<1>3. /\ x \in Tasks /\ CallOK(c, J) /\ k \in DOMAIN J /\ J[k] = x
      /\ c \in Calls /\ Fits(c, x) /\ Shape(c) /\ c.kind # "task" /\ c.pc # "done"
      /\ x.by \in Threads /\ x.at \in DOMAIN stack[x.by] /\ c = stack[x.by][x.at]
  BY <1>1, <1>2, CallOfTask DEF CallOf
<1>4. stack \in Stacks
  BY DEF IInv, Good, Sound
<1>5. SameTask(x, f) /\ f.pc = "notify"
  BY <1>3, TaskUpdates DEF TaskPlaces
<1>6. c = CallOf(x) /\ x = Top(t)
  OBVIOUS
<1>7. counted = Replace(stack, x.by, x.at, g)
  <2>. DEFINE b == x.by  a == x.at
  <2>1. b \in Threads /\ a \in DOMAIN stack[b] /\ c = stack[b][a]
    BY <1>3
  <2>. HIDE DEF b, a, v, c
  <2>2. SetState(stack, b, a, v)
          = Replace(stack, b, a, Update(c, c.pc, c.ran, WithState(c.pending_jobs, v)))
    BY <1>3, <1>4, <2>1, StateOfCall
  <2>. QED  BY <2>2 DEF b, a, SetState, WithState
<1>. HIDE DEF x, c, J, k, d, f, counted
<1>8. v \in Nat
  <2>. DEFINE U == Uncounted(c, J)  a == Cardinality(U)
  <2>1. Pending(J, k)
    BY <1>1, <1>3 DEF Pending
  <2>2. PICK u \in Units(c, x) : u \in AllUnits(c)
    BY <1>3, TaskUnits
  <2>3. u \in U
    BY <1>3, <2>1, <2>2 DEF Uncounted
  <2>4. a \in Nat /\ IsFiniteSet(U)
    BY <1>3, UnitsAreUnits
  <2>5. a # 0
    BY <2>3, <2>4, FS_EmptySet
  <2>6. c.pending_jobs.state_ = 2 * a + (IF c.pc \in {"lock", "sleep"} THEN 1 ELSE 0)
    BY <1>3 DEF CallOK, Busy, Counted
  <2>. HIDE DEF a
  <2>. QED  BY <2>4, <2>5, <2>6
<1>9. c.pending_jobs.state_ \in Nat /\ c.pending_jobs \in Counters /\ v = c.pending_jobs.state_ - 2
  BY <1>3, CallFields
<1>. HIDE DEF v
<1>10. /\ m \in Counters /\ m.state_ = v /\ m.mu_ = c.pending_jobs.mu_
       /\ m.notified_ = c.pending_jobs.notified_
  BY <1>8, <1>9 DEF Counters
<1>. HIDE DEF m
<1>11. /\ g \in Calls /\ g.pc = c.pc /\ g.ran = c.ran /\ g.pending_jobs = m
       /\ SameWork(c, g) /\ g.kind = c.kind /\ g.n = c.n
       /\ c.kind = "for" => g.next = c.next
  BY <1>3, <1>10, CallFields, Updated, SMTT(30)
<1>. HIDE DEF g
<1>12. Unscheduled(g) = Unscheduled(c) /\ Own(g) = Own(c) /\ Shape(g)
  BY <1>3, <1>11, SameUnits
<1>13. /\ g.pending_jobs.state_ = c.pending_jobs.state_ - 2
       /\ g.pending_jobs.notified_ = c.pending_jobs.notified_
       /\ g.pending_jobs.mu_ = c.pending_jobs.mu_
  BY <1>9, <1>10, <1>11
<1>14. CASE v # 1
  <2>1. CallOK(g, WithoutTask(J, k))
    BY <1>1, <1>3, <1>11, <1>12, <1>13, TaskEnds
  <2>2. Good(Pop(Replace(stack, x.by, x.at, g), t), queue)
    BY <1>1, <1>6, <1>11, <2>1, TaskGone DEF J, k, d
  <2>. QED  BY <1>1, <1>7, <1>14, <2>2 DEF IInv
<1>15. CASE v = 1
  <2>1. Fits(c, f)
    <3>1. c.kind = "block" => x.last - x.first <= c.block_size
      BY <1>1, <1>3 DEF Fits
    <3>. QED  BY <1>3, <1>5, <3>1, SameTaskFits
  <2>2. Fits(g, f)
    BY <1>3, <1>11, <2>1, SameWorkSame
  <2>3. CallOK(g, WithTask(J, k, f))
    BY <1>1, <1>3, <1>5, <1>9, <1>11, <1>12, <1>13, <1>15, <2>2, LastTask
  <2>4. Good(SetTop(Replace(stack, x.by, x.at, g), t, f), queue)
    BY <1>1, <1>5, <1>6, <1>11, <2>3, TaskAndCall DEF J, k, d
  <2>. QED  BY <1>1, <1>7, <1>15, <2>4 DEF IInv
<1>. QED  BY <1>14, <1>15

\* Notify keeps the invariant.
LEMMA NotifyStep ==
  ASSUME IInv, NEW t \in Threads, Notify(t)
  PROVE  IInv'
<1>. DEFINE x == Top(t)  d == Len(stack[t])  k == OnStack(t, d)
            J == TasksOf(stack, queue, x.by, x.at)  c == CallOf(x)
            p == IF c.pc = "sleep" THEN "lock" ELSE c.pc
            m == [c.pending_jobs EXCEPT !.notified_ = TRUE, !.mu_ = TRUE]
            notified == [c EXCEPT !.pending_jobs.notified_ = TRUE,
                                  !.pending_jobs.mu_ = TRUE, !.pc = p]
            f == [x EXCEPT !.pc = "unlock"]
            g == Update(c, "lock", c.ran, m)
<1>1. /\ stack[t] # <<>> /\ x.kind = "task" /\ x.pc = "notify"
      /\ stack' = SetTop([stack EXCEPT ![x.by][x.at] = notified], t, f)
      /\ queue' = queue
  BY DEF Notify
<1>2. Holds(stack, queue, k, x)
  BY <1>1, TopTask
<1>3. /\ x \in Tasks /\ CallOK(c, J) /\ k \in DOMAIN J /\ J[k] = x
      /\ c \in Calls /\ Fits(c, x) /\ Shape(c) /\ c.kind # "task" /\ c.pc # "done"
  BY <1>1, <1>2, CallOfTask
<1>4. SameTask(x, f) /\ f.pc = "unlock"
  BY <1>3, TaskUpdates DEF TaskPlaces
<1>5. c = CallOf(x) /\ x = Top(t)
  OBVIOUS
<1>6. stack' = SetTop(Replace(stack, x.by, x.at, notified), t, f)
  BY <1>1 DEF Replace
<1>. HIDE DEF x, c, J, k, d, f
<1>7. p = "lock" /\ c.pc \in {"lock", "sleep"} /\ Uncounted(c, J) = {}
  <2>1. Notified(c, J) /\ ~Pending(J, k)
    BY <1>1, <1>3 DEF CallOK, Busy, Pending
  <2>. QED  BY <1>3, <2>1 DEF Notified
<1>. HIDE DEF p
<1>8. notified = g
  <2>1. CASE c \in Fors
    BY <1>7, <2>1 DEF Update, Fors, Counters
  <2>2. CASE c \in Blocks
    BY <1>7, <2>2 DEF Update, Blocks, Counters
  <2>. QED  BY <1>3, <2>1, <2>2 DEF Calls
<1>. HIDE DEF notified
<1>9. /\ m \in Counters /\ m.state_ = c.pending_jobs.state_ /\ m.mu_ = TRUE /\ m.notified_ = TRUE
  <2>1. c.pending_jobs \in Counters
    BY <1>3, CallFields
  <2>. QED  BY <2>1 DEF Counters
<1>. HIDE DEF m
<1>10. /\ g \in Calls /\ g.pc = "lock" /\ g.ran = c.ran /\ g.pending_jobs = m
       /\ SameWork(c, g) /\ g.kind = c.kind /\ g.n = c.n
       /\ c.kind = "for" => g.next = c.next
  <2>1. "lock" \in CallPlaces
    BY DEF CallPlaces
  <2>. QED  BY <1>3, <1>9, <2>1, CallFields, Updated
<1>. HIDE DEF g
<1>11. Shape(g)
  BY <1>3, <1>7, <1>10 DEF Shape, SameWork
<1>12. Unscheduled(g) = Unscheduled(c) /\ Own(g) = Own(c)
  BY <1>7, <1>10 DEF Unscheduled, Own
<1>13. Fits(g, f)
  <2>1. c.kind = "block" => x.last - x.first <= c.block_size
    BY <1>1, <1>3 DEF Fits
  <2>2. Fits(c, f)
    BY <1>3, <1>4, <2>1, SameTaskFits
  <2>. QED  BY <1>3, <1>10, <2>2, SameWorkSame
<1>14. CallOK(g, WithTask(J, k, f))
  BY <1>1, <1>3, <1>4, <1>9, <1>10, <1>11, <1>12, <1>13, TaskNotifies
<1>15. Good(SetTop(Replace(stack, x.by, x.at, g), t, f), queue)
  BY <1>1, <1>4, <1>5, <1>10, <1>14, TaskAndCall DEF J, k, d
<1>. QED  BY <1>1, <1>6, <1>8, <1>15 DEF IInv

\* Unlock keeps the invariant.
LEMMA UnlockStep ==
  ASSUME IInv, NEW t \in Threads, Unlock(t)
  PROVE  IInv'
<1>. DEFINE x == Top(t)  d == Len(stack[t])  k == OnStack(t, d)
            J == TasksOf(stack, queue, x.by, x.at)  c == CallOf(x)
            m == [c.pending_jobs EXCEPT !.mu_ = FALSE]
            unlocked == [stack EXCEPT ![x.by][x.at].pending_jobs.mu_ = FALSE]
            g == Update(c, c.pc, c.ran, m)
<1>1. /\ stack[t] # <<>> /\ x.kind = "task" /\ x.pc = "unlock"
      /\ stack' = Pop(unlocked, t)
      /\ queue' = queue
  BY DEF Unlock
<1>2. Holds(stack, queue, k, x)
  BY <1>1, TopTask
<1>3. /\ x \in Tasks /\ CallOK(c, J) /\ k \in DOMAIN J /\ J[k] = x
      /\ c \in Calls /\ Shape(c) /\ c.kind # "task"
      /\ x.by \in Threads /\ x.at \in DOMAIN stack[x.by] /\ c = stack[x.by][x.at]
  BY <1>1, <1>2, CallOfTask DEF CallOf
<1>4. stack \in Stacks
  BY DEF IInv, Good, Sound
<1>5. unlocked = Replace(stack, x.by, x.at, g)
  <2>. DEFINE b == x.by  a == x.at
  <2>1. b \in Threads /\ a \in DOMAIN stack[b] /\ c = stack[b][a]
    BY <1>3
  <2>. HIDE DEF b, a, c
  <2>2. SetMu(stack, b, a, FALSE)
          = Replace(stack, b, a, Update(c, c.pc, c.ran, WithMu(c.pending_jobs, FALSE)))
    BY <1>3, <1>4, <2>1, MuOfCall
  <2>. QED  BY <2>2 DEF b, a, SetMu, WithMu
<1>6. c = CallOf(x) /\ x = Top(t)
  OBVIOUS
<1>. HIDE DEF x, c, J, k, d, unlocked
<1>7. /\ m \in Counters /\ m.state_ = c.pending_jobs.state_ /\ m.mu_ = FALSE
  <2>1. c.pending_jobs \in Counters
    BY <1>3, CallFields
  <2>. QED  BY <2>1 DEF Counters
<1>. HIDE DEF m
<1>8. /\ g \in Calls /\ g.pc = c.pc /\ g.ran = c.ran /\ g.pending_jobs = m
      /\ SameWork(c, g) /\ g.kind = c.kind /\ g.n = c.n
      /\ c.kind = "for" => g.next = c.next
  BY <1>3, <1>7, CallFields, Updated, SMTT(30)
<1>. HIDE DEF g
<1>9. Unscheduled(g) = Unscheduled(c) /\ Own(g) = Own(c) /\ Shape(g)
  BY <1>3, <1>8, SameUnits
<1>10. CallOK(g, WithoutTask(J, k))
  BY <1>1, <1>3, <1>7, <1>8, <1>9, TaskUnlocks
<1>11. Good(Pop(Replace(stack, x.by, x.at, g), t), queue)
  BY <1>1, <1>6, <1>8, <1>10, TaskGone DEF J, k, d
<1>. QED  BY <1>1, <1>5, <1>11 DEF IInv

-----------------------------------------------------------------------------
(* Theorems *)

\* With no calls and no tasks the invariant holds.
LEMMA Initially ==
  Init => IInv
<1>. SUFFICES ASSUME Init PROVE IInv
  OBVIOUS
<1>1. stack = [t \in Threads |-> <<>>] /\ queue = {}
  BY DEF Init
<1>2. stack \in Stacks /\ \A t \in Threads : DOMAIN stack[t] = {}
  BY <1>1 DEF Stacks
<1>. QED  BY <1>1, <1>2 DEF IInv, Good, Sound, Queued, CallsOK

\* Every step keeps the invariant.
LEMMA Inductive ==
  IInv /\ [Next]_vars => IInv'
<1>. SUFFICES ASSUME IInv, [Next]_vars PROVE IInv'
  OBVIOUS
<1>1. ASSUME NEW t \in Threads, NEW n \in 1 .. MaxN, NEW num_threads \in Asked,
             NEW cpus \in CPUs, parallel_for(t, n, num_threads, cpus)
      PROVE  IInv'
  BY <1>1, ParallelForStep
<1>2. ASSUME NEW t \in Threads, NEW n \in 1 .. MaxN, NEW block_size \in 0 .. n,
             ParallelForFixedBlockSizeScheduling(t, n, block_size)
      PROVE  IInv'
  BY <1>2, ParallelForFixedBlockSizeSchedulingStep
<1>3. ASSUME NEW t \in Threads, Step(t) PROVE IInv'
  <2>1. ASSUME ScheduleJob(t) PROVE IInv'
    BY <2>1, ScheduleJobStep
  <2>2. ASSUME EndSchedule(t) PROVE IInv'
    BY <2>2, EndScheduleStep
  <2>3. ASSUME OwnJob(t) PROVE IInv'
    BY <2>3, OwnJobStep
  <2>4. ASSUME StartRoot(t) PROVE IInv'
    BY <2>4, StartRootStep
  <2>5. ASSUME WaitFetchOr(t) PROVE IInv'
    BY <2>5, WaitFetchOrStep
  <2>6. ASSUME WaitLocked(t) PROVE IInv'
    BY <2>6, WaitLockedStep
  <2>7. ASSUME Return(t) PROVE IInv'
    BY <2>7, ReturnStep
  <2>8. ASSUME SplitRange(t) PROVE IInv'
    BY <2>8, SplitRangeStep
  <2>9. ASSUME RunTask(t) PROVE IInv'
    BY <2>9, RunTaskStep
  <2>10. ASSUME DecrementCount(t) PROVE IInv'
    BY <2>10, DecrementCountStep
  <2>11. ASSUME Notify(t) PROVE IInv'
    BY <2>11, NotifyStep
  <2>12. ASSUME Unlock(t) PROVE IInv'
    BY <2>12, UnlockStep
  <2>. QED  BY <1>3, <2>1, <2>2, <2>3, <2>4, <2>5, <2>6, <2>7, <2>8, <2>9, <2>10, <2>11, <2>12
            DEF Step
<1>4. ASSUME NEW t \in Threads, SpuriousWakeup(t) PROVE IInv'
  BY <1>4, SpuriousWakeupStep
<1>5. ASSUME NEW w \in Workers, NEW t \in Threads, Take(w, t) PROVE IInv'
  BY <1>5, TakeStep
<1>6. ASSUME UNCHANGED vars PROVE IInv'
  BY <1>6 DEF vars, IInv
<1>. QED  BY <1>1, <1>2, <1>3, <1>4, <1>5, <1>6 DEF Next

\* The invariant holds in every reachable state.
LEMMA Invariant ==
  Spec => []IInv
<1>. QED  BY Initially, Inductive, PTL DEF Spec

\* What the invariant says of the frames on the stacks.
LEMMA FramesOK ==
  ASSUME IInv
  PROVE  /\ \A f \in CallFrames : f \in Calls /\ \E J : CallOK(f, J)
         /\ \A x \in TaskFrames \cup queue :
              x.kind = "task" /\ \E k : Holds(stack, queue, k, x)
<1>1. stack \in Stacks /\ Queued(stack, queue) /\ CallsOK(stack, queue)
  BY DEF IInv, Good, Sound
<1>2. ASSUME NEW f \in CallFrames PROVE f \in Calls /\ \E J : CallOK(f, J)
  <2>1. PICK t \in Threads : \E d \in DOMAIN stack[t] : f = stack[t][d]
    BY DEF CallFrames, Frames
  <2>2. PICK d \in DOMAIN stack[t] : f = stack[t][d]
    BY <2>1
  <2>3. f.kind # "task"
    BY DEF CallFrames
  <2>4. CallOK(f, TasksOf(stack, queue, t, d))
    BY <1>1, <2>2, <2>3 DEF CallsOK
  <2>. QED  BY <2>4 DEF CallOK
<1>3. ASSUME NEW x \in TaskFrames
      PROVE  x.kind = "task" /\ \E k : Holds(stack, queue, k, x)
  <2>1. PICK t \in Threads : \E d \in DOMAIN stack[t] : x = stack[t][d]
    BY DEF TaskFrames, Frames
  <2>2. PICK d \in DOMAIN stack[t] : x = stack[t][d]
    BY <2>1
  <2>3. x.kind = "task"
    BY DEF TaskFrames, CallFrames
  <2>4. Holds(stack, queue, OnStack(t, d), x)
    BY <2>2 DEF Holds
  <2>. QED  BY <2>3, <2>4
<1>4. ASSUME NEW x \in queue
      PROVE  x.kind = "task" /\ \E k : Holds(stack, queue, k, x)
  <2>1. x.kind = "task"
    BY <1>1, FramesDistinct DEF Queued
  <2>2. Holds(stack, queue, InQueue(x), x)
    BY DEF Holds
  <2>. QED  BY <2>1, <2>2
<1>. QED  BY <1>2, <1>3, <1>4

\* Stacks are bounded: nested calls, then one task, then ever shorter ranges.
LEMMA DepthBound ==
  ASSUME IInv, NEW t \in Threads
  PROVE  Len(stack[t]) <= MaxDepth + MaxN + 1
<1>1. MaxDepth \in Nat /\ MaxN \in Nat /\ Len(stack[t]) \in Nat
  <2>1. stack[t] \in Seq(Frame)
    BY DEF IInv, Good, Sound, Stacks
  <2>. QED  BY <2>1, PoolAssumption
<1>2. CASE stack[t] = <<>>
  BY <1>1, <1>2
<1>3. CASE stack[t] # <<>>
  <2>. DEFINE d == Len(stack[t])  f == Top(t)
  <2>1. d \in DOMAIN stack[t] /\ f = stack[t][d] /\ f \in Frame /\ Placed(stack, t, d)
    BY <1>3, TopFrame DEF IInv, Good, Sound
  <2>2. CASE f.kind # "task"
    BY <1>1, <2>1, <2>2 DEF Placed
  <2>3. CASE f \in Jobs
    BY <1>1, <2>1, <2>3 DEF Placed
  <2>4. CASE f \in Ranges
    <3>. DEFINE c == CallOf(f)
    <3>0. f.kind = "task"
      BY <2>4 DEF Ranges
    <3>1. Holds(stack, queue, OnStack(t, d), f)
      BY <1>3, <3>0, TopTask
    <3>2. c \in Calls /\ Shape(c) /\ Fits(c, f)
      BY <3>0, <3>1, CallOfTask
    <3>. HIDE DEF c, f, d
    <3>3. c.kind = "block"
      <4>1. f \notin Jobs
        BY <2>4, JobsAreNotRanges
      <4>. QED  BY <3>2, <4>1, CallFields DEF Fits
    <3>4. f.first \in 0 .. c.n - 1 /\ c.n \in 2 .. MaxN
      BY <3>2, <3>3 DEF Fits, BlockStarts, Shape
    <3>5. d <= MaxDepth + f.first + 1
      BY <2>1, <2>4 DEF Placed
    <3>6. d \in Nat
      BY <1>1 DEF d
    <3>7. d <= MaxDepth + MaxN + 1
      BY <1>1, <3>4, <3>5, <3>6
    <3>. QED  BY <3>7 DEF d
  <2>5. f.kind = "task" => f \in Tasks
    BY <2>1, FramesDistinct
  <2>. QED  BY <2>2, <2>3, <2>4, <2>5 DEF Tasks
<1>. QED  BY <1>2, <1>3

\* The counter's word of a call.
LEMMA WordBound ==
  ASSUME NEW c, NEW J, CallOK(c, J)
  PROVE  c.pending_jobs.state_ \in 0 .. 2 * MaxN + 1
<1>1. MaxN \in Nat \ {0} /\ c \in Calls
  BY PoolAssumption DEF CallOK
<1>2. CASE c.pc = "done"
  BY <1>1, <1>2 DEF CallOK, Over
<1>3. CASE c.pc # "done"
  <2>. DEFINE a == Cardinality(Uncounted(c, J))
  <2>1. Shape(c) /\ Counted(c, J)
    BY <1>3 DEF CallOK, Busy
  <2>2. a \in Nat /\ a <= c.n /\ c.n \in Nat /\ c.n <= MaxN
    BY <1>1, <2>1, UnitsAreUnits DEF Shape
  <2>3. c.pending_jobs.state_ = 2 * a + (IF c.pc \in {"lock", "sleep"} THEN 1 ELSE 0)
    BY <2>1 DEF Counted
  <2>. HIDE DEF a
  <2>. QED  BY <1>1, <2>2, <2>3
<1>. QED  BY <1>2, <1>3

\* The counter never drops below its waiter flag, i.e. no task is counted twice or
\* counted without having been scheduled, and the stacks stay as shallow as the
\* calls and the splitting of ranges make them, for any number of threads
\* (blocking_counter.h: DecrementCount, with its ITEX_DCHECK_NE).
THEOREM TypeCorrect == Spec => []TypeOK
<1>1. IInv => TypeOK
  <2>. SUFFICES ASSUME IInv PROVE TypeOK
    OBVIOUS
  <2>1. \A t \in Threads : Len(stack[t]) <= MaxDepth + MaxN + 1
    BY DepthBound
  <2>2. ASSUME NEW f \in CallFrames
        PROVE  /\ f.pc \in {"schedule", "own", "wait", "lock", "sleep", "done"}
               /\ f.pending_jobs.state_ \in 0 .. 2 * MaxN + 1
               /\ f.pending_jobs.notified_ \in BOOLEAN
               /\ f.pending_jobs.mu_ \in BOOLEAN
               /\ f.ran \in [0 .. f.n - 1 -> Nat]
    <3>1. PICK J : CallOK(f, J)
      BY FramesOK
    <3>2. f \in Calls /\ f.pc \in CallPlaces /\ f.pending_jobs \in Counters
      BY FramesOK, CallFields
    <3>3. f.pending_jobs.state_ \in 0 .. 2 * MaxN + 1
      BY <3>1, WordBound
    <3>4. f.ran \in [0 .. f.n - 1 -> Nat]
      BY <3>1 DEF CallOK
    <3>. QED  BY <3>2, <3>3, <3>4 DEF CallPlaces, Counters
  <2>3. ASSUME NEW x \in TaskFrames \cup queue
        PROVE  x.pc \in {"run", "dec", "notify", "unlock"} /\ x.by \in Threads
               /\ x.at \in Nat \ {0}
    <3>1. x \in Tasks
      BY FramesOK, CallOfTask
    <3>. QED  BY <3>1, FramesDistinct DEF TaskPlaces
  <2>. QED  BY <2>1, <2>2, <2>3 DEF TypeOK
<1>. QED  BY <1>1, Invariant, PTL

\* parallel_for and ParallelForFixedBlockSizeScheduling call fn exactly once for
\* every iteration before they return, for any n, any number of threads and CPUs,
\* any block size, and whether tasks are queued or executed at once
\* (mkl_threadpool.h: parallel_for and balance211, threadpool.cc: handle_range).
THEOREM IterationsOnce == Spec => []EveryIterationOnce
<1>1. IInv => EveryIterationOnce
  <2>. SUFFICES ASSUME IInv, NEW f \in CallFrames
                PROVE  /\ \A j \in DOMAIN f.ran : f.ran[j] <= 1
                       /\ f.pc = "done" => \A j \in DOMAIN f.ran : f.ran[j] = 1
    BY DEF EveryIterationOnce
  <2>1. PICK J : CallOK(f, J)
    BY FramesOK
  <2>2. DOMAIN f.ran = 0 .. f.n - 1 /\ f \in Calls
    BY <2>1 DEF CallOK
  <2>3. CASE f.pc = "done"
    BY <2>1, <2>2, <2>3 DEF CallOK, Over
  <2>4. ASSUME f.pc # "done", NEW j \in DOMAIN f.ran PROVE f.ran[j] <= 1
    <3>1. Shape(f) /\ Tallied(f, J)
      BY <2>1, <2>4 DEF CallOK, Busy
    <3>2. PICK u \in AllUnits(f) : j \in UnitWork(f, u)
      BY <2>2, <3>1, Geometry
    <3>3. f.ran[j] = IF u \in Unrun(f, J) THEN 0 ELSE 1
      BY <3>1, <3>2 DEF Tallied
    <3>. QED  BY <3>3
  <2>. QED  BY <2>3, <2>4
<1>. QED  BY <1>1, Invariant, PTL

\* No closure, queued or executing, outlives the call whose counter and fn it
\* refers to: the waiter leaves Wait() only after the last task has given mu_ back
\* (blocking_counter.h: DecrementCount and Wait).
THEOREM CallsOutliveTasks == Spec => []CallOutlivesTasks
<1>1. IInv => CallOutlivesTasks
  <2>. SUFFICES ASSUME IInv, NEW x \in TaskFrames \cup queue
                PROVE  CallExists(x) /\ CallOf(x).pc # "done"
    BY DEF CallOutlivesTasks
  <2>1. x.kind = "task" /\ \E k : Holds(stack, queue, k, x)
    BY FramesOK
  <2>. QED  BY <2>1, CallOfTask
<1>. QED  BY <1>1, Invariant, PTL

=============================================================================
