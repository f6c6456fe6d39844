--------------------------- MODULE AllReduceProofs ---------------------------
(***************************************************************************)
(* For every tensor, vector size, number of devices and device width, the  *)
(* kernels of an all-reduce store each element exactly once, and behind    *)
(* the tensor only if the last slice is dealt out evenly.                  *)
(***************************************************************************)
EXTENDS AllReduceKernel, TLAPS

LaunchType == [element_count : Nat, VecSize : Nat \ {0},
               reduction_size : Nat \ {0}, max_workitem : Nat \ {0}]

-----------------------------------------------------------------------------
(* Division *)

\* What \div and % return, for every divisor.
LEMMA Division ==
  ASSUME NEW a \in Nat, NEW b \in Nat \ {0}
  PROVE  /\ a \div b \in Nat
         /\ a % b \in 0 .. b - 1
         /\ a = b * (a \div b) + (a % b)
  OBVIOUS

\* A number has one quotient and one remainder.
LEMMA DivisionUnique ==
  ASSUME NEW b \in Nat \ {0}, NEW p \in Nat, NEW q \in Nat,
         NEW r \in 0 .. b - 1, NEW s \in 0 .. b - 1,
         b * p + r = b * q + s
  PROVE  p = q /\ r = s
<1>1. CASE p = q
  BY <1>1
<1>2. CASE p > q
  <2>1. b * p >= b * (q + 1)
    BY <1>2
  <2>2. b * (q + 1) = b * q + b
    OBVIOUS
  <2>. QED  BY <2>1, <2>2
<1>3. CASE p < q
  <2>1. b * q >= b * (p + 1)
    BY <1>3
  <2>2. b * (p + 1) = b * p + b
    OBVIOUS
  <2>. QED  BY <2>1, <2>2
<1>. QED  BY <1>1, <1>2, <1>3

\* Multiples of a number are that number apart.
LEMMA Multiples ==
  ASSUME NEW b \in Nat, NEW p \in Nat, NEW q \in Nat, p < q
  PROVE  b * p \in Nat /\ b * q \in Nat /\ b * p + b <= b * q
<1>1. b * (p + 1) <= b * q
  OBVIOUS
<1>2. b * (p + 1) = b * p + b
  OBVIOUS
<1>. QED  BY <1>1, <1>2

-----------------------------------------------------------------------------
(* The numbers of a launch *)

\* The vectors, of which only the last may be partial.
LEMMA Vectors ==
  ASSUME NEW M \in LaunchType
  PROVE  /\ total_vec_count(M) \in Nat
         /\ vec_tail_element_count(M) \in 0 .. M.VecSize - 1
         /\ vec_tail_element_count(M) = 0 =>
              M.element_count = total_vec_count(M) * M.VecSize
         /\ vec_tail_element_count(M) > 0 =>
              /\ total_vec_count(M) > 0
              /\ M.element_count =
                   (total_vec_count(M) - 1) * M.VecSize + vec_tail_element_count(M)
<1>. DEFINE e == M.element_count
            w == M.VecSize
            q == e \div w
            t == e % w
<1>1. e \in Nat /\ w \in Nat \ {0}
  BY DEF LaunchType
<1>2. q \in Nat /\ t \in 0 .. w - 1 /\ e = w * q + t
  BY <1>1, Division
<1>3. vec_tail_element_count(M) = t /\ total_vec_count(M) = q + (IF t > 0 THEN 1 ELSE 0)
  BY DEF vec_tail_element_count, total_vec_count
<1>. HIDE DEF e, w, q, t
<1>4. w * q = q * w
  BY <1>1, <1>2
<1>. QED  BY <1>1, <1>2, <1>3, <1>4 DEF e, w

\* The slices are consecutive and together as long as the vectors.
LEMMA Slices ==
  ASSUME NEW M \in LaunchType
  PROVE  /\ slice_vec_count(M) \in Nat
         /\ LastRank(M) \in Nat
         /\ \A r \in 0 .. LastRank(M) : local_vec_count(M, r) \in Nat
         /\ \A r \in 0 .. LastRank(M) - 1 : local_vec_count(M, r) = slice_vec_count(M)
         /\ local_vec_count(M, LastRank(M)) >= slice_vec_count(M)
         /\ LastRank(M) * slice_vec_count(M) + local_vec_count(M, LastRank(M))
              = total_vec_count(M)
<1>. DEFINE T == total_vec_count(M)
            R == M.reduction_size
            s == T \div R
<1>1. T \in Nat /\ R \in Nat \ {0}
  BY Vectors DEF LaunchType
<1>2. s \in Nat /\ T % R \in Nat /\ T = R * s + (T % R)
  <2>. HIDE DEF T, R
  <2>1. T \div R \in Nat /\ T % R \in 0 .. R - 1 /\ T = R * (T \div R) + (T % R)
    BY <1>1, Division
  <2>. QED  BY <1>1, <2>1
<1>3. slice_vec_count(M) = s /\ LastRank(M) = R - 1
  BY DEF slice_vec_count, LastRank
<1>4. \A r \in 0 .. LastRank(M) :
        local_vec_count(M, r) = s + (IF r = R - 1 THEN T % R ELSE 0)
  BY <1>3 DEF local_vec_count
<1>. HIDE DEF T, R, s
<1>5. (R - 1) * s + s = R * s
  BY <1>1, <1>2
<1>. QED  BY <1>1, <1>2, <1>3, <1>4, <1>5 DEF T

\* How the vectors of a slice are dealt out.
LEMMA Workitems ==
  ASSUME NEW M \in LaunchType, NEW r \in 0 .. LastRank(M), local_vec_count(M, r) > 0
  PROVE  /\ num_workitem(M, r) \in Nat \ {0}
         /\ num_workitem(M, r) =
              IF local_vec_count(M, r) <= M.max_workitem
              THEN local_vec_count(M, r) ELSE M.max_workitem
         /\ num_vec_per_workitem(M, r) \in Nat
         /\ num_tail_vec(M, r) \in 0 .. num_workitem(M, r) - 1
         /\ local_vec_count(M, r) =
              num_workitem(M, r) * num_vec_per_workitem(M, r) + num_tail_vec(M, r)
<1>1. local_vec_count(M, r) \in Nat \ {0} /\ M.max_workitem \in Nat \ {0}
  BY Slices DEF LaunchType
<1>2. num_workitem(M, r) \in Nat \ {0}
  BY <1>1 DEF num_workitem
<1>3. QED
  BY <1>1, <1>2, Division DEF num_workitem, num_vec_per_workitem, num_tail_vec

-----------------------------------------------------------------------------
(* The turns of the kernels *)

\* A turn of a kernel: where in its slice its vector is.
InSlice(M, t) ==
  /\ t.rank \in 0 .. LastRank(M)
  /\ t.index \in 0 .. num_workitem(M, t.rank) - 1
  /\ t.n \in 0 .. num_vec_per_workitem(M, t.rank)
  /\ t = [rank |-> t.rank, index |-> t.index, n |-> t.n]
  /\ t.n = num_vec_per_workitem(M, t.rank) => t.index < num_tail_vec(M, t.rank)
  /\ local_vec_count(M, t.rank) > 0
  /\ num_workitem(M, t.rank) * t.n + t.index \in 0 .. local_vec_count(M, t.rank) - 1
  /\ VectorOf(M, t) = t.rank * slice_vec_count(M)
                        + (num_workitem(M, t.rank) * t.n + t.index)

\* A turn's vector is in the slice of its rank.
LEMMA TurnInSlice ==
  ASSUME NEW M \in LaunchType, NEW r \in 0 .. LastRank(M), NEW t \in Turns(M, r)
  PROVE  t.rank = r /\ InSlice(M, t)
<1>. DEFINE W == num_workitem(M, r)
            P == num_vec_per_workitem(M, r)
            Q == num_tail_vec(M, r)
            l == local_vec_count(M, r)
<1>1. l > 0
  BY Slices DEF Turns
<1>2. /\ t \in [rank : {r}, index : 0 .. W - 1, n : 0 .. P]
      /\ t.n < P \/ t.index < Q
  BY <1>1 DEF Turns
<1>3. t.rank = r /\ t.index \in 0 .. W - 1 /\ t.n \in 0 .. P
      /\ t = [rank |-> t.rank, index |-> t.index, n |-> t.n]
  BY <1>2
<1>4. W \in Nat \ {0} /\ P \in Nat /\ Q \in 0 .. W - 1 /\ l = W * P + Q /\ l \in Nat
  BY <1>1, Workitems, Slices
<1>5. VectorOf(M, t) = r * slice_vec_count(M) + (W * t.n + t.index)
  <2>1. slice_vec_count(M) \in Nat /\ r \in Nat /\ t.n \in Nat /\ t.index \in Nat
    BY <1>3, <1>4, Slices
  <2>2. VectorOf(M, t) = r * slice_vec_count(M) + W * t.n + t.index
    BY <1>3 DEF VectorOf
  <2>3. r * slice_vec_count(M) \in Nat /\ W * t.n \in Nat
    BY <1>4, <2>1
  <2>. HIDE DEF W
  <2>. QED  BY <2>1, <2>2, <2>3
<1>6. t.n < P => W * t.n + W <= W * P
  <2>. SUFFICES ASSUME t.n < P PROVE W * t.n + W <= W * P
    OBVIOUS
  <2>. HIDE DEF W, P
  <2>1. W * (t.n + 1) <= W * P
    BY <1>3, <1>4
  <2>2. W * (t.n + 1) = W * t.n + W
    BY <1>3, <1>4
  <2>. QED  BY <2>1, <2>2
<1>7. t.n = P => t.index < Q
  BY <1>2, <1>3, <1>4
<1>8. W * t.n + t.index \in 0 .. l - 1
  <2>. HIDE DEF W, P, Q, l
  <2>1. W * t.n \in Nat
    BY <1>3, <1>4
  <2>2. CASE t.n < P
    BY <1>3, <1>4, <1>6, <2>1, <2>2
  <2>3. CASE t.n = P
    BY <1>3, <1>4, <1>7, <2>1, <2>3
  <2>. QED  BY <1>3, <1>4, <2>2, <2>3
<1>. QED  BY <1>1, <1>3, <1>5, <1>7, <1>8 DEF InSlice

\* No two turns have the same vector.
LEMMA VectorUnique ==
  ASSUME NEW M \in LaunchType, NEW t, NEW u, InSlice(M, t), InSlice(M, u),
         VectorOf(M, t) = VectorOf(M, u)
  PROVE  t = u
<1>. DEFINE s == slice_vec_count(M)
            x == num_workitem(M, t.rank) * t.n + t.index
            y == num_workitem(M, u.rank) * u.n + u.index
            last == LastRank(M)
<1>1. /\ s \in Nat /\ last \in Nat
      /\ t.rank \in 0 .. last /\ u.rank \in 0 .. last
      /\ x \in Nat /\ y \in Nat
      /\ t.rank < last => x < s
      /\ u.rank < last => y < s
      /\ t.rank * s + x = u.rank * s + y
  BY Slices DEF InSlice
<1>2. t.rank = u.rank
  <2>. HIDE DEF s, x, y, last
  <2>1. CASE t.rank < u.rank
    <3>1. (t.rank + 1) * s <= u.rank * s
      BY <1>1, <2>1
    <3>2. (t.rank + 1) * s = t.rank * s + s
      BY <1>1
    <3>. QED  BY <1>1, <2>1, <3>1, <3>2
  <2>2. CASE u.rank < t.rank
    <3>1. (u.rank + 1) * s <= t.rank * s
      BY <1>1, <2>2
    <3>2. (u.rank + 1) * s = u.rank * s + s
      BY <1>1
    <3>. QED  BY <1>1, <2>2, <3>1, <3>2
  <2>3. t.rank \in Int /\ u.rank \in Int
    BY <1>1
  <2>. QED  BY <2>1, <2>2, <2>3
<1>3. x = y
  <2>. HIDE DEF s, x, y, last
  <2>1. t.rank * s \in Nat
    BY <1>1
  <2>. QED  BY <1>1, <1>2, <2>1
<1>4. t.n = u.n /\ t.index = u.index
  <2>. DEFINE W == num_workitem(M, t.rank)
  <2>1. W \in Nat \ {0}
    BY Workitems DEF InSlice
  <2>2. /\ t.n \in Nat /\ u.n \in Nat
        /\ t.index \in 0 .. W - 1 /\ u.index \in 0 .. W - 1
    BY <1>2, Workitems DEF InSlice
  <2>3. W * t.n + t.index = W * u.n + u.index
    BY <1>2, <1>3
  <2>. HIDE DEF W
  <2>. QED  BY <2>1, <2>2, <2>3, DivisionUnique
<1>. QED  BY <1>2, <1>4 DEF InSlice

\* Every vector is some turn's.
LEMMA VectorExists ==
  ASSUME NEW M \in LaunchType, NEW v \in 0 .. total_vec_count(M) - 1
  PROVE  \E r \in 0 .. LastRank(M) : \E t \in Turns(M, r) : VectorOf(M, t) = v
<1>. DEFINE s == slice_vec_count(M)
            last == LastRank(M)
            T == total_vec_count(M)
<1>1. s \in Nat /\ last \in Nat /\ T \in Nat /\ v \in Nat
  BY Slices, Vectors
<1>2. PICK r \in 0 .. last : v - r * s \in 0 .. local_vec_count(M, r) - 1
  <2>1. CASE v < last * s
    <3>. DEFINE q == v \div s
    <3>1. s \in Nat \ {0}
      BY <1>1, <2>1
    <3>. HIDE DEF s, last, T
    <3>2. q \in Nat /\ v % s \in 0 .. s - 1 /\ v = s * q + (v % s)
      BY <1>1, <3>1, Division
    <3>. HIDE DEF q
    <3>3. q < last
      <4>1. SUFFICES ASSUME q >= last PROVE FALSE
        BY <1>1, <3>2
      <4>2. s * q >= s * last
        BY <1>1, <3>1, <3>2, <4>1
      <4>. QED  BY <1>1, <2>1, <3>1, <3>2, <4>2
    <3>4. v - q * s \in 0 .. s - 1
      <4>1. q * s = s * q
        BY <3>1, <3>2
      <4>. QED  BY <1>1, <3>1, <3>2, <4>1
    <3>5. q \in 0 .. last - 1 /\ q \in 0 .. last
      BY <1>1, <3>2, <3>3
    <3>6. local_vec_count(M, q) = s
      BY <3>5, Slices DEF s, last
    <3>. QED  BY <3>4, <3>5, <3>6
  <2>2. CASE ~(v < last * s)
    <3>1. last * s + local_vec_count(M, last) = T /\ local_vec_count(M, last) \in Nat
      BY <1>1, Slices
    <3>. HIDE DEF s, last
    <3>2. last * s \in Nat /\ last \in 0 .. last
      BY <1>1
    <3>3. v - last * s \in 0 .. local_vec_count(M, last) - 1
      BY <1>1, <2>2, <3>1, <3>2
    <3>. QED  BY <3>2, <3>3
  <2>. QED  BY <2>1, <2>2
<1>. DEFINE x == v - r * s
            W == num_workitem(M, r)
            P == num_vec_per_workitem(M, r)
            t == [rank |-> r, index |-> x % W, n |-> x \div W]
<1>3. local_vec_count(M, r) \in Nat /\ local_vec_count(M, r) > 0
  BY <1>2, Slices
<1>4. /\ W \in Nat \ {0} /\ P \in Nat
      /\ num_tail_vec(M, r) \in 0 .. W - 1
      /\ local_vec_count(M, r) = W * P + num_tail_vec(M, r)
  BY <1>3, Workitems
<1>5. x \in Nat /\ x < local_vec_count(M, r)
  BY <1>2, <1>3
<1>6. x \div W \in Nat /\ x % W \in 0 .. W - 1 /\ x = W * (x \div W) + (x % W)
  <2>. HIDE DEF x, W
  <2>. QED  BY <1>4, <1>5, Division
<1>7. x \div W \in 0 .. P
  <2>. DEFINE n == x \div W
  <2>1. n \in Nat /\ x % W \in 0 .. W - 1 /\ x = W * n + (x % W)
    BY <1>6
  <2>. HIDE DEF n, x, W, P
  <2>2. SUFFICES ASSUME n > P PROVE FALSE
    BY <1>4, <2>1 DEF n
  <2>3. W * n >= W * (P + 1) /\ W * (P + 1) = W * P + W
    BY <1>4, <2>1, <2>2
  <2>. QED  BY <1>3, <1>4, <1>5, <2>1, <2>3
<1>8. x \div W < P \/ x % W < num_tail_vec(M, r)
  <2>. DEFINE n == x \div W
  <2>1. n \in 0 .. P /\ x % W \in 0 .. W - 1 /\ x = W * n + (x % W)
    BY <1>6, <1>7
  <2>. HIDE DEF n, x, W, P
  <2>2. n < P \/ n = P
    BY <1>4, <2>1
  <2>3. W * P \in Nat
    BY <1>4
  <2>4. n = P => x % W < num_tail_vec(M, r)
    BY <1>3, <1>4, <1>5, <2>1, <2>3
  <2>. QED  BY <2>2, <2>4 DEF n
<1>9. t \in Turns(M, r)
  <2>1. t \in [rank : {r}, index : 0 .. W - 1, n : 0 .. P]
    BY <1>6, <1>7
  <2>2. t.n < P \/ t.index < num_tail_vec(M, r)
    BY <1>8
  <2>. QED  BY <1>3, <2>1, <2>2 DEF Turns
<1>10. VectorOf(M, t) = v
  <2>1. VectorOf(M, t) = r * s + (W * (x \div W) + (x % W))
    BY <1>9, TurnInSlice DEF InSlice
  <2>2. VectorOf(M, t) = r * s + x
    BY <1>6, <2>1
  <2>3. r * s \in Int
    BY <1>1
  <2>. QED  BY <1>1, <2>2, <2>3
<1>. QED  BY <1>9, <1>10

\* A turn that stores a part only has the last vector.
LEMMA PartIsLast ==
  ASSUME NEW M \in LaunchType, NEW t, InSlice(M, t), StoresPart(M, t)
  PROVE  VectorOf(M, t) = total_vec_count(M) - 1
<1>. DEFINE W == num_workitem(M, t.rank)
            P == num_vec_per_workitem(M, t.rank)
            l == local_vec_count(M, t.rank)
            b == t.rank * slice_vec_count(M)
<1>1. /\ t.rank \in 0 .. LastRank(M) /\ t.rank = LastRank(M) /\ l > 0
      /\ t.n \in 0 .. P /\ t.index \in 0 .. W - 1
      /\ VectorOf(M, t) = b + (W * t.n + t.index)
      /\ W * t.n + t.index <= l - 1
  BY DEF InSlice, StoresPart
<1>2. l \in Nat /\ b + l = total_vec_count(M) /\ b \in Nat /\ total_vec_count(M) \in Nat
  BY <1>1, Slices, Vectors
<1>3. /\ W \in Nat \ {0} /\ P \in Nat /\ num_tail_vec(M, t.rank) \in 0 .. W - 1
      /\ l = W * P + num_tail_vec(M, t.rank)
      /\ W <= l
  BY <1>1, <1>2, Workitems
<1>4. IF t.n < P THEN l <= W /\ t.index = W - 1
                 ELSE t.index = num_tail_vec(M, t.rank) - 1
  BY DEF StoresPart
<1>. HIDE DEF W, P, l, b
<1>5. W * t.n \in Nat
  BY <1>1, <1>3
<1>6. W * t.n + t.index = l - 1
  <2>1. CASE t.n < P
    BY <1>1, <1>2, <1>3, <1>4, <1>5, <2>1
  <2>2. CASE t.n = P
    BY <1>1, <1>2, <1>3, <1>4, <1>5, <2>2
  <2>. QED  BY <1>1, <1>3, <2>1, <2>2
<1>. QED  BY <1>1, <1>2, <1>6

\* A turn stores only to elements of its vector.
LEMMA StoredInVector ==
  ASSUME NEW M \in LaunchType, NEW t, InSlice(M, t), NEW e \in Nat
  PROVE  /\ VectorOf(M, t) \in Nat
         /\ e \in Stored(M, t) =>
              \E k \in 0 .. M.VecSize - 1 : e = M.VecSize * VectorOf(M, t) + k
<1>. DEFINE v == VectorOf(M, t)
            w == M.VecSize
            d == IF StoresPart(M, t) THEN vec_tail_element_count(M) ELSE w
<1>1. w \in Nat \ {0}
  BY DEF LaunchType
<1>2. d \in 0 .. w
  BY <1>1, Vectors
<1>3. v \in Nat
  BY Slices DEF InSlice
<1>4. Stored(M, t) = v * w .. v * w + d - 1
  BY DEF Stored
<1>. HIDE DEF v, w, d
<1>5. v * w \in Nat /\ w * v = v * w
  BY <1>1, <1>3
<1>6. ASSUME e \in Stored(M, t)
      PROVE  e - w * v \in 0 .. w - 1 /\ e = w * v + (e - w * v)
  BY <1>1, <1>2, <1>4, <1>5, <1>6
<1>. QED  BY <1>3, <1>6 DEF v, w

\* Every element of the tensor is stored by some turn.
LEMMA ElementStored ==
  ASSUME NEW M \in LaunchType, NEW e \in 0 .. M.element_count - 1
  PROVE  \E r \in 0 .. LastRank(M) : \E t \in Turns(M, r) : e \in Stored(M, t)
<1>. DEFINE w == M.VecSize
            v == e \div w
            T == total_vec_count(M)
            c == vec_tail_element_count(M)
<1>1. w \in Nat \ {0} /\ e \in Nat /\ e < M.element_count /\ M.element_count \in Nat
  BY DEF LaunchType
<1>2. v \in Nat /\ e % w \in 0 .. w - 1 /\ e = w * v + (e % w)
  <2>. HIDE DEF w
  <2>. QED  BY <1>1, Division
<1>3. /\ T \in Nat /\ c \in 0 .. w - 1
      /\ c = 0 => M.element_count = T * w
      /\ c > 0 => M.element_count = (T - 1) * w + c
  BY Vectors
<1>. HIDE DEF w, v, T, c
<1>4. v \in 0 .. T - 1 /\ (v = T - 1 /\ c > 0 => e < v * w + c)
  <2>1. w * v = v * w
    BY <1>1, <1>2
  <2>2. v >= T => v * w >= T * w
    BY <1>1, <1>2, <1>3
  <2>3. (T - 1) * w + w = T * w
    BY <1>1, <1>3
  <2>4. v < T
    BY <1>1, <1>2, <1>3, <2>1, <2>2, <2>3
  <2>. QED  BY <1>1, <1>2, <1>3, <2>4
<1>5. PICK r \in 0 .. LastRank(M) : \E t \in Turns(M, r) : VectorOf(M, t) = v
  BY <1>4, VectorExists DEF T
<1>6. PICK t \in Turns(M, r) : VectorOf(M, t) = v
  BY <1>5
<1>7. InSlice(M, t)
  BY TurnInSlice
<1>8. StoresPart(M, t) => v = T - 1 /\ c > 0
  BY <1>6, <1>7, PartIsLast DEF T, c, StoresPart
<1>9. Stored(M, t) = v * w .. v * w + (IF StoresPart(M, t) THEN c ELSE w) - 1
  BY <1>6 DEF Stored, w, c
<1>10. e \in Stored(M, t)
  <2>1. w * v = v * w /\ v * w \in Nat
    BY <1>1, <1>2
  <2>2. CASE StoresPart(M, t)
    BY <1>1, <1>2, <1>3, <1>4, <1>8, <1>9, <2>1, <2>2
  <2>3. CASE ~StoresPart(M, t)
    BY <1>1, <1>2, <1>9, <2>1, <2>3
  <2>. QED  BY <2>2, <2>3
<1>. QED  BY <1>10

\* Two turns that store to the same element are the same.
LEMMA StoredOnce ==
  ASSUME NEW M \in LaunchType, NEW t, NEW u, InSlice(M, t), InSlice(M, u),
         NEW e \in Nat, e \in Stored(M, t), e \in Stored(M, u)
  PROVE  t = u
<1>. DEFINE w == M.VecSize
<1>1. w \in Nat \ {0}
  BY DEF LaunchType
<1>2. PICK j \in 0 .. w - 1 : e = w * VectorOf(M, t) + j
  BY StoredInVector
<1>3. PICK k \in 0 .. w - 1 : e = w * VectorOf(M, u) + k
  BY StoredInVector
<1>4. VectorOf(M, t) \in Nat /\ VectorOf(M, u) \in Nat
  BY StoredInVector
<1>. HIDE DEF w
<1>5. VectorOf(M, t) = VectorOf(M, u)
  BY <1>1, <1>2, <1>3, <1>4, DivisionUnique
<1>. QED  BY <1>5, VectorUnique

\* A turn that stores behind the tensor stores the partial vector whole.
LEMMA StoredInside ==
  ASSUME NEW M \in LaunchType, NEW t, InSlice(M, t),
         ~(Stored(M, t) \subseteq 0 .. M.element_count - 1)
  PROVE  /\ vec_tail_element_count(M) > 0
         /\ local_vec_count(M, LastRank(M)) > M.max_workitem
         /\ local_vec_count(M, LastRank(M)) % M.max_workitem = 0
<1>. DEFINE w == M.VecSize
            v == VectorOf(M, t)
            T == total_vec_count(M)
            c == vec_tail_element_count(M)
            s == slice_vec_count(M)
            last == LastRank(M)
            x == num_workitem(M, t.rank) * t.n + t.index
<1>1. w \in Nat \ {0} /\ v \in Nat /\ M.element_count \in Nat
  BY StoredInVector DEF LaunchType
<1>2. /\ T \in Nat /\ c \in 0 .. w - 1
      /\ c = 0 => M.element_count = T * w
      /\ c > 0 => M.element_count = (T - 1) * w + c
  BY Vectors
<1>3. Stored(M, t) = v * w .. v * w + (IF StoresPart(M, t) THEN c ELSE w) - 1
  BY DEF Stored
<1>4. /\ s \in Nat /\ last \in Nat /\ t.rank \in 0 .. last /\ x \in Nat
      /\ v = t.rank * s + x
      /\ t.rank < last => x < s
      /\ t.rank = last => x < local_vec_count(M, last)
      /\ local_vec_count(M, last) \in Nat
      /\ local_vec_count(M, last) >= s
      /\ last * s + local_vec_count(M, last) = T
  BY Slices DEF InSlice
<1>R. t.rank = last \/ t.rank < last
  <2>1. t.rank \in 0 .. last /\ last \in Nat
    BY <1>4
  <2>. HIDE DEF last
  <2>. QED  BY <2>1
<1>5. PICK e \in Stored(M, t) : e \notin 0 .. M.element_count - 1
  OBVIOUS
<1>6. StoresPart(M, t) => v = T - 1 /\ c > 0
  BY PartIsLast DEF StoresPart
<1>7. ~StoresPart(M, t) /\ c > 0 /\ v >= T - 1
  <2>. HIDE DEF w, v, T, c, s, last, x
  <2>1. v * w \in Nat /\ e \in Nat
    BY <1>1, <1>2, <1>3, <1>5
  <2>2. e >= M.element_count
    BY <1>1, <1>5, <2>1
  <2>3. v < T
    <3>1. CASE t.rank = last
      BY <1>2, <1>4, <3>1
    <3>2. CASE t.rank < last
      <4>1. (t.rank + 1) * s <= last * s /\ (t.rank + 1) * s = t.rank * s + s
        BY <1>4, <3>2
      <4>2. last * s \in Nat /\ t.rank * s \in Nat
        BY <1>4
      <4>. QED  BY <1>2, <1>4, <3>2, <4>1, <4>2
    <3>. QED  BY <1>R, <3>1, <3>2
  <2>4. (v + 1) * w = v * w + w /\ (T - 1) * w + w = T * w
    BY <1>1, <1>2
  <2>5. v + 1 <= T => (v + 1) * w <= T * w
    BY <1>1, <1>2
  <2>6. v + 1 <= T - 1 => (v + 1) * w <= (T - 1) * w
    BY <1>1, <1>2
  <2>7. (T - 1) * w \in Int
    BY <1>1, <1>2
  <2>8. CASE StoresPart(M, t)
    BY <1>1, <1>2, <1>3, <1>5, <1>6, <2>1, <2>2, <2>7, <2>8
  <2>9. CASE ~StoresPart(M, t)
    BY <1>1, <1>2, <1>3, <1>5, <2>1, <2>2, <2>3, <2>4, <2>5, <2>6, <2>7, <2>9
  <2>. QED  BY <2>8, <2>9
<1>8. t.rank = last /\ x = local_vec_count(M, last) - 1
  <2>. HIDE DEF w, v, T, c, s, last, x
  <2>1. t.rank = last
    <3>1. CASE t.rank < last
      <4>1. (t.rank + 1) * s <= last * s /\ (t.rank + 1) * s = t.rank * s + s
        BY <1>4, <3>1
      <4>2. last * s \in Nat /\ t.rank * s \in Nat
        BY <1>4
      <4>3. v + 1 <= last * s /\ s > 0
        BY <1>1, <1>4, <3>1, <4>1, <4>2
      <4>. QED  BY <1>1, <1>2, <1>4, <1>7, <4>2, <4>3
    <3>. QED  BY <1>R, <3>1
  <2>2. last * s \in Nat
    BY <1>4
  <2>. QED  BY <1>1, <1>2, <1>4, <1>7, <2>1, <2>2
<1>. DEFINE W == num_workitem(M, last)
            P == num_vec_per_workitem(M, last)
            Q == num_tail_vec(M, last)
            l == local_vec_count(M, last)
            m == M.max_workitem
<1>9. /\ last \in 0 .. last /\ l > 0 /\ l \in Nat
      /\ t.index \in 0 .. W - 1 /\ t.n \in 0 .. P
      /\ t.n = P => t.index < Q
      /\ W * t.n + t.index = l - 1
  BY <1>4, <1>8 DEF InSlice
<1>10. /\ W \in Nat \ {0} /\ P \in Nat /\ Q \in 0 .. W - 1 /\ l = W * P + Q
       /\ m \in Nat \ {0}
       /\ W = IF l <= m THEN l ELSE m
  BY <1>9, Workitems DEF LaunchType
<1>11. ~(IF t.n < P THEN l <= W /\ t.index = W - 1 ELSE t.index = Q - 1)
  BY <1>7, <1>8 DEF StoresPart
<1>. HIDE DEF w, v, T, c, s, last, x, W, P, Q, l, m
<1>12. t.n < P
  <2>1. W * P \in Nat
    BY <1>10
  <2>2. CASE t.n = P
    BY <1>9, <1>10, <1>11, <2>1, <2>2
  <2>. QED  BY <1>9, <1>10, <2>2
<1>13. W * t.n \in Nat /\ W * P \in Nat /\ W * t.n + W <= W * P
  <2>1. W \in Nat /\ t.n \in Nat /\ P \in Nat /\ t.n < P
    BY <1>9, <1>10, <1>12
  <2>. QED  BY <2>1, Multiples
<1>14. t.index = W - 1 /\ Q = 0 /\ l = W * P
  <2>. DEFINE y == W * t.n
              z == W * P
  <2>1. /\ y \in Nat /\ z \in Nat /\ y + W <= z /\ y + t.index = l - 1 /\ l = z + Q
        /\ W \in Nat /\ Q \in Nat /\ t.index \in 0 .. W - 1
    BY <1>9, <1>10, <1>13
  <2>. HIDE DEF y, z
  <2>2. t.index = W - 1 /\ Q = 0 /\ l = z
    BY <2>1
  <2>. QED  BY <2>2 DEF z
<1>15. l > m /\ W = m
  BY <1>9, <1>10, <1>11, <1>12, <1>14
<1>16. l % m = 0
  <2>1. l = m * P + 0 /\ 0 \in 0 .. m - 1
    BY <1>10, <1>14, <1>15
  <2>. DEFINE q == l \div m
              k == l % m
  <2>2. q \in Nat /\ k \in 0 .. m - 1 /\ l = m * q + k
    BY <1>9, <1>10, Division
  <2>. HIDE DEF q, k
  <2>3. m * P + 0 = m * q + k
    BY <2>1, <2>2
  <2>4. P = q /\ 0 = k
    BY <1>10, <2>1, <2>2, <2>3, DivisionUnique
  <2>. QED  BY <2>4 DEF k
<1>. QED  BY <1>7, <1>15, <1>16 DEF c, l, m, last

-----------------------------------------------------------------------------
(* The theorems *)

\* The turns so far are those of the ranks so far.
KInv ==
  /\ L \in LaunchType
  /\ rank \in 0 .. L.reduction_size
  /\ turns = UNION {Turns(L, r) : r \in 0 .. rank - 1}

\* RunAllReduce launches the kernels in the order of the ranks.
LEMMA KInvHolds == Spec => []KInv
<1>1. Init => KInv
  <2>. SUFFICES ASSUME Init PROVE KInv
    OBVIOUS
  <2>1. L \in LaunchType /\ rank = 0 /\ turns = {}
    BY LaunchesAssumption DEF Init, LaunchType
  <2>2. 0 .. rank - 1 = {} /\ rank \in 0 .. L.reduction_size
    BY <2>1 DEF LaunchType
  <2>. QED  BY <2>1, <2>2 DEF KInv
<1>2. KInv /\ [Next]_vars => KInv'
  <2>. SUFFICES ASSUME KInv, [Next]_vars PROVE KInv'
    OBVIOUS
  <2>1. CASE LaunchAllReduceKernel
    <3>1. /\ L' = L /\ rank' = rank + 1 /\ turns' = turns \union Turns(L, rank)
          /\ rank < L.reduction_size
      BY <2>1 DEF LaunchAllReduceKernel
    <3>2. L.reduction_size \in Nat /\ rank \in Nat
      BY DEF KInv, LaunchType
    <3>3. 0 .. rank' - 1 = (0 .. rank - 1) \union {rank}
      BY <3>1, <3>2
    <3>4. turns' = UNION {Turns(L, r) : r \in 0 .. rank' - 1}
      BY <3>1, <3>3 DEF KInv
    <3>. QED  BY <3>1, <3>2, <3>4 DEF KInv
  <2>2. CASE UNCHANGED vars
    BY <2>2 DEF KInv, vars
  <2>. QED  BY <2>1, <2>2 DEF Next
<1>. QED  BY <1>1, <1>2, PTL DEF Spec

\* The turns of the kernels launched are turns of some rank.
LEMMA LaunchedInSlice ==
  ASSUME KInv, NEW t \in turns
  PROVE  InSlice(L, t)
<1>1. PICK r \in 0 .. rank - 1 : t \in Turns(L, r)
  BY DEF KInv
<1>2. r \in 0 .. LastRank(L)
  BY DEF KInv, LaunchType, LastRank
<1>. QED  BY <1>1, <1>2, TurnInSlice DEF KInv

\* For every tensor, vector size, number of participants and device width, the
\* kernels of RunAllReduce store each element of the outputs exactly once.
THEOREM ReducedOnce == Spec => []EveryElementOnce
<1>1. KInv => EveryElementOnce
  <2>. SUFFICES ASSUME KInv, rank = L.reduction_size, NEW e \in 0 .. L.element_count - 1
                PROVE  /\ \E t \in turns : e \in Stored(L, t)
                       /\ \A s, t \in turns :
                            e \in Stored(L, s) /\ e \in Stored(L, t) => s = t
    BY DEF EveryElementOnce
  <2>1. L \in LaunchType /\ e \in Nat
    BY DEF KInv, LaunchType
  <2>2. \E t \in turns : e \in Stored(L, t)
    <3>1. PICK r \in 0 .. LastRank(L) : \E t \in Turns(L, r) : e \in Stored(L, t)
      BY <2>1, ElementStored
    <3>2. r \in 0 .. rank - 1
      BY DEF LastRank
    <3>. QED  BY <3>1, <3>2 DEF KInv
  <2>3. ASSUME NEW s \in turns, NEW t \in turns, e \in Stored(L, s), e \in Stored(L, t)
        PROVE  s = t
    BY <2>1, <2>3, LaunchedInSlice, StoredOnce
  <2>. QED  BY <2>2, <2>3
<1>. QED  BY <1>1, KInvHolds, PTL

\* Whatever the launch, only a last slice that is longer than the device is wide
\* and dealt out evenly makes a kernel store behind the tensors.
THEOREM StoredInsideUnlessEven == Spec => []StoresStayInside
<1>1. KInv => StoresStayInside
  <2>. SUFFICES ASSUME KInv, NEW t \in turns,
                       ~(Stored(L, t) \subseteq 0 .. L.element_count - 1)
                PROVE  EvenlyDealt
    BY DEF StoresStayInside
  <2>1. L \in LaunchType /\ InSlice(L, t)
    BY LaunchedInSlice DEF KInv
  <2>. QED  BY <2>1, StoredInside DEF EvenlyDealt
<1>. QED  BY <1>1, KInvHolds, PTL

=============================================================================
