------------------------- MODULE PresentationProofs -------------------------
(***************************************************************************)
(* Proofs about Merkle and Presentation, for trees of any depth, any number *)
(* of credentials, proof requests and claims, and any attribute values.     *)
(*                                                                          *)
(* The trees come first.  What a recursive function computes is proved by   *)
(* induction, in the form SetInduction gives it: the set of the numbers     *)
(* for which a fact holds has 0 and is closed under successor.  Of a        *)
(* function defined by recursion one first shows that there is one          *)
(* (ShiftExists, HalvedExists, NodesExist, ClimbIs), and so that it         *)
(* satisfies its equation; then RootBinds, that a root determines the whole *)
(* tree, and PathAccepted, that the circuit takes the service's path for    *)
(* its own leaf and for no other.  The claims follow from these and from an *)
(* inductive invariant.                                                     *)
(***************************************************************************)
EXTENDS Presentation, TLAPS, SequenceTheorems, WellFoundedInduction

(* Induction over the naturals, stated of a set: the naturals that are not  *)
(* in it would have a least one.                                            *)
LEMMA SetInduction ==
  ASSUME NEW S, 0 \in S, \A n \in Nat : n \in S => n + 1 \in S
  PROVE  \A n \in Nat : n \in S
<1> DEFINE T == Nat \ S
<1> SUFFICES ASSUME T # {} PROVE FALSE
  OBVIOUS
<1>1. PICK n \in T : \A m \in T : <<m, n>> \notin OpToRel(<, Nat)
  <2>1. T \subseteq Nat
    OBVIOUS
  <2> QED
    BY <2>1, NatLessThanWellFounded, WFMin
<1>2. \A m \in T : ~ (m < n)
  BY <1>1 DEF OpToRel
<1>3. n # 0 /\ n - 1 \in Nat /\ n - 1 < n
  OBVIOUS
<1>4. n - 1 \in S
  BY <1>2, <1>3
<1> QED
  BY <1>3, <1>4

-----------------------------------------------------------------------------
(* A function defined by recursion satisfies its equation: there is one for *)
(* every initial part of its domain.                                        *)
LEMMA ShiftExists ==
  \A d \in Nat : \E f : f = [n \in 0 .. d |-> IF n = 0 THEN 1 ELSE 2 * f[n - 1]]
<1> DEFINE Is(d, f) == f = [n \in 0 .. d |-> IF n = 0 THEN 1 ELSE 2 * f[n - 1]]
           S == {d \in Nat : \E f : Is(d, f)}
<1>1. 0 \in S
  <2>1. Is(0, [n \in 0 .. 0 |-> 1])
    OBVIOUS
  <2> QED
    BY <2>1
<1>2. ASSUME NEW d \in Nat, d \in S
      PROVE  d + 1 \in S
  <2>1. PICK g : Is(d, g)
    BY <1>2
  <2> DEFINE f == [n \in 0 .. d + 1 |-> IF n = d + 1 THEN 2 * g[d] ELSE g[n]]
  <2>2. ASSUME NEW n \in 0 .. d + 1
        PROVE  f[n] = IF n = 0 THEN 1 ELSE 2 * f[n - 1]
    <3>1. CASE n = d + 1
      BY <3>1
    <3>2. CASE n # d + 1
      <4>1. n \in 0 .. d /\ f[n] = g[n]
        BY <3>2
      <4>2. n # 0 => n - 1 \in 0 .. d /\ f[n - 1] = g[n - 1]
        BY <4>1
      <4> QED
        BY <2>1, <4>1, <4>2
    <3> QED
      BY <3>1, <3>2
  <2>3. f = [n \in 0 .. d + 1 |-> f[n]]
    OBVIOUS
  <2>4. Is(d + 1, f)
    <3> HIDE DEF f
    <3> QED
      BY <2>2, <2>3
  <2> HIDE DEF f, Is
  <2> QED
    BY <2>4
<1> QED
  <2> HIDE DEF S
  <2>1. \A d \in Nat : d \in S
    BY <1>1, <1>2, SetInduction
  <2> QED
    BY <2>1 DEF S

LEMMA ShiftIs ==
  /\ Shift[0] = 1
  /\ \A n \in 1 .. DEPTH : Shift[n] = 2 * Shift[n - 1]
<1>1. Shift = [n \in 0 .. DEPTH |-> IF n = 0 THEN 1 ELSE 2 * Shift[n - 1]]
  BY ShiftExists, DepthAssumption DEF Shift
<1>2. 0 \in 0 .. DEPTH /\ \A n \in 1 .. DEPTH : n \in 0 .. DEPTH /\ n # 0
  BY DepthAssumption
<1> QED
  BY <1>1, <1>2

(* Every power of two is a positive number.                                 *)
LEMMA ShiftType == \A n \in 0 .. DEPTH : Shift[n] \in Nat \ {0}
<1> DEFINE S == {n \in Nat : n <= DEPTH => Shift[n] \in Nat \ {0}}
<1>1. 0 \in S
  BY ShiftIs
<1>2. ASSUME NEW n \in Nat, n \in S
      PROVE  n + 1 \in S
  <2> SUFFICES ASSUME n + 1 <= DEPTH PROVE Shift[n + 1] \in Nat \ {0}
    OBVIOUS
  <2>1. n + 1 \in 1 .. DEPTH /\ n <= DEPTH
    BY DepthAssumption
  <2>2. Shift[n] \in Nat \ {0} /\ Shift[n + 1] = 2 * Shift[n]
    BY <1>2, <2>1, ShiftIs
  <2> QED
    BY <2>2
<1>3. \A n \in Nat : n \in S
  <2> HIDE DEF S
  <2> QED
    BY <1>1, <1>2, SetInduction
<1> QED
  BY <1>3

(* A number is made of its half and its last bit.                           *)
LEMMA Halves ==
  ASSUME NEW k \in Nat
  PROVE  k \div 2 \in Nat /\ k % 2 \in {0, 1} /\ k = 2 * (k \div 2) + (k % 2)
OBVIOUS

LEMMA MaxLeavesType == MAX_LEAVES \in Nat \ {0}
BY ShiftType, DepthAssumption DEF MAX_LEAVES

(* The same of the halves of a number.                                      *)
LEMMA HalvedExists ==
  ASSUME NEW k
  PROVE  \A d \in Nat : \E f : f = [n \in 0 .. d |-> IF n = 0 THEN k ELSE f[n - 1] \div 2]
<1> DEFINE Is(d, f) == f = [n \in 0 .. d |-> IF n = 0 THEN k ELSE f[n - 1] \div 2]
           S == {d \in Nat : \E f : Is(d, f)}
<1>1. 0 \in S
  <2>1. Is(0, [n \in 0 .. 0 |-> k])
    OBVIOUS
  <2> QED
    BY <2>1
<1>2. ASSUME NEW d \in Nat, d \in S
      PROVE  d + 1 \in S
  <2>1. PICK g : Is(d, g)
    BY <1>2
  <2> DEFINE f == [n \in 0 .. d + 1 |-> IF n = d + 1 THEN g[d] \div 2 ELSE g[n]]
  <2>2. ASSUME NEW n \in 0 .. d + 1
        PROVE  f[n] = IF n = 0 THEN k ELSE f[n - 1] \div 2
    <3>1. CASE n = d + 1
      BY <3>1
    <3>2. CASE n # d + 1
      <4>1. n \in 0 .. d /\ f[n] = g[n]
        BY <3>2
      <4>2. n # 0 => n - 1 \in 0 .. d /\ f[n - 1] = g[n - 1]
        BY <4>1
      <4> QED
        BY <2>1, <4>1, <4>2
    <3> QED
      BY <3>1, <3>2
  <2>3. f = [n \in 0 .. d + 1 |-> f[n]]
    OBVIOUS
  <2>4. Is(d + 1, f)
    <3> HIDE DEF f
    <3> QED
      BY <2>2, <2>3
  <2> HIDE DEF f, Is
  <2> QED
    BY <2>4
<1> QED
  <2> HIDE DEF S
  <2>1. \A d \in Nat : d \in S
    BY <1>1, <1>2, SetInduction
  <2> QED
    BY <2>1 DEF S

(* Each is the half of the one before.                                      *)
LEMMA HalvedIs ==
  ASSUME NEW k \in Nat
  PROVE  /\ Halved(k)[0] = k
         /\ \A n \in 1 .. DEPTH : Halved(k)[n] = Halved(k)[n - 1] \div 2
         /\ \A n \in 0 .. DEPTH : Halved(k)[n] \in Nat
<1>1. Halved(k) = [n \in 0 .. DEPTH |-> IF n = 0 THEN k ELSE Halved(k)[n - 1] \div 2]
  <2>1. \E f : f = [n \in 0 .. DEPTH |-> IF n = 0 THEN k ELSE f[n - 1] \div 2]
    <3> DEFINE Some(d) == \E f : f = [n \in 0 .. d |-> IF n = 0 THEN k ELSE f[n - 1] \div 2]
    <3>1. \A d \in Nat : Some(d)
      BY HalvedExists
    <3> HIDE DEF Some
    <3>2. Some(DEPTH)
      BY <3>1, DepthAssumption
    <3> QED
      BY <3>2 DEF Some
  <2> QED
    BY <2>1 DEF Halved
<1>2. 0 \in 0 .. DEPTH /\ \A n \in 1 .. DEPTH : n \in 0 .. DEPTH /\ n # 0
  BY DepthAssumption
<1>3. Halved(k)[0] = k /\ \A n \in 1 .. DEPTH : Halved(k)[n] = Halved(k)[n - 1] \div 2
  BY <1>1, <1>2
<1> DEFINE S == {n \in Nat : n <= DEPTH => Halved(k)[n] \in Nat}
<1>4. 0 \in S
  BY <1>3
<1>5. ASSUME NEW n \in Nat, n \in S
      PROVE  n + 1 \in S
  <2> SUFFICES ASSUME n + 1 <= DEPTH PROVE Halved(k)[n + 1] \in Nat
    OBVIOUS
  <2>1. n + 1 \in 1 .. DEPTH /\ n <= DEPTH
    BY DepthAssumption
  <2>2. Halved(k)[n] \in Nat /\ Halved(k)[n + 1] = Halved(k)[n] \div 2
    BY <1>3, <1>5, <2>1
  <2> QED
    BY <2>2
<1>6. \A n \in Nat : n \in S
  <2> HIDE DEF S
  <2> QED
    BY <1>4, <1>5, SetInduction
<1> QED
  BY <1>3, <1>6

-----------------------------------------------------------------------------
(* What buildTree puts into the node i of the last row.                     *)
Leaf(leafHashes, i) ==
  IF i - MAX_LEAVES < Len(leafHashes) THEN leafHashes[i - MAX_LEAVES + 1] ELSE ZeroLeaf

(* The nodes of a tree, from the last one down to the root: a node needs    *)
(* its children, which have higher numbers.                                 *)
LEMMA NodesExist ==
  ASSUME NEW L
  PROVE  \E f : f = [i \in 1 .. 2 * MAX_LEAVES - 1 |->
                       IF i < MAX_LEAVES THEN poseidon2(f[2 * i], f[2 * i + 1]) ELSE Leaf(L, i)]
<1> DEFINE top == 2 * MAX_LEAVES - 1
           Is(d, f) == f = [i \in top - d .. top |->
                       IF i < MAX_LEAVES THEN poseidon2(f[2 * i], f[2 * i + 1]) ELSE Leaf(L, i)]
           S == {d \in Nat : d < top => \E f : Is(d, f)}
<1> USE MaxLeavesType
<1>1. 0 \in S
  <2> DEFINE f == [i \in top .. top |-> Leaf(L, i)]
  <2>1. ~ (top < MAX_LEAVES) /\ \A i \in top .. top : i = top
    OBVIOUS
  <2>2. Is(0, f)
    BY <2>1
  <2> HIDE DEF f, Is
  <2> QED
    BY <2>2
<1>2. ASSUME NEW d \in Nat, d \in S
      PROVE  d + 1 \in S
  <2> SUFFICES ASSUME d + 1 < top PROVE \E f : Is(d + 1, f)
    OBVIOUS
  <2>1. PICK g : Is(d, g)
    BY <1>2
  <2> DEFINE low == top - (d + 1)
             f == [i \in low .. top |->
                     IF i # low THEN g[i]
                     ELSE IF i < MAX_LEAVES THEN poseidon2(g[2 * i], g[2 * i + 1]) ELSE Leaf(L, i)]
  <2>2. low \in Nat /\ low >= 1 /\ low + 1 = top - d
    OBVIOUS
  <2>3. ASSUME NEW i \in low .. top
        PROVE  f[i] = IF i < MAX_LEAVES THEN poseidon2(f[2 * i], f[2 * i + 1]) ELSE Leaf(L, i)
    <3>1. i < MAX_LEAVES => /\ 2 * i \in low + 1 .. top /\ 2 * i + 1 \in low + 1 .. top
                            /\ f[2 * i] = g[2 * i] /\ f[2 * i + 1] = g[2 * i + 1]
      BY <2>2
    <3>2. CASE i = low
      BY <3>1, <3>2
    <3>3. CASE i # low
      <4>1. f[i] = g[i] /\ i \in top - d .. top
        BY <2>2, <3>3
      <4> QED
        BY <2>1, <3>1, <4>1
    <3> QED
      BY <3>2, <3>3
  <2>4. f = [i \in low .. top |-> f[i]]
    OBVIOUS
  <2>5. Is(d + 1, f)
    <3> HIDE DEF f
    <3> QED
      BY <2>3, <2>4
  <2> HIDE DEF f, Is
  <2> QED
    BY <2>5
<1>3. top - 1 \in Nat /\ top - 1 < top /\ top - (top - 1) = 1
  OBVIOUS
<1>4. \A d \in Nat : d \in S
  <2> HIDE DEF S
  <2> QED
    BY <1>1, <1>2, SetInduction
<1>5. \E f : Is(top - 1, f)
  <2> HIDE DEF Is, top
  <2> QED
    BY <1>3, <1>4
<1> QED
  BY <1>3, <1>5

(* The tree: an inner node is the hash of its children, and the leaves are  *)
(* the ones given, and then the zero leaf.                                  *)
LEMMA NodesAre ==
  ASSUME NEW L, NEW i \in 1 .. 2 * MAX_LEAVES - 1
  PROVE  Nodes(L)[i] = IF i < MAX_LEAVES THEN <<Nodes(L)[2 * i], Nodes(L)[2 * i + 1]>>
                       ELSE Leaf(L, i)
<1>1. Nodes(L) = [n \in 1 .. 2 * MAX_LEAVES - 1 |->
                    IF n < MAX_LEAVES THEN poseidon2(Nodes(L)[2 * n], Nodes(L)[2 * n + 1])
                    ELSE Leaf(L, n)]
  BY NodesExist DEF Nodes, Leaf
<1> QED
  BY <1>1 DEF poseidon2

(* The root binds every node: two trees that have it in common are equal,   *)
(* because a node is equal to its pair of children.                         *)
THEOREM RootBinds ==
  ASSUME NEW a, NEW b, Nodes(a)[1] = Nodes(b)[1]
  PROVE  \A i \in 1 .. 2 * MAX_LEAVES - 1 : Nodes(a)[i] = Nodes(b)[i]
<1> USE MaxLeavesType
<1> DEFINE S == {n \in Nat : \A i \in 1 .. 2 * MAX_LEAVES - 1 : i <= n => Nodes(a)[i] = Nodes(b)[i]}
<1>1. 0 \in S
  OBVIOUS
<1>2. ASSUME NEW n \in Nat, n \in S
      PROVE  n + 1 \in S
  <2> SUFFICES ASSUME n + 1 \in 1 .. 2 * MAX_LEAVES - 1, n + 1 # 1
               PROVE  Nodes(a)[n + 1] = Nodes(b)[n + 1]
    BY <1>2
  <2> DEFINE p == (n + 1) \div 2
             r == (n + 1) % 2
  <2>1. p \in Nat /\ r \in {0, 1} /\ n + 1 = 2 * p + r
    BY n + 1 \in Nat, Halves
  <2> HIDE DEF p, r
  <2>2. p \in 1 .. 2 * MAX_LEAVES - 1 /\ p < MAX_LEAVES /\ p <= n
    BY <2>1
  <2>3. Nodes(a)[p] = Nodes(b)[p]
    BY <1>2, <2>2
  <2>4. <<Nodes(a)[2 * p], Nodes(a)[2 * p + 1]>> = <<Nodes(b)[2 * p], Nodes(b)[2 * p + 1]>>
    BY <2>2, <2>3, NodesAre
  <2> QED
    BY <2>1, <2>4
<1>3. \A n \in Nat : n \in S
  <2> HIDE DEF S
  <2> QED
    BY <1>1, <1>2, SetInduction
<1>4. ASSUME NEW i \in 1 .. 2 * MAX_LEAVES - 1
      PROVE  Nodes(a)[i] = Nodes(b)[i]
  <2>1. i \in Nat /\ i <= i
    OBVIOUS
  <2>2. i \in S
    <3> HIDE DEF S
    <3> QED
      BY <1>3, <2>1
  <2> QED
    BY <2>1, <2>2
<1> QED
  BY <1>4

-----------------------------------------------------------------------------
(* The nodes over leaf i: l steps above it, its number and that of the      *)
(* first leaf have both been halved l times.                                *)
LEMMA Over ==
  ASSUME NEW i \in 0 .. MAX_LEAVES - 1
  PROVE  \A l \in 0 .. DEPTH :
           /\ Halved(i)[l] \in 0 .. Shift[DEPTH - l] - 1
           /\ Halved(MAX_LEAVES + i)[l] = Shift[DEPTH - l] + Halved(i)[l]
<1> USE MaxLeavesType, DepthAssumption
<1> DEFINE half == Halved(i)
           above == Halved(MAX_LEAVES + i)
<1>1. /\ half[0] = i /\ \A n \in 1 .. DEPTH : half[n] = half[n - 1] \div 2
      /\ above[0] = MAX_LEAVES + i /\ \A n \in 1 .. DEPTH : above[n] = above[n - 1] \div 2
      /\ \A n \in 0 .. DEPTH : half[n] \in Nat /\ above[n] \in Nat
  <2>1. i \in Nat /\ MAX_LEAVES + i \in Nat
    OBVIOUS
  <2> QED
    BY <2>1, HalvedIs
<1> HIDE DEF half, above
<1> DEFINE P(l) == half[l] < Shift[DEPTH - l] /\ above[l] = Shift[DEPTH - l] + half[l]
           S == {l \in Nat : l <= DEPTH => P(l)}
<1>2. 0 \in S
  BY <1>1 DEF MAX_LEAVES
<1>3. ASSUME NEW l \in Nat, l \in S
      PROVE  l + 1 \in S
  <2> SUFFICES ASSUME l + 1 <= DEPTH PROVE P(l + 1)
    OBVIOUS
  <2>1. DEPTH - l \in 1 .. DEPTH /\ DEPTH - (l + 1) \in 0 .. DEPTH /\ (DEPTH - l) - 1 = DEPTH - (l + 1)
    OBVIOUS
  <2> DEFINE s == Shift[DEPTH - (l + 1)]
  <2>2. Shift[DEPTH - l] = 2 * s /\ s \in Nat
    BY <2>1, ShiftIs, ShiftType
  <2>3. half[l] < 2 * s /\ above[l] = 2 * s + half[l] /\ half[l] \in Nat
    BY <1>1, <1>3, <2>2
  <2>4. half[l + 1] = half[l] \div 2 /\ above[l + 1] = above[l] \div 2
    BY <1>1
  <2>5. \A h \in Nat, t \in Nat : h < 2 * t => h \div 2 < t /\ (2 * t + h) \div 2 = t + h \div 2
    OBVIOUS
  <2> HIDE DEF s
  <2>6. half[l + 1] < s /\ above[l + 1] = s + half[l + 1]
    BY <2>2, <2>3, <2>4, <2>5
  <2> QED
    BY <2>6 DEF s
<1>4. \A l \in Nat : l \in S
  <2> HIDE DEF S
  <2> QED
    BY <1>2, <1>3, SetInduction
<1>5. ASSUME NEW l \in 0 .. DEPTH
      PROVE  half[l] \in 0 .. Shift[DEPTH - l] - 1 /\ above[l] = Shift[DEPTH - l] + half[l]
  <2>1. P(l)
    BY <1>4
  <2>2. DEPTH - l \in 0 .. DEPTH
    OBVIOUS
  <2> QED
    BY <1>1, <2>1, <2>2, ShiftType
<1> QED
  BY <1>5 DEF half, above

(* So the nodes over a leaf are nodes of the tree, the last of them is the  *)
(* root, and no bit of the index is left there.                             *)
LEMMA Above ==
  ASSUME NEW i \in 0 .. MAX_LEAVES - 1
  PROVE  /\ \A l \in 0 .. DEPTH : Halved(MAX_LEAVES + i)[l] \in 1 .. 2 * MAX_LEAVES - 1
         /\ \A l \in 0 .. DEPTH - 1 : Halved(MAX_LEAVES + i)[l] >= 2
         /\ Halved(MAX_LEAVES + i)[DEPTH] = 1
         /\ Halved(i)[DEPTH] = 0
<1> USE MaxLeavesType, DepthAssumption
<1> DEFINE half == Halved(i)
           above == Halved(MAX_LEAVES + i)
<1>1. /\ \A n \in 0 .. DEPTH : half[n] \in 0 .. Shift[DEPTH - n] - 1
      /\ \A n \in 0 .. DEPTH : above[n] = Shift[DEPTH - n] + half[n]
  BY Over
<1>2. above[0] = MAX_LEAVES + i /\ \A n \in 1 .. DEPTH : above[n] = above[n - 1] \div 2
  <2>1. MAX_LEAVES + i \in Nat
    OBVIOUS
  <2> QED
    BY <2>1, HalvedIs
<1> HIDE DEF half, above
<1>3. \A n \in 0 .. DEPTH : above[n] \in Nat \ {0}
  <2> TAKE n \in 0 .. DEPTH
  <2>1. DEPTH - n \in 0 .. DEPTH
    OBVIOUS
  <2>2. Shift[DEPTH - n] \in Nat \ {0}
    BY <2>1, ShiftType
  <2> QED
    BY <1>1, <2>2
<1> DEFINE S == {l \in Nat : l <= DEPTH => above[l] <= MAX_LEAVES + i}
<1>4. 0 \in S
  BY <1>2
<1>5. ASSUME NEW l \in Nat, l \in S
      PROVE  l + 1 \in S
  <2> SUFFICES ASSUME l + 1 <= DEPTH PROVE above[l + 1] <= MAX_LEAVES + i
    OBVIOUS
  <2>1. above[l + 1] = above[l] \div 2 /\ above[l] \in Nat /\ above[l] <= MAX_LEAVES + i
    BY <1>2, <1>3, <1>5
  <2> QED
    BY <2>1
<1>6. \A l \in Nat : l \in S
  <2> HIDE DEF S
  <2> QED
    BY <1>4, <1>5, SetInduction
<1>7. ASSUME NEW l \in 0 .. DEPTH
      PROVE  above[l] \in 1 .. 2 * MAX_LEAVES - 1
  <2>1. l \in S /\ l <= DEPTH
    BY <1>6
  <2> QED
    BY <1>3, <2>1
<1>8. ASSUME NEW l \in 0 .. DEPTH - 1
      PROVE  above[l] >= 2
  <2>1. DEPTH - l \in 1 .. DEPTH /\ (DEPTH - l) - 1 \in 0 .. DEPTH /\ l \in 0 .. DEPTH
    OBVIOUS
  <2>2. Shift[DEPTH - l] = 2 * Shift[(DEPTH - l) - 1] /\ Shift[(DEPTH - l) - 1] \in Nat \ {0}
    BY <2>1, ShiftIs, ShiftType
  <2>3. above[l] = Shift[DEPTH - l] + half[l] /\ half[l] \in 0 .. Shift[DEPTH - l] - 1
    BY <1>1, <2>1
  <2> QED
    BY <2>2, <2>3
<1>9. above[DEPTH] = 1 /\ half[DEPTH] = 0
  <2>1. DEPTH \in 0 .. DEPTH /\ DEPTH - DEPTH = 0
    OBVIOUS
  <2>2. Shift[0] = 1
    BY ShiftIs
  <2>3. above[DEPTH] = Shift[0] + half[DEPTH] /\ half[DEPTH] \in 0 .. Shift[0] - 1
    BY <1>1, <2>1
  <2> QED
    BY <2>2, <2>3
<1> QED
  BY <1>7, <1>8, <1>9 DEF half, above

(* h climbs path: h[n] is the hash n levels above the leaf.                 *)
Climbs(h, leafHash, path) ==
  /\ h[0] = leafHash
  /\ \A n \in 1 .. DEPTH :
       h[n] = IF path[n].index = 1 THEN <<path[n].element, h[n - 1]>>
              ELSE <<h[n - 1], path[n].element>>

LEMMA ClimbIs ==
  ASSUME NEW leafHash, NEW path
  PROVE  \E h : Climbs(h, leafHash, path) /\ Climb(leafHash, path) = h[DEPTH]
<1> DEFINE Up(n, below) ==
             IF path[n].index = 1 THEN poseidon2(path[n].element, below)
             ELSE poseidon2(below, path[n].element)
           Is(d, f) == f = [n \in 0 .. d |-> IF n = 0 THEN leafHash ELSE Up(n, f[n - 1])]
           S == {d \in Nat : \E f : Is(d, f)}
           h == CHOOSE f : Is(DEPTH, f)
<1>1. Climb(leafHash, path) = h[DEPTH]
  BY DEF Climb
<1> HIDE DEF Up, h
<1>2. 0 \in S
  <2>1. Is(0, [n \in 0 .. 0 |-> leafHash])
    OBVIOUS
  <2> QED
    BY <2>1
<1>3. ASSUME NEW d \in Nat, d \in S
      PROVE  d + 1 \in S
  <2>1. PICK g : Is(d, g)
    BY <1>3
  <2> DEFINE f == [n \in 0 .. d + 1 |-> IF n = d + 1 THEN Up(n, g[d]) ELSE g[n]]
  <2>2. ASSUME NEW n \in 0 .. d + 1
        PROVE  f[n] = IF n = 0 THEN leafHash ELSE Up(n, f[n - 1])
    <3>1. CASE n = d + 1
      BY <3>1
    <3>2. CASE n # d + 1
      <4>1. n \in 0 .. d /\ f[n] = g[n]
        BY <3>2
      <4>2. n # 0 => n - 1 \in 0 .. d /\ f[n - 1] = g[n - 1]
        BY <4>1
      <4> QED
        BY <2>1, <4>1, <4>2
    <3> QED
      BY <3>1, <3>2
  <2>3. f = [n \in 0 .. d + 1 |-> f[n]]
    OBVIOUS
  <2>4. Is(d + 1, f)
    <3> HIDE DEF f
    <3> QED
      BY <2>2, <2>3
  <2> HIDE DEF f, Is
  <2> QED
    BY <2>4
<1>4. Is(DEPTH, h)
  <2>1. DEPTH \in S
    <3> HIDE DEF S
    <3> QED
      BY <1>2, <1>3, SetInduction, DepthAssumption
  <2>2. \E f : Is(DEPTH, f)
    BY <2>1
  <2> HIDE DEF Is
  <2> QED
    BY <2>2 DEF h
<1>5. 0 \in 0 .. DEPTH /\ \A n \in 1 .. DEPTH : n \in 0 .. DEPTH /\ n # 0
  BY DepthAssumption
<1>6. Climbs(h, leafHash, path)
  BY <1>4, <1>5 DEF Climbs, Up, poseidon2
<1> QED
  BY <1>1, <1>6

(* Of the service's own path: what it holds, and where it leads.            *)
LEMMA PathIs ==
  ASSUME NEW node, NEW i \in 0 .. MAX_LEAVES - 1, NEW l \in 1 .. DEPTH
  PROVE  LET n == Halved(MAX_LEAVES + i)[l - 1]
         IN  /\ n % 2 = 1 => Path(node, i)[l].index = 1 /\ Path(node, i)[l].element = node[n - 1]
             /\ n % 2 # 1 => Path(node, i)[l].index = 0 /\ Path(node, i)[l].element = node[n + 1]
BY DEF Path, IsRightChild

(* The path of a leaf climbs to the root: at every level the hash is the    *)
(* node over the leaf.                                                      *)
LEMMA ClimbsToRoot ==
  ASSUME NEW L, NEW i \in 0 .. MAX_LEAVES - 1
  PROVE  Climb(Nodes(L)[MAX_LEAVES + i], Path(Nodes(L), i)) = Nodes(L)[1]
<1> USE MaxLeavesType, DepthAssumption
<1> DEFINE above == Halved(MAX_LEAVES + i)
           node == Nodes(L)
           path == Path(node, i)
<1>1. PICK h : /\ Climbs(h, node[MAX_LEAVES + i], path)
               /\ Climb(node[MAX_LEAVES + i], path) = h[DEPTH]
  BY ClimbIs
<1>2. above[0] = MAX_LEAVES + i /\ \A n \in 1 .. DEPTH : above[n] = above[n - 1] \div 2
  <2>1. MAX_LEAVES + i \in Nat
    OBVIOUS
  <2> QED
    BY <2>1, HalvedIs
<1>3. /\ \A l \in 0 .. DEPTH : above[l] \in 1 .. 2 * MAX_LEAVES - 1
      /\ \A l \in 0 .. DEPTH - 1 : above[l] >= 2
      /\ above[DEPTH] = 1
  BY Above
<1>4. ASSUME NEW l \in 1 .. DEPTH
      PROVE  /\ above[l - 1] % 2 = 1 => path[l].index = 1 /\ path[l].element = node[above[l - 1] - 1]
             /\ above[l - 1] % 2 # 1 => path[l].index = 0 /\ path[l].element = node[above[l - 1] + 1]
  BY PathIs
<1>5. ASSUME NEW p \in 1 .. MAX_LEAVES - 1
      PROVE  node[p] = <<node[2 * p], node[2 * p + 1]>>
  <2>1. p \in 1 .. 2 * MAX_LEAVES - 1 /\ p < MAX_LEAVES
    OBVIOUS
  <2> QED
    BY <2>1, NodesAre
<1> HIDE DEF above, node, path
<1> DEFINE S == {l \in Nat : l <= DEPTH => h[l] = node[above[l]]}
<1>6. 0 \in S
  BY <1>1, <1>2 DEF Climbs
<1>7. ASSUME NEW l \in Nat, l \in S
      PROVE  l + 1 \in S
  <2> SUFFICES ASSUME l + 1 <= DEPTH PROVE h[l + 1] = node[above[l + 1]]
    OBVIOUS
  <2>1. l \in 0 .. DEPTH - 1 /\ l \in 0 .. DEPTH /\ l + 1 \in 1 .. DEPTH /\ (l + 1) - 1 = l
    OBVIOUS
  <2> DEFINE n == above[l]
             p == n \div 2
             r == n % 2
  <2>2. n \in 1 .. 2 * MAX_LEAVES - 1 /\ n >= 2 /\ above[l + 1] = p /\ h[l] = node[n]
    BY <1>2, <1>3, <1>7, <2>1
  <2>3. /\ r = 1 => path[l + 1].index = 1 /\ path[l + 1].element = node[n - 1]
        /\ r # 1 => path[l + 1].index = 0 /\ path[l + 1].element = node[n + 1]
    BY <1>4, <2>1
  <2>4. h[l + 1] = IF path[l + 1].index = 1 THEN <<path[l + 1].element, h[l]>>
                   ELSE <<h[l], path[l + 1].element>>
    BY <1>1, <2>1 DEF Climbs
  <2> HIDE DEF n
  <2>5. p \in Nat /\ r \in {0, 1} /\ n = 2 * p + r
    BY <2>2, Halves
  <2> HIDE DEF p, r
  <2>6. p \in 1 .. MAX_LEAVES - 1
    BY <2>2, <2>5
  <2>7. node[p] = <<node[2 * p], node[2 * p + 1]>>
    BY <1>5, <2>6
  <2>8. CASE r = 1
    <3>1. n - 1 = 2 * p /\ n = 2 * p + 1
      BY <2>5, <2>8
    <3> QED
      BY <2>2, <2>3, <2>4, <2>7, <2>8, <3>1
  <2>9. CASE r = 0
    <3>1. n = 2 * p /\ n + 1 = 2 * p + 1
      BY <2>5, <2>9
    <3> QED
      BY <2>2, <2>3, <2>4, <2>7, <2>9, <3>1
  <2> QED
    BY <2>5, <2>8, <2>9
<1>8. \A l \in Nat : l \in S
  <2> HIDE DEF S
  <2> QED
    BY <1>6, <1>7, SetInduction
<1>9. h[DEPTH] = node[1]
  <2>1. DEPTH \in S
    BY <1>8
  <2> QED
    BY <1>3, <2>1
<1> QED
  BY <1>1, <1>9 DEF node, path

(* The path's turns are the bits of the leaf's index ...                    *)
LEMMA TurnsAreBits ==
  ASSUME NEW node, NEW i \in 0 .. MAX_LEAVES - 1, NEW l \in 1 .. DEPTH
  PROVE  Path(node, i)[l].index = Halved(i)[l - 1] % 2
<1> USE MaxLeavesType, DepthAssumption
<1> DEFINE n == Halved(MAX_LEAVES + i)[l - 1]
           m == Halved(i)[l - 1]
           t == Shift[DEPTH - l]
<1>1. l - 1 \in 0 .. DEPTH /\ DEPTH - (l - 1) \in 1 .. DEPTH
      /\ (DEPTH - (l - 1)) - 1 = DEPTH - l /\ DEPTH - l \in 0 .. DEPTH
  OBVIOUS
<1>2. n = Shift[DEPTH - (l - 1)] + m /\ m \in 0 .. Shift[DEPTH - (l - 1)] - 1
  BY <1>1, Over
<1>3. Shift[DEPTH - (l - 1)] = 2 * t /\ t \in Nat
  BY <1>1, ShiftIs, ShiftType
<1>4. n % 2 = 1 => Path(node, i)[l].index = 1
  BY PathIs
<1>5. n % 2 # 1 => Path(node, i)[l].index = 0
  BY PathIs
<1> HIDE DEF n, m, t
<1>6. m \in Nat /\ n = 2 * t + m
  BY <1>2, <1>3
<1>7. n % 2 = m % 2 /\ m % 2 \in {0, 1}
  BY <1>3, <1>6
<1> QED
  BY <1>4, <1>5, <1>7 DEF m

(* ... and no other index has them.                                         *)
LEMMA BitsBind ==
  ASSUME NEW i \in 0 .. MAX_LEAVES - 1, NEW j \in 0 .. MAX_LEAVES - 1,
         \A l \in 1 .. DEPTH : Halved(i)[l - 1] % 2 = Halved(j)[l - 1] % 2
  PROVE  i = j
<1> USE MaxLeavesType, DepthAssumption
<1> DEFINE a == Halved(i)
           b == Halved(j)
           S == {d \in Nat : d <= DEPTH => a[DEPTH - d] = b[DEPTH - d]}
<1>1. /\ a[0] = i /\ \A n \in 1 .. DEPTH : a[n] = a[n - 1] \div 2
      /\ b[0] = j /\ \A n \in 1 .. DEPTH : b[n] = b[n - 1] \div 2
      /\ \A n \in 0 .. DEPTH : a[n] \in Nat /\ b[n] \in Nat
  <2>1. i \in Nat /\ j \in Nat
    OBVIOUS
  <2> QED
    BY <2>1, HalvedIs
<1>2. a[DEPTH] = 0 /\ b[DEPTH] = 0
  BY Above
<1>3. \A l \in 1 .. DEPTH : a[l - 1] % 2 = b[l - 1] % 2
  OBVIOUS
<1> HIDE DEF a, b
<1>4. 0 \in S
  <2>1. DEPTH - 0 = DEPTH
    OBVIOUS
  <2> QED
    BY <1>2, <2>1
<1>5. ASSUME NEW d \in Nat, d \in S
      PROVE  d + 1 \in S
  <2> SUFFICES ASSUME d + 1 <= DEPTH PROVE a[DEPTH - (d + 1)] = b[DEPTH - (d + 1)]
    OBVIOUS
  <2> DEFINE l == DEPTH - d
  <2>1. l \in 1 .. DEPTH /\ l - 1 \in 0 .. DEPTH /\ DEPTH - (d + 1) = l - 1 /\ a[l] = b[l]
    BY <1>5
  <2>2. a[l - 1] \div 2 = b[l - 1] \div 2 /\ a[l - 1] % 2 = b[l - 1] % 2
    BY <1>1, <1>3, <2>1
  <2> HIDE DEF l
  <2>3. a[l - 1] \in Nat /\ b[l - 1] \in Nat
    BY <1>1, <2>1
  <2>4. a[l - 1] = b[l - 1]
    BY <2>2, <2>3, Halves
  <2> QED
    BY <2>1, <2>4
<1>6. \A d \in Nat : d \in S
  <2> HIDE DEF S
  <2> QED
    BY <1>4, <1>5, SetInduction
<1>7. DEPTH \in S /\ DEPTH - DEPTH = 0
  BY <1>6
<1> QED
  BY <1>1, <1>7

(* The circuit accepts the service's path for the leaf it was made for, at  *)
(* every threshold up to the leaf's value, and for nothing else.            *)
THEOREM PathAccepted ==
  ASSUME NEW L, NEW i \in 0 .. MAX_LEAVES - 1, NEW j \in 0 .. MAX_LEAVES - 1,
         NEW value \in 0 .. MaxValue, NEW salt, NEW threshold \in Nat,
         Nodes(L)[MAX_LEAVES + i] = LeafHash(value, salt)
  PROVE  Accepts(Nodes(L)[1], threshold, j, value, salt, Path(Nodes(L), i))
           <=> i = j /\ threshold <= value
<1> USE DepthAssumption
<1> DEFINE path == Path(Nodes(L), i)
<1>1. Climb(LeafHash(value, salt), path) = Nodes(L)[1]
  BY ClimbsToRoot
<1>2. \A l \in 1 .. DEPTH : path[l].index = Halved(i)[l - 1] % 2
  BY TurnsAreBits
<1>3. (\A l \in 1 .. DEPTH : path[l].index = Halved(j)[l - 1] % 2) <=> i = j
  <2>1. ASSUME \A l \in 1 .. DEPTH : path[l].index = Halved(j)[l - 1] % 2
        PROVE  i = j
    <3>1. \A l \in 1 .. DEPTH : Halved(i)[l - 1] % 2 = Halved(j)[l - 1] % 2
      BY <1>2, <2>1
    <3> QED
      BY <3>1, BitsBind
  <2> QED
    BY <1>2, <2>1
<1> HIDE DEF path
<1>4. Accepts(Nodes(L)[1], threshold, j, value, salt, path) <=>
        /\ value \in 0 .. MaxValue /\ threshold \in 0 .. MaxValue /\ threshold < value + 1
        /\ \A l \in 1 .. DEPTH : path[l].index = Halved(j)[l - 1] % 2
  BY <1>1 DEF Accepts
<1>5. threshold \in 0 .. MaxValue /\ threshold < value + 1 <=> threshold <= value
  OBVIOUS
<1> QED
  BY <1>3, <1>4, <1>5 DEF path

-----------------------------------------------------------------------------
(* The inductive invariant of the presentation of claims.                   *)
(* A claim that has come in is about credentials that are issued, and true  *)
(* of the one its proof was made from.                                      *)
Presented ==
  \A c \in Claim : claim[c] # "idle" =>
    /\ about[c].id \in Issued /\ about[c].from \in Issued
    /\ credentials[about[c].from].type # GovernmentID
    /\ about[c].index < Len(credentials[about[c].from].values)
    /\ about[c].threshold <= credentials[about[c].from].values[about[c].index + 1]
(* A credential that was dead when a claim came in is dead.                 *)
DeadStays == \A c \in Claim : dead[c] \subseteq Dead
(* What the row was compared with when it was read stays so: roots do not   *)
(* change.                                                                  *)
Checked ==
  \A c \in Claim : claim[c] \in {"verify", "spend", "granted"} =>
    about[c].id \notin dead[c] /\ MerkleRoot(about[c].id) = MerkleRoot(about[c].from)
(* A request that was answered with a grant is not set again.               *)
SpentStays ==
  \A c \in Claim : \A r \in spent[c] : r # NoRequest /\ request[r] \in {"gone", "expired"}
(* A claim gets past its request only when that was set, so that no earlier *)
(* claim was granted for it.                                                *)
Opened ==
  \A c \in Claim : claim[c] \in {"resolve", "fetch", "issuer", "read", "verify", "spend", "granted"} =>
    /\ about[c].request \notin spent[c]
    /\ about[c].request # NoRequest => request[about[c].request] # "none"
(* A grant leaves no request set.                                           *)
Closed ==
  \A c \in Claim :
    /\ claim[c] = "spend" => about[c].request # NoRequest
    /\ claim[c] = "granted" /\ about[c].request # NoRequest =>
         request[about[c].request] \in {"gone", "expired"}
(* Whoever deleted a request had its claim verified.                        *)
SpentByAccepted ==
  \A r \in Request :
    request[r] = "gone" =>
      \E c \in Claim :
        /\ claim[c] \in {"granted", "refused"}
        /\ about[c].request = r
        /\ about[c].id \notin dead[c]
        /\ MerkleRoot(about[c].id) = MerkleRoot(about[c].from)

(* The inductive invariant: each part needs those before it.                *)
IInv ==
  /\ TypeOK /\ DOMAIN about = Claim
  /\ Presented /\ DeadStays /\ Checked /\ SpentStays /\ Opened /\ Closed /\ SpentByAccepted

-----------------------------------------------------------------------------
(* A row of zkp.credentials.                                                *)
Row ==
  [type : Type \union {GovernmentID}, values : Attributes, status : {"ACTIVE", "REVOKED", "DELETED"}]

(* What the table may do: issue, and end credentials.                       *)
Grows ==
  /\ Issued \subseteq Issued'
  /\ \A id \in Issued :
       /\ credentials'[id].type = credentials[id].type
       /\ credentials'[id].values = credentials[id].values
       /\ credentials[id].status # "ACTIVE" => credentials'[id].status # "ACTIVE"
  /\ due \subseteq due'

(* Then a dead credential stays dead and a root stays the root.             *)
LEMMA GrowsStays ==
  ASSUME Grows
  PROVE  /\ Dead \subseteq Dead'
         /\ \A id \in Issued : MerkleRoot(id)' = MerkleRoot(id)
<1>1. Dead \subseteq Dead'
  BY DEF Grows, Dead
<1>2. ASSUME NEW id \in Issued
      PROVE  MerkleRoot(id)' = MerkleRoot(id)
  <2>1. credentials'[id].type = credentials[id].type /\ credentials'[id].values = credentials[id].values
    BY DEF Grows
  <2>2. LeafHashes(id)' = LeafHashes(id)
    BY <2>1 DEF LeafHashes
  <2> QED
    BY <2>1, <2>2 DEF MerkleRoot
<1> QED
  BY <1>1, <1>2

(* The three transactions do no more than that.                             *)
LEMMA IssueStep ==
  ASSUME TypeOK, NEW type \in Type, NEW values \in Attributes, IssueCredential(type, values)
  PROVE  credentials' \in Seq(Row) /\ Len(credentials') <= MaxIssued /\ Grows
<1> DEFINE row == [type |-> type, values |-> values, status |-> "ACTIVE"]
<1>1. credentials \in Seq(Row) /\ row \in Row /\ credentials' = Append(credentials, row)
  BY DEF TypeOK, IssueCredential, Row
<1>2. Len(credentials) < MaxIssued /\ due' = due
  BY DEF IssueCredential
<1> HIDE DEF row
<1>3. credentials' \in Seq(Row) /\ Len(credentials') = Len(credentials) + 1
      /\ \A id \in 1 .. Len(credentials) : credentials'[id] = credentials[id]
  BY <1>1
<1> QED
  BY <1>1, <1>2, <1>3, AttributesAssumption DEF Grows, Issued

LEMMA IssueIdStep ==
  ASSUME TypeOK, NEW values \in Attributes, IssueId(values)
  PROVE  credentials' \in Seq(Row) /\ Len(credentials') <= MaxIssued /\ Grows
<1> DEFINE row == [type |-> GovernmentID, values |-> values, status |-> "ACTIVE"]
           old == [id \in Issued |-> IF id \in OfType(GovernmentID)
                                     THEN [credentials[id] EXCEPT !.status = "DELETED"]
                                     ELSE credentials[id]]
<1>1. credentials \in Seq(Row) /\ row \in Row /\ credentials' = Append(old, row)
  BY DEF TypeOK, IssueId, Row
<1>2. Len(credentials) < MaxIssued /\ due' = due
  BY DEF IssueId
<1>3. ASSUME NEW id \in 1 .. Len(credentials)
      PROVE  /\ old[id] \in Row
             /\ old[id].type = credentials[id].type /\ old[id].values = credentials[id].values
             /\ credentials[id].status # "ACTIVE" => old[id].status # "ACTIVE"
  <2>1. credentials[id] \in Row
    BY <1>1
  <2>2. old[id] = IF id \in OfType(GovernmentID) THEN [credentials[id] EXCEPT !.status = "DELETED"]
                  ELSE credentials[id]
    BY <1>1 DEF Issued
  <2> HIDE DEF old
  <2> QED
    BY <2>1, <2>2 DEF Row
<1>4. old \in Seq(Row) /\ Len(old) = Len(credentials)
  <2>1. Issued = 1 .. Len(credentials) /\ Len(credentials) \in Nat
    BY <1>1 DEF Issued
  <2>2. old = [id \in 1 .. Len(credentials) |-> old[id]]
    BY <2>1
  <2> HIDE DEF old
  <2> QED
    BY <1>3, <2>1, <2>2
<1> HIDE DEF row, old
<1>5. credentials' \in Seq(Row) /\ Len(credentials') = Len(credentials) + 1
      /\ \A id \in 1 .. Len(credentials) : credentials'[id] = old[id]
  BY <1>1, <1>4
<1> QED
  BY <1>1, <1>2, <1>3, <1>5, AttributesAssumption DEF Grows, Issued

LEMMA RevokeStep ==
  ASSUME TypeOK, NEW id \in Id, RevokeCredential(id)
  PROVE  credentials' \in Seq(Row) /\ Len(credentials') <= MaxIssued /\ Grows
<1>1. credentials \in Seq(Row) /\ Len(credentials) <= MaxIssued /\ due' = due
  BY DEF TypeOK, Row, RevokeCredential
<1>2. /\ id \in 1 .. Len(credentials) /\ credentials[id].status = "ACTIVE"
      /\ credentials' = [credentials EXCEPT ![id] = [@ EXCEPT !.status = "REVOKED"]]
  BY <1>1 DEF RevokeCredential, Issued
<1> DEFINE row == [credentials[id] EXCEPT !.status = "REVOKED"]
<1>3. row \in Row /\ row.type = credentials[id].type /\ row.values = credentials[id].values
      /\ row.status = "REVOKED"
  <2>1. credentials[id] \in Row
    BY <1>1, <1>2
  <2> QED
    BY <2>1 DEF Row
<1>4. credentials' = [credentials EXCEPT ![id] = row]
  BY <1>2
<1> HIDE DEF row
<1>5. credentials' \in Seq(Row) /\ Len(credentials') = Len(credentials)
      /\ \A n \in 1 .. Len(credentials) : credentials'[n] = IF n = id THEN row ELSE credentials[n]
  BY <1>1, <1>2, <1>3, <1>4, ExceptSeq
<1> QED
  BY <1>1, <1>3, <1>5 DEF Grows, Issued

(* The steps of the issuer.                                                 *)
LEMMA TableKeeps ==
  ASSUME IInv, Grows, UNCHANGED <<request, claims>>,
         credentials' \in Seq(Row), Len(credentials') <= MaxIssued, due' \subseteq Id
  PROVE  IInv'
<1> USE DEF IInv
<1>1. /\ claim' = claim /\ about' = about /\ dead' = dead /\ spent' = spent
      /\ request' = request
  BY DEF claims
<1>2. TypeOK'
  BY <1>1 DEF TypeOK, Row
<1>3. Dead \subseteq Dead' /\ \A id \in Issued : MerkleRoot(id)' = MerkleRoot(id)
  BY GrowsStays
<1>4. Presented'
  BY <1>1 DEF Presented, Grows
<1>5. DeadStays'
  BY <1>1, <1>3 DEF DeadStays
<1>6. Checked'
  <2> SUFFICES ASSUME NEW c \in Claim, claim[c] \in {"verify", "spend", "granted"}
               PROVE  about[c].id \notin dead[c]
                      /\ MerkleRoot(about[c].id)' = MerkleRoot(about[c].from)'
    BY <1>1 DEF Checked
  <2>1. about[c].id \in Issued /\ about[c].from \in Issued
    BY DEF Presented
  <2>2. MerkleRoot(about[c].id)' = MerkleRoot(about[c].id)
        /\ MerkleRoot(about[c].from)' = MerkleRoot(about[c].from)
    BY <1>1, <1>3, <2>1
  <2> QED
    BY <2>2 DEF Checked
<1>7. SpentStays' /\ Opened' /\ Closed'
  BY <1>1 DEF SpentStays, Opened, Closed
<1>8. SpentByAccepted'
  <2> SUFFICES ASSUME NEW r \in Request, request[r] = "gone"
               PROVE  \E c \in Claim :
                        /\ claim[c] \in {"granted", "refused"}
                        /\ about[c].request = r
                        /\ about[c].id \notin dead[c]
                        /\ MerkleRoot(about[c].id)' = MerkleRoot(about[c].from)'
    BY <1>1 DEF SpentByAccepted
  <2>1. PICK c \in Claim :
          /\ claim[c] \in {"granted", "refused"}
          /\ about[c].request = r
          /\ about[c].id \notin dead[c]
          /\ MerkleRoot(about[c].id) = MerkleRoot(about[c].from)
    BY DEF SpentByAccepted
  <2>2. about[c].id \in Issued /\ about[c].from \in Issued
    BY <2>1 DEF Presented
  <2>3. MerkleRoot(about[c].id)' = MerkleRoot(about[c].id)
        /\ MerkleRoot(about[c].from)' = MerkleRoot(about[c].from)
    BY <1>1, <1>3, <2>2
  <2> QED
    BY <2>1, <2>3
<1> QED
  BY <1>1, <1>2, <1>4, <1>5, <1>6, <1>7, <1>8

(* All other steps leave the table and with it every root.                  *)
LEMMA TableUnchanged ==
  ASSUME UNCHANGED table
  PROVE  Issued' = Issued /\ Dead' = Dead /\ \A id : MerkleRoot(id)' = MerkleRoot(id)
BY DEF table, Issued, Dead, MerkleRoot, LeafHashes

(* The steps of a proof request.                                            *)
LEMMA RequestKeeps ==
  ASSUME IInv, NEW r \in Request, RequestProof(r) \/ RequestExpires(r)
  PROVE  IInv'
<1> USE DEF IInv
<1>1. /\ UNCHANGED table /\ credentials' = credentials /\ due' = due
      /\ claim' = claim /\ about' = about /\ dead' = dead /\ spent' = spent
  BY DEF RequestProof, RequestExpires, claims, table
<1>2. request' \in [Request -> {"none", "set", "gone", "expired"}]
      /\ \A q \in Request : request'[q] # request[q] =>
           request[q] \in {"none", "set"} /\ request'[q] \in {"set", "expired"}
  BY DEF RequestProof, RequestExpires, TypeOK
<1>3. TypeOK'
  BY <1>1, <1>2 DEF TypeOK
<1>4. Presented' /\ DeadStays' /\ Checked'
  BY <1>1, TableUnchanged DEF Presented, DeadStays, Checked
<1>5. SpentStays'
  BY <1>1, <1>2 DEF SpentStays, TypeOK
<1>6. Opened' /\ Closed'
  <2>1. \A c \in Claim : claim[c] # "idle" /\ about[c].request # NoRequest => about[c].request \in Request
    BY DEF TypeOK, About
  <2> QED
    BY <1>1, <1>2, <2>1 DEF Opened, Closed
<1>7. SpentByAccepted'
  <2>1. \A id : MerkleRoot(id)' = MerkleRoot(id)
    BY <1>1, TableUnchanged
  <2>2. \A q \in Request : request'[q] = "gone" => request[q] = "gone"
    BY <1>2
  <2> QED
    BY <1>1, <2>1, <2>2 DEF SpentByAccepted
<1> QED
  BY <1>1, <1>3, <1>4, <1>5, <1>6, <1>7

LEMMA RootsUnchanged ==
  ASSUME UNCHANGED table, NEW c, about'[c] = about[c]
  PROVE  /\ MerkleRoot(about[c].id)' = MerkleRoot(about[c].id)
         /\ MerkleRoot(about[c].from)' = MerkleRoot(about[c].from)
BY DEF table, MerkleRoot, LeafHashes

(* A claim comes in.                                                        *)
LEMMA PresentKeeps ==
  ASSUME IInv, NEW c \in Claim, NEW to \in {"request", "read"}, NEW r \in Request \union {NoRequest},
         NEW id \in Id, NEW from \in Id, NEW index \in 0 .. MAX_LEAVES - 1, NEW threshold \in Threshold,
         to = "read" => r = NoRequest,
         ClaimGoes(c, "idle", to), Present(c, r, id, from, index, threshold)
  PROVE  IInv'
<1> USE DEF IInv
<1> DEFINE it == [request |-> r, id |-> id, from |-> from, index |-> index, threshold |-> threshold]
<1>1. /\ UNCHANGED table /\ credentials' = credentials /\ due' = due /\ request' = request
      /\ claim[c] = "idle" /\ claim' = [claim EXCEPT ![c] = to]
      /\ about' = [about EXCEPT ![c] = it]
      /\ dead' = [dead EXCEPT ![c] = Dead]
      /\ spent' = [spent EXCEPT ![c] = Spent \ {NoRequest}]
  BY DEF Present, ClaimGoes, table
<1>2. it \in About /\ it.request = r /\ it.id = id /\ it.from = from /\ it.index = index
      /\ it.threshold = threshold
  BY DEF About
<1>3. /\ id \in Issued /\ from \in Issued /\ credentials[from].type # GovernmentID
      /\ index < Len(credentials[from].values)
      /\ threshold <= credentials[from].values[index + 1]
  BY DEF Present
<1> HIDE DEF it
<1>4. /\ claim'[c] = to /\ about'[c] = it /\ dead'[c] = Dead /\ spent'[c] = Spent \ {NoRequest}
      /\ \A x \in Claim \ {c} :
           claim'[x] = claim[x] /\ about'[x] = about[x] /\ dead'[x] = dead[x] /\ spent'[x] = spent[x]
      /\ DOMAIN about' = Claim
  BY <1>1 DEF TypeOK
<1>5. Spent \ {NoRequest} \subseteq {q \in Request : q # NoRequest /\ request[q] \in {"gone", "expired"}}
  <2> SUFFICES ASSUME NEW x \in Claim, claim[x] = "granted", about[x].request # NoRequest
               PROVE  about[x].request \in Request /\ request[about[x].request] \in {"gone", "expired"}
    BY DEF Spent
  <2>1. about[x] \in About
    BY DEF TypeOK
  <2> QED
    BY <2>1 DEF About, Closed
<1>6. Dead \subseteq Id
  <2>1. Issued \subseteq Id
    <3>1. Len(credentials) \in Nat /\ Issued = 1 .. Len(credentials) /\ Len(credentials) <= MaxIssued
      BY DEF TypeOK, Issued
    <3> QED
      BY <3>1, AttributesAssumption DEF Id
  <2> QED
    BY <2>1 DEF Dead, TypeOK
<1>7. TypeOK'
  <2>1. claim' \in [Claim -> Step \union {"idle", "granted", "refused"}]
    BY <1>1 DEF TypeOK, Step
  <2>2. dead' \in [Claim -> SUBSET Id] /\ spent' \in [Claim -> SUBSET Request]
    BY <1>1, <1>5, <1>6 DEF TypeOK
  <2>3. \A x \in Claim : claim'[x] # "idle" => about'[x] \in About
    BY <1>2, <1>4 DEF TypeOK
  <2> QED
    BY <1>1, <2>1, <2>2, <2>3 DEF TypeOK
<1>8. Presented'
  <2>1. Issued' = Issued
    BY <1>1, TableUnchanged
  <2> QED
    BY <1>1, <1>2, <1>3, <1>4, <2>1 DEF Presented
<1>9. DeadStays'
  <2>1. Dead' = Dead
    BY <1>1, TableUnchanged
  <2> QED
    BY <1>4, <2>1 DEF DeadStays
<1>10. Checked'
  <2> SUFFICES ASSUME NEW x \in Claim, claim'[x] \in {"verify", "spend", "granted"}
               PROVE  about'[x].id \notin dead'[x]
                      /\ MerkleRoot(about[x].id)' = MerkleRoot(about[x].from)'
    BY DEF Checked
  <2>1. x # c /\ claim[x] \in {"verify", "spend", "granted"}
    BY <1>4
  <2>2. about[x].id \notin dead[x] /\ MerkleRoot(about[x].id) = MerkleRoot(about[x].from)
    BY <2>1 DEF Checked
  <2>3. MerkleRoot(about[x].id)' = MerkleRoot(about[x].id)
        /\ MerkleRoot(about[x].from)' = MerkleRoot(about[x].from)
    BY <1>1, <1>4, <2>1, RootsUnchanged
  <2> QED
    BY <1>4, <2>1, <2>2, <2>3
<1>11. SpentStays'
  BY <1>1, <1>4, <1>5 DEF SpentStays
<1>12. Opened' /\ Closed'
  BY <1>1, <1>2, <1>4 DEF Opened, Closed
<1>13. SpentByAccepted'
  <2> SUFFICES ASSUME NEW q \in Request, request[q] = "gone"
               PROVE  \E x \in Claim :
                        /\ claim'[x] \in {"granted", "refused"}
                        /\ about'[x].request = q
                        /\ about'[x].id \notin dead'[x]
                        /\ MerkleRoot(about[x].id)' = MerkleRoot(about[x].from)'
    BY <1>1 DEF SpentByAccepted
  <2>1. PICK x \in Claim :
          /\ claim[x] \in {"granted", "refused"}
          /\ about[x].request = q
          /\ about[x].id \notin dead[x]
          /\ MerkleRoot(about[x].id) = MerkleRoot(about[x].from)
    BY DEF SpentByAccepted
  <2>2. x # c
    BY <1>1, <2>1
  <2>3. MerkleRoot(about[x].id)' = MerkleRoot(about[x].id)
        /\ MerkleRoot(about[x].from)' = MerkleRoot(about[x].from)
    BY <1>1, <1>4, <2>2, RootsUnchanged
  <2> QED
    BY <1>4, <2>1, <2>2, <2>3
<1> QED
  BY <1>4, <1>7, <1>8, <1>9, <1>10, <1>11, <1>12, <1>13

(* Any other step of a claim: c goes on, and its proof request may be       *)
(* deleted with it.                                                         *)
Sound(c) == about[c].id \notin dead[c] /\ MerkleRoot(about[c].id) = MerkleRoot(about[c].from)
Goes(c, to) ==
  /\ c \in Claim /\ to \in Step \union {"granted", "refused"}
  /\ claim[c] \in Step /\ claim' = [claim EXCEPT ![c] = to]
  /\ Stay
  /\ \/ request' = request
     \/ /\ to \in {"granted", "refused"} /\ Sound(c)
        /\ request' = [request EXCEPT ![about[c].request] = IF @ = "set" THEN "gone" ELSE @]
  /\ to \in {"verify", "spend", "granted"} => Sound(c)
  /\ to \in {"resolve", "fetch", "issuer", "read", "verify", "spend", "granted"} =>
       /\ about[c].request \notin spent[c]
       /\ about[c].request # NoRequest => request[about[c].request] # "none"
  /\ to = "spend" => about[c].request # NoRequest
  /\ to = "granted" /\ about[c].request # NoRequest =>
       request'[about[c].request] \in {"gone", "expired"}

LEMMA ClaimKeeps ==
  ASSUME IInv, NEW c, NEW to, Goes(c, to)
  PROVE  IInv'
<1> USE DEF IInv
<1>1. /\ UNCHANGED table /\ credentials' = credentials /\ due' = due
      /\ about' = about /\ dead' = dead /\ spent' = spent
      /\ c \in Claim /\ claim[c] \in Step /\ claim' = [claim EXCEPT ![c] = to]
      /\ to \in Step \union {"granted", "refused"}
  BY DEF Goes, Stay, table
<1>2. /\ claim'[c] = to
      /\ \A x \in Claim \ {c} : claim'[x] = claim[x]
      /\ claim[c] # "idle" /\ claim[c] \notin {"granted", "refused"}
  BY <1>1 DEF TypeOK, Step
<1>3. /\ request' \in [Request -> {"none", "set", "gone", "expired"}]
      /\ \A q \in Request :
           \/ request'[q] = request[q]
           \/ request[q] = "set" /\ request'[q] = "gone" /\ q = about[c].request
              /\ to \in {"granted", "refused"} /\ Sound(c)
  <2>1. request \in [Request -> {"none", "set", "gone", "expired"}]
    BY DEF TypeOK
  <2>2. CASE request' = request
    BY <2>1, <2>2
  <2>3. CASE /\ to \in {"granted", "refused"} /\ Sound(c)
             /\ request' = [request EXCEPT ![about[c].request] = IF @ = "set" THEN "gone" ELSE @]
    BY <2>1, <2>3
  <2> QED
    BY <2>2, <2>3 DEF Goes
<1>4. \A x \in Claim : claim[x] # "idle" =>
        about[x] \in About /\ (about[x].request # NoRequest => about[x].request \in Request)
  BY DEF TypeOK, About
<1>5. \A x \in Claim : /\ MerkleRoot(about[x].id)' = MerkleRoot(about[x].id)
                       /\ MerkleRoot(about[x].from)' = MerkleRoot(about[x].from)
  BY <1>1, RootsUnchanged
<1>6. TypeOK'
  <2>1. claim' \in [Claim -> Step \union {"idle", "granted", "refused"}]
    BY <1>1 DEF TypeOK
  <2>2. \A x \in Claim : claim'[x] # "idle" => about'[x] \in About
    BY <1>1, <1>2, <1>4
  <2> QED
    BY <1>1, <1>3, <2>1, <2>2 DEF TypeOK
<1>7. Presented'
  <2>1. Issued' = Issued
    BY <1>1, TableUnchanged
  <2>2. \A x \in Claim : claim'[x] # "idle" => claim[x] # "idle"
    BY <1>2
  <2> QED
    BY <1>1, <2>1, <2>2 DEF Presented
<1>8. DeadStays'
  <2>1. Dead' = Dead
    BY <1>1, TableUnchanged
  <2> QED
    BY <1>1, <2>1 DEF DeadStays
<1>9. Checked'
  <2> SUFFICES ASSUME NEW x \in Claim, claim'[x] \in {"verify", "spend", "granted"}
               PROVE  about[x].id \notin dead[x] /\ MerkleRoot(about[x].id) = MerkleRoot(about[x].from)
    BY <1>1, <1>5 DEF Checked
  <2>1. CASE x = c
    BY <1>2, <2>1 DEF Goes, Sound
  <2>2. CASE x # c
    BY <1>2, <2>2 DEF Checked
  <2> QED
    BY <2>1, <2>2
<1>10. SpentStays'
  BY <1>1, <1>3 DEF SpentStays, TypeOK
<1>11. Opened'
  <2> SUFFICES ASSUME NEW x \in Claim,
                      claim'[x] \in {"resolve", "fetch", "issuer", "read", "verify", "spend", "granted"}
               PROVE  /\ about[x].request \notin spent[x]
                      /\ about[x].request # NoRequest => request'[about[x].request] # "none"
    BY <1>1 DEF Opened
  <2>1. /\ about[x].request \notin spent[x]
        /\ about[x].request # NoRequest => request[about[x].request] # "none"
    BY <1>2 DEF Opened, Goes
  <2>2. about[x].request # NoRequest => about[x].request \in Request
    BY <1>2, <1>4
  <2> QED
    BY <1>3, <2>1, <2>2
<1>12. Closed'
  <2> SUFFICES ASSUME NEW x \in Claim
               PROVE  /\ claim'[x] = "spend" => about[x].request # NoRequest
                      /\ claim'[x] = "granted" /\ about[x].request # NoRequest =>
                           request'[about[x].request] \in {"gone", "expired"}
    BY <1>1 DEF Closed
  <2>1. CASE x = c
    BY <1>2, <2>1 DEF Goes
  <2>2. CASE x # c
    <3>1. /\ claim[x] = "spend" => about[x].request # NoRequest
          /\ claim[x] = "granted" /\ about[x].request # NoRequest =>
               request[about[x].request] \in {"gone", "expired"} /\ about[x].request \in Request
      BY <1>4 DEF Closed
    <3> QED
      BY <1>2, <1>3, <2>2, <3>1
  <2> QED
    BY <2>1, <2>2
<1>13. SpentByAccepted'
  <2> SUFFICES ASSUME NEW q \in Request, request'[q] = "gone"
               PROVE  \E x \in Claim :
                        /\ claim'[x] \in {"granted", "refused"}
                        /\ about[x].request = q
                        /\ about[x].id \notin dead[x]
                        /\ MerkleRoot(about[x].id) = MerkleRoot(about[x].from)
    BY <1>1, <1>5 DEF SpentByAccepted
  <2>1. CASE request[q] = "gone"
    <3>1. PICK x \in Claim :
            /\ claim[x] \in {"granted", "refused"}
            /\ about[x].request = q
            /\ about[x].id \notin dead[x]
            /\ MerkleRoot(about[x].id) = MerkleRoot(about[x].from)
      BY <2>1 DEF SpentByAccepted
    <3>2. x # c
      BY <1>2, <3>1
    <3> QED
      BY <1>2, <3>1, <3>2
  <2>2. CASE request[q] # "gone"
    BY <1>1, <1>2, <1>3, <2>2 DEF Sound
  <2> QED
    BY <2>1, <2>2
<1> QED
  BY <1>1, <1>6, <1>7, <1>8, <1>9, <1>10, <1>11, <1>12, <1>13

-----------------------------------------------------------------------------
(* Nothing is issued and nobody has come yet.                               *)
LEMMA InitInv == Init => IInv
<1> SUFFICES ASSUME Init PROVE IInv
  OBVIOUS
<1>1. TypeOK
  BY AttributesAssumption DEF Init, TypeOK
<1>2. /\ DOMAIN about = Claim /\ \A c \in Claim : claim[c] = "idle" /\ dead[c] = {} /\ spent[c] = {}
      /\ \A r \in Request : request[r] = "none"
  BY DEF Init
<1> QED
  BY <1>1, <1>2 DEF IInv, Presented, DeadStays, Checked, SpentStays, Opened, Closed, SpentByAccepted

(* Every step keeps the invariant.                                          *)
LEMMA StepInv == IInv /\ [Next]_vars => IInv'
<1> SUFFICES ASSUME IInv, [Next]_vars PROVE IInv'
  OBVIOUS
<1>0. TypeOK
  BY DEF IInv
<1>1. CASE UNCHANGED vars
  <2>1. Issued' = Issued /\ Grows /\ credentials' = credentials /\ due' = due
    BY <1>1 DEF vars, table, Issued, Grows
  <2> QED
    BY <1>0, <1>1, <2>1, TableKeeps DEF vars, TypeOK, Row
<1>2. CASE PostIssueCredential
  <2>1. PICK type \in Type, values \in Attributes : IssueCredential(type, values)
    BY <1>2 DEF PostIssueCredential
  <2>2. UNCHANGED <<due, request, claims>>
    BY <2>1 DEF IssueCredential
  <2> QED
    BY <1>0, <2>1, <2>2, IssueStep, TableKeeps DEF TypeOK
<1>3. CASE PostIssueId
  <2>1. PICK values \in Attributes : IssueId(values)
    BY <1>3 DEF PostIssueId
  <2>2. UNCHANGED <<due, request, claims>>
    BY <2>1 DEF IssueId
  <2> QED
    BY <1>0, <2>1, <2>2, IssueIdStep, TableKeeps DEF TypeOK
<1>4. CASE PostRevokeCredential
  <2>1. PICK id \in Id : RevokeCredential(id)
    BY <1>4 DEF PostRevokeCredential
  <2>2. UNCHANGED <<due, request, claims>>
    BY <2>1 DEF RevokeCredential
  <2> QED
    BY <1>0, <2>1, <2>2, RevokeStep, TableKeeps DEF TypeOK
<1>5. ASSUME NEW id \in Id, FallDue(id) PROVE IInv'
  <2>1. /\ Grows /\ UNCHANGED <<request, claims>> /\ credentials' = credentials /\ due' = due \union {id}
    BY <1>5 DEF FallDue, Grows, Issued
  <2> QED
    BY <1>0, <2>1, TableKeeps DEF TypeOK, Row
<1>6. ASSUME NEW r \in Request, RequestProof(r) \/ RequestExpires(r) PROVE IInv'
  BY <1>6, RequestKeeps
<1>7. ASSUME NEW c \in Claim, NEW id \in Id, NEW from \in Id, NEW index \in 0 .. MAX_LEAVES - 1,
             NEW threshold \in Threshold,
             \/ \E r \in Request : PostVerifyPresentation(c, r, id, from, index, threshold)
             \/ PostVerifyClaim(c, id, from, index, threshold)
      PROVE  IInv'
  <2>1. CASE \E r \in Request : PostVerifyPresentation(c, r, id, from, index, threshold)
    BY <2>1, PresentKeeps DEF PostVerifyPresentation
  <2>2. CASE PostVerifyClaim(c, id, from, index, threshold)
    BY <2>2, PresentKeeps DEF PostVerifyClaim
  <2> QED
    BY <1>7, <2>1, <2>2
<1>8. ASSUME NEW c \in Claim,
             \/ GetRequest(c) \/ ResolveIssuer(c) \/ FetchDocument(c) \/ VerifyIssuerProof(c)
             \/ ReadCredential(c) \/ VerifyClaim(c) \/ SpendRequest(c)
      PROVE  \E to : Goes(c, to)
  <2>1. claim[c] # "idle" /\ about[c].request # NoRequest => about[c].request \in Request
    BY <1>0 DEF TypeOK, About
  <2>2. CASE GetRequest(c)
    <3>1. CASE ClaimGoes(c, "request", "resolve") /\ request[about[c].request] = "set"
      <4>1. about[c].request \notin spent[c]
        BY <3>1 DEF IInv, SpentStays
      <4>2. Goes(c, "resolve")
        BY <2>2, <3>1, <4>1 DEF Goes, GetRequest, ClaimGoes, Step
      <4> QED
        BY <4>2
    <3>2. CASE ClaimGoes(c, "request", "refused")
      <4>1. Goes(c, "refused")
        BY <2>2, <3>2 DEF Goes, GetRequest, ClaimGoes, Step
      <4> QED
        BY <4>1
    <3> QED
      BY <2>2, <3>1, <3>2 DEF GetRequest
  <2>3. CASE ResolveIssuer(c) \/ FetchDocument(c) \/ VerifyIssuerProof(c)
    <3>1. PICK to \in {"fetch", "issuer", "read", "refused"} :
            /\ claim[c] \in {"resolve", "fetch", "issuer"}
            /\ claim' = [claim EXCEPT ![c] = to] /\ Stay /\ request' = request
      BY <2>3 DEF ResolveIssuer, FetchDocument, VerifyIssuerProof, ClaimGoes
    <3>2. /\ about[c].request \notin spent[c]
          /\ about[c].request # NoRequest => request[about[c].request] # "none"
      BY <3>1 DEF IInv, Opened
    <3>3. Goes(c, to)
      BY <3>1, <3>2 DEF Goes, Step
    <3> QED
      BY <3>3
  <2>4. CASE ReadCredential(c)
    <3>1. PICK to \in {"verify", "refused"} :
            /\ claim[c] = "read" /\ claim' = [claim EXCEPT ![c] = to] /\ Stay /\ request' = request
            /\ to = "verify" => about[c].id \notin Dead
                                /\ MerkleRoot(about[c].id) = MerkleRoot(about[c].from)
      BY <2>4 DEF ReadCredential, ClaimGoes
    <3>2. /\ about[c].request \notin spent[c]
          /\ about[c].request # NoRequest => request[about[c].request] # "none"
      BY <3>1 DEF IInv, Opened
    <3>3. to = "verify" => Sound(c)
      BY <3>1 DEF IInv, DeadStays, Sound
    <3>4. Goes(c, to)
      BY <3>1, <3>2, <3>3 DEF Goes, Step
    <3> QED
      BY <3>4
  <2>5. CASE VerifyClaim(c)
    <3>1. PICK to \in {"granted", "spend", "refused"} :
            /\ claim[c] = "verify" /\ claim' = [claim EXCEPT ![c] = to] /\ Stay /\ request' = request
            /\ to = "granted" => about[c].request = NoRequest
            /\ to = "spend" => about[c].request # NoRequest
      BY <2>5 DEF VerifyClaim, ClaimGoes
    <3>2. /\ about[c].request \notin spent[c]
          /\ about[c].request # NoRequest => request[about[c].request] # "none"
          /\ Sound(c)
      BY <3>1 DEF IInv, Opened, Checked, Sound
    <3>3. Goes(c, to)
      BY <3>1, <3>2 DEF Goes, Step
    <3> QED
      BY <3>3
  <2>6. CASE SpendRequest(c)
    <3> DEFINE gone == [request EXCEPT ![about[c].request] = IF @ = "set" THEN "gone" ELSE @]
    <3>1. PICK to \in {"granted", "refused"} :
            /\ claim[c] = "spend" /\ claim' = [claim EXCEPT ![c] = to] /\ Stay
            /\ request' \in {request, gone}
            /\ to = "granted" => request' = gone
      BY <2>6 DEF SpendRequest, ClaimGoes
    <3>2. /\ about[c].request \notin spent[c]
          /\ about[c].request # NoRequest /\ about[c].request \in Request
          /\ request[about[c].request] \in {"set", "gone", "expired"}
          /\ Sound(c)
      BY <1>0, <2>1, <3>1 DEF IInv, Opened, Checked, Closed, Sound, TypeOK
    <3>3. gone[about[c].request] \in {"gone", "expired"}
      BY <1>0, <3>2 DEF TypeOK
    <3>4. Goes(c, to)
      BY <3>1, <3>2, <3>3 DEF Goes, Step
    <3> QED
      BY <3>4
  <2> QED
    BY <1>8, <2>2, <2>3, <2>4, <2>5, <2>6
<1> QED
  BY <1>1, <1>2, <1>3, <1>4, <1>5, <1>6, <1>7, <1>8, ClaimKeeps DEF Next

(* The table holds credentials of known types whose attributes are values   *)
(* that can be issued; a claim is where a handler can be.                   *)
THEOREM TypeCorrect == Spec => []TypeOK
<1>1. IInv => TypeOK
  BY DEF IInv
<1> QED
  BY <1>1, InitInv, StepInv, PTL DEF Spec

(* A claim about a credential that was revoked, replaced or overdue when it *)
(* came in is never accepted (disclosure.service.ts:168-200): DeadStays     *)
(* holds what the claim saw against the table until the row is read.        *)
THEOREM NoDeadCredentialAccepted == Spec => []DeadIsRefused
<1>1. IInv => DeadIsRefused
  BY DEF IInv, Checked, DeadIsRefused, Accepted
<1> QED
  BY <1>1, InitInv, StepInv, PTL DEF Spec

(* A proof request that was answered with a grant grants nothing to a       *)
(* presentation that comes in later, and only an accepted claim spends one  *)
(* (verifier.controller.ts:33-36, 337-338).                                 *)
THEOREM RequestAnswersOnce == Spec => []RequestIsOneTime
<1>1. IInv => RequestIsOneTime
  BY DEF IInv, Opened, SpentByAccepted, RequestIsOneTime
<1> QED
  BY <1>1, InitInv, StepInv, PTL DEF Spec

(* The leaves of a credential: as many as it has attributes, each with the  *)
(* salt of its own.                                                         *)
LEMMA LeavesAre ==
  ASSUME TypeOK, NEW id \in Issued
  PROVE  LET values == credentials[id].values
         IN  /\ values \in Seq(0 .. MaxValue) /\ Len(values) \in 0 .. MAX_LEAVES
             /\ Len(LeafHashes(id)) = Len(values)
             /\ \A i \in 0 .. Len(values) - 1 :
                  LeafHashes(id)[i + 1] = <<values[i + 1], id * MAX_LEAVES + i>>
<1> DEFINE values == credentials[id].values
<1>1. credentials[id] \in Row
  <2>1. credentials \in Seq(Row) /\ id \in 1 .. Len(credentials)
    BY DEF TypeOK, Issued, Row
  <2> QED
    BY <2>1
<1>2. values \in Seq(0 .. MaxValue) /\ Len(values) <= MAX_LEAVES
  BY <1>1, AttributesAssumption DEF Row
<1>3. Len(values) \in 0 .. MAX_LEAVES
  BY <1>2, MaxLeavesType
<1>4. LeafHashes(id) = [n \in 1 .. Len(values) |-> LeafHash(values[n], Salt(id, n - 1))]
  BY DEF LeafHashes
<1> HIDE DEF values
<1>5. Len(LeafHashes(id)) = Len(values)
  BY <1>3, <1>4
<1>6. ASSUME NEW i \in 0 .. Len(values) - 1
      PROVE  LeafHashes(id)[i + 1] = <<values[i + 1], id * MAX_LEAVES + i>>
  <2>1. i + 1 \in 1 .. Len(values) /\ (i + 1) - 1 = i
    BY <1>3
  <2> QED
    BY <1>4, <2>1 DEF LeafHash, poseidon2, Salt
<1> QED
  BY <1>2, <1>3, <1>5, <1>6 DEF values

(* They are the last row of its tree, and then zero leaves.                 *)
LEMMA LeafIs ==
  ASSUME TypeOK, NEW id \in Issued, NEW i \in 0 .. MAX_LEAVES - 1
  PROVE  Nodes(LeafHashes(id))[MAX_LEAVES + i] =
           IF i < Len(credentials[id].values) THEN <<credentials[id].values[i + 1], id * MAX_LEAVES + i>>
           ELSE <<0, 0>>
<1> DEFINE L == LeafHashes(id)
           values == credentials[id].values
<1>1. Len(values) \in Nat /\ Len(L) = Len(values)
  BY LeavesAre, MaxLeavesType
<1>2. i < Len(values) => L[i + 1] = <<values[i + 1], id * MAX_LEAVES + i>>
  <2>1. i < Len(values) => i \in 0 .. Len(values) - 1
    BY <1>1
  <2> QED
    BY <2>1, LeavesAre
<1>3. MAX_LEAVES + i \in 1 .. 2 * MAX_LEAVES - 1 /\ ~ (MAX_LEAVES + i < MAX_LEAVES)
      /\ (MAX_LEAVES + i) - MAX_LEAVES = i
  BY MaxLeavesType
<1>4. Nodes(L)[MAX_LEAVES + i] = Leaf(L, MAX_LEAVES + i)
  BY <1>3, NodesAre
<1> HIDE DEF L, values
<1>5. Leaf(L, MAX_LEAVES + i) = IF i < Len(L) THEN L[i + 1] ELSE <<0, 0>>
  BY <1>3 DEF Leaf, ZeroLeaf, LeafHash, poseidon2
<1> QED
  BY <1>2, <1>1, <1>4, <1>5 DEF L, values

(* An accepted claim is true of the credential it names                     *)
(* (disclosure.service.ts:208-231): the roots are equal, so the leaves are, *)
(* and a zero leaf has a salt that no attribute has.                        *)
THEOREM AcceptedIsTrue == Spec => []ClaimIsTrue
<1>1. IInv => ClaimIsTrue
  <2> SUFFICES ASSUME IInv, NEW c \in Claim, claim[c] \in {"spend", "granted"}
               PROVE  /\ about[c].index < Len(credentials[about[c].id].values)
                      /\ about[c].threshold <= credentials[about[c].id].values[about[c].index + 1]
    BY DEF ClaimIsTrue, Accepted
  <2> DEFINE id == about[c].id
             from == about[c].from
             index == about[c].index
             M == MAX_LEAVES
  <2>1. /\ id \in Issued /\ from \in Issued /\ from \in Nat \ {0}
        /\ credentials[from].type # GovernmentID
        /\ index \in 0 .. M - 1 /\ index < Len(credentials[from].values)
        /\ about[c].threshold <= credentials[from].values[index + 1]
        /\ TypeOK
    BY DEF IInv, Presented, TypeOK, About, Id
  <2>2. MerkleRoot(id) = MerkleRoot(from)
    BY DEF IInv, Checked
  <2>3. Nodes(LeafHashes(id))[1] = Nodes(LeafHashes(from))[1]
    <3>1. MerkleRoot(from) = [poseidon |-> Nodes(LeafHashes(from))[1]]
      BY <2>1 DEF MerkleRoot
    <3>2. CASE credentials[id].type = GovernmentID
      <4>1. MerkleRoot(id) = [sha256 |-> LeafHashes(id)]
        BY <3>2 DEF MerkleRoot
      <4>2. DOMAIN MerkleRoot(id) = {"sha256"} /\ DOMAIN MerkleRoot(from) = {"poseidon"}
        BY <3>1, <4>1
      <4> QED
        BY <2>2, <4>2
    <3>3. CASE credentials[id].type # GovernmentID
      <4>1. MerkleRoot(id) = [poseidon |-> Nodes(LeafHashes(id))[1]]
        BY <3>3 DEF MerkleRoot
      <4>2. MerkleRoot(id).poseidon = MerkleRoot(from).poseidon
        BY <2>2
      <4> QED
        BY <3>1, <4>1, <4>2
    <3> QED
      BY <3>2, <3>3
  <2> HIDE DEF id, from, index, M
  <2>4. M = MAX_LEAVES /\ M \in Nat \ {0}
    BY MaxLeavesType DEF M
  <2>5. Nodes(LeafHashes(id))[M + index] = Nodes(LeafHashes(from))[M + index]
    <3>1. M + index \in 1 .. 2 * M - 1
      BY <2>1, <2>4
    <3> QED
      BY <2>3, <2>4, <3>1, RootBinds
  <2>6. Nodes(LeafHashes(from))[M + index] = <<credentials[from].values[index + 1], from * M + index>>
    BY <2>1, <2>4, LeafIs
  <2>7. CASE index < Len(credentials[id].values)
    <3>1. Nodes(LeafHashes(id))[M + index] = <<credentials[id].values[index + 1], id * M + index>>
      BY <2>1, <2>4, <2>7, LeafIs
    <3>2. credentials[id].values[index + 1] = credentials[from].values[index + 1]
      BY <2>5, <2>6, <3>1
    <3> QED
      BY <2>1, <2>7, <3>2 DEF id, index
  <2>8. CASE ~ (index < Len(credentials[id].values))
    <3>1. Nodes(LeafHashes(id))[M + index] = <<0, 0>>
      BY <2>1, <2>4, <2>8, LeafIs
    <3>2. from * M + index = 0
      BY <2>5, <2>6, <3>1
    <3>3. \A x \in Nat \ {0}, y \in Nat \ {0} : x * y >= 1
      OBVIOUS
    <3> QED
      BY <2>1, <2>4, <3>2, <3>3
  <2> QED
    BY <2>7, <2>8
<1> QED
  BY <1>1, InitInv, StepInv, PTL DEF Spec

(* Of every attribute the circuit accepts the path the service makes, for   *)
(* its own index and thresholds up to its value, and nothing else           *)
(* (merkle.service.ts:23-27).                                               *)
THEOREM HonestProofsAccepted == Spec => []ProofsComplete
<1>1. TypeOK => ProofsComplete
  <2> SUFFICES ASSUME TypeOK, NEW id \in Issued, NEW i \in 0 .. Len(credentials[id].values) - 1,
                      NEW j \in 0 .. MAX_LEAVES - 1, NEW threshold \in Threshold
               PROVE  Accepts(Nodes(LeafHashes(id))[1], threshold, j, credentials[id].values[i + 1],
                              Salt(id, i), Path(Nodes(LeafHashes(id)), i))
                        <=> i = j /\ threshold <= credentials[id].values[i + 1]
    BY DEF ProofsComplete
  <2> DEFINE L == LeafHashes(id)
             value == credentials[id].values[i + 1]
  <2>1. credentials[id].values \in Seq(0 .. MaxValue) /\ Len(credentials[id].values) \in 0 .. MAX_LEAVES
        /\ Len(L) = Len(credentials[id].values) /\ L[i + 1] = <<value, id * MAX_LEAVES + i>>
    BY LeavesAre
  <2>2. i \in 0 .. MAX_LEAVES - 1 /\ i < Len(credentials[id].values) /\ i + 1 \in 1 .. Len(credentials[id].values)
    BY <2>1, MaxLeavesType
  <2>3. value \in 0 .. MaxValue /\ threshold \in Nat
    <3> DEFINE V == 0 .. MaxValue
    <3>1. \A s \in Seq(V) : \A n \in 1 .. Len(s) : s[n] \in V
      <4> HIDE DEF V
      <4> QED
        OBVIOUS
    <3> QED
      BY <2>1, <2>2, <3>1, AttributesAssumption
  <2>4. Nodes(L)[MAX_LEAVES + i] = LeafHash(value, Salt(id, i))
    BY <2>2, LeafIs DEF LeafHash, poseidon2, Salt
  <2> HIDE DEF L, value
  <2>5. Accepts(Nodes(L)[1], threshold, j, value, Salt(id, i), Path(Nodes(L), i))
          <=> i = j /\ threshold <= value
    BY <2>2, <2>3, <2>4, PathAccepted
  <2> QED
    BY <2>5 DEF L, value
<1> QED
  BY <1>1, TypeCorrect, PTL
=============================================================================
