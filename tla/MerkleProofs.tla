----------------------------- MODULE MerkleProofs -----------------------------
(***************************************************************************)
(* Theorems of Merkle.tla, for any height of the tree.                     *)
(***************************************************************************)
EXTENDS Merkle, TLAPS, SequenceTheorems, WellFoundedInduction

(* Induction.                                                              *)

\* A set of naturals that is not empty has a least element.
LEMMA LeastElement ==
  ASSUME NEW S \in SUBSET Nat, S # {}
  PROVE  \E m \in S : \A k \in S : m <= k
<1>1. PICK m \in S : \A k \in S : ~(<<k, m>> \in OpToRel(<, Nat))
  BY WFMin, NatLessThanWellFounded
<1>2. \A k \in S : ~(k < m)
  BY <1>1 DEF OpToRel
<1>. QED
  BY <1>2

\* What holds of 0, and of n + 1 with n, holds up to m.
LEMMA UpTo ==
  ASSUME NEW m \in Nat, NEW S, 0 \in S, \A n \in 0..(m - 1) : n \in S => n + 1 \in S
  PROVE  \A n \in 0..m : n \in S
<1>. DEFINE Not == {n \in 0..m : n \notin S}
<1>. SUFFICES ASSUME Not # {} PROVE FALSE
  OBVIOUS
<1>1. PICK n \in Not : \A k \in Not : n <= k
  <2>1. Not \in SUBSET Nat
    OBVIOUS
  <2>. HIDE DEF Not
  <2>. QED
    BY <2>1, LeastElement
<1>2. n # 0 /\ n \notin S /\ n \in 0..m
  BY <1>1
<1>3. n - 1 \in 0..(m - 1) /\ n - 1 \notin Not
  BY <1>1, <1>2
<1>4. n - 1 \in S
  BY <1>3
<1>. QED
  BY <1>2, <1>3, <1>4

-----------------------------------------------------------------------------
(* The recursive functions are what their equations say.  Each is a CHOOSE *)
(* of a function that satisfies its equation: one does, for one satisfies  *)
(* it up to any level, extended a level at a time.                         *)

\* 1 << n
LEMMA PowerDef ==
  \A n \in 0..Height : power_of_two[n] = IF n = 0 THEN 1 ELSE 2 * power_of_two[n - 1]
<1>. DEFINE To(f, m) == f = [n \in 0..m |-> IF n = 0 THEN 1 ELSE 2 * f[n - 1]]
            S == {m \in 0..Height : \E f : To(f, m)}
<1>1. 0 \in S
  <2>1. To([n \in 0..0 |-> 1], 0)
    OBVIOUS
  <2>. HIDE DEF To
  <2>. QED
    BY <2>1, HeightAssumption
<1>2. ASSUME NEW m \in 0..(Height - 1), m \in S PROVE m + 1 \in S
  <2>1. PICK f : To(f, m)
    BY <1>2
  <2>. DEFINE g == [n \in 0..(m + 1) |-> IF n = m + 1 THEN 2 * f[n - 1] ELSE f[n]]
  <2>2. To(g, m + 1)
    BY <2>1
  <2>. HIDE DEF To
  <2>. QED
    BY <2>2, HeightAssumption
<1>. HIDE DEF To
<1>3. \E f : To(f, Height)
  <2>. HIDE DEF S
  <2>1. Height \in S
    BY <1>1, <1>2, UpTo, HeightAssumption
  <2>. QED
    BY <2>1 DEF S
<1>4. power_of_two = CHOOSE f : To(f, Height)
  BY DEF power_of_two, To
<1>5. To(power_of_two, Height)
  BY <1>3, <1>4
<1>. DEFINE g == [n \in 0..Height |-> IF n = 0 THEN 1 ELSE 2 * power_of_two[n - 1]]
<1>6. power_of_two = g
  BY <1>5 DEF To
<1>7. \A n \in 0..Height : g[n] = IF n = 0 THEN 1 ELSE 2 * power_of_two[n - 1]
  OBVIOUS
<1>. HIDE DEF g
<1>. QED
  BY <1>6, <1>7

\* count >> n
LEMMA ShiftedDef ==
  ASSUME NEW c
  PROVE \A n \in 0..Height : shifted(c)[n] = IF n = 0 THEN c ELSE shifted(c)[n - 1] \div 2
<1>. DEFINE To(f, m) == f = [n \in 0..m |-> IF n = 0 THEN c ELSE f[n - 1] \div 2]
            S == {m \in 0..Height : \E f : To(f, m)}
<1>1. 0 \in S
  <2>1. To([n \in 0..0 |-> c], 0)
    OBVIOUS
  <2>. HIDE DEF To
  <2>. QED
    BY <2>1, HeightAssumption
<1>2. ASSUME NEW m \in 0..(Height - 1), m \in S PROVE m + 1 \in S
  <2>1. PICK f : To(f, m)
    BY <1>2
  <2>. DEFINE g == [n \in 0..(m + 1) |-> IF n = m + 1 THEN f[n - 1] \div 2 ELSE f[n]]
  <2>2. To(g, m + 1)
    BY <2>1
  <2>. HIDE DEF To
  <2>. QED
    BY <2>2, HeightAssumption
<1>. HIDE DEF To
<1>3. \E f : To(f, Height)
  <2>. HIDE DEF S
  <2>1. Height \in S
    BY <1>1, <1>2, UpTo, HeightAssumption
  <2>. QED
    BY <2>1 DEF S
<1>4. shifted(c) = CHOOSE f : To(f, Height)
  BY DEF shifted, To
<1>5. To(shifted(c), Height)
  BY <1>3, <1>4
<1>. DEFINE g == [n \in 0..Height |-> IF n = 0 THEN c ELSE shifted(c)[n - 1] \div 2]
<1>6. shifted(c) = g
  BY <1>5 DEF To
<1>7. \A n \in 0..Height : g[n] = IF n = 0 THEN c ELSE shifted(c)[n - 1] \div 2
  OBVIOUS
<1>. HIDE DEF g
<1>. QED
  BY <1>6, <1>7

\* The carry loop.
LEMMA CarriedDef ==
  ASSUME NEW t, NEW hash
  PROVE \A n \in 0..Height : carried(t, hash)[n] = IF n = 0 THEN hash ELSE concat_hash(t.state[n - 1], carried(t, hash)[n - 1])
<1>. DEFINE To(f, m) == f = [n \in 0..m |-> IF n = 0 THEN hash ELSE concat_hash(t.state[n - 1], f[n - 1])]
            S == {m \in 0..Height : \E f : To(f, m)}
<1>1. 0 \in S
  <2>1. To([n \in 0..0 |-> hash], 0)
    OBVIOUS
  <2>. HIDE DEF To
  <2>. QED
    BY <2>1, HeightAssumption
<1>2. ASSUME NEW m \in 0..(Height - 1), m \in S PROVE m + 1 \in S
  <2>1. PICK f : To(f, m)
    BY <1>2
  <2>. DEFINE g == [n \in 0..(m + 1) |-> IF n = m + 1 THEN concat_hash(t.state[n - 1], f[n - 1]) ELSE f[n]]
  <2>2. To(g, m + 1)
    BY <2>1
  <2>. HIDE DEF To
  <2>. QED
    BY <2>2, HeightAssumption
<1>. HIDE DEF To
<1>3. \E f : To(f, Height)
  <2>. HIDE DEF S
  <2>1. Height \in S
    BY <1>1, <1>2, UpTo, HeightAssumption
  <2>. QED
    BY <2>1 DEF S
<1>4. carried(t, hash) = CHOOSE f : To(f, Height)
  BY DEF carried, To
<1>5. To(carried(t, hash), Height)
  BY <1>3, <1>4
<1>. DEFINE g == [n \in 0..Height |-> IF n = 0 THEN hash ELSE concat_hash(t.state[n - 1], carried(t, hash)[n - 1])]
<1>6. carried(t, hash) = g
  BY <1>5 DEF To
<1>7. \A n \in 0..Height : g[n] = IF n = 0 THEN hash ELSE concat_hash(t.state[n - 1], carried(t, hash)[n - 1])
  OBVIOUS
<1>. HIDE DEF g
<1>. QED
  BY <1>6, <1>7

\* The loop of the root.
LEMMA RootedDef ==
  ASSUME NEW t
  PROVE \A n \in 0..Height : rooted(t)[n] = IF n = 0 THEN ZeroHash ELSE IF HasSubtree(t, n - 1) THEN concat_hash(t.state[n - 1], rooted(t)[n - 1]) ELSE concat_hash(rooted(t)[n - 1], pristine_hash[n - 1])
<1>. DEFINE To(f, m) == f = [n \in 0..m |-> IF n = 0 THEN ZeroHash ELSE IF HasSubtree(t, n - 1) THEN concat_hash(t.state[n - 1], f[n - 1])
                                      ELSE concat_hash(f[n - 1], pristine_hash[n - 1])]
            S == {m \in 0..Height : \E f : To(f, m)}
<1>1. 0 \in S
  <2>1. To([n \in 0..0 |-> ZeroHash], 0)
    OBVIOUS
  <2>. HIDE DEF To
  <2>. QED
    BY <2>1, HeightAssumption
<1>2. ASSUME NEW m \in 0..(Height - 1), m \in S PROVE m + 1 \in S
  <2>1. PICK f : To(f, m)
    BY <1>2
  <2>. DEFINE g == [n \in 0..(m + 1) |-> IF n = m + 1 THEN IF HasSubtree(t, n - 1) THEN concat_hash(t.state[n - 1], f[n - 1])
                                      ELSE concat_hash(f[n - 1], pristine_hash[n - 1]) ELSE f[n]]
  <2>2. To(g, m + 1)
    BY <2>1
  <2>. HIDE DEF To
  <2>. QED
    BY <2>2, HeightAssumption
<1>. HIDE DEF To
<1>3. \E f : To(f, Height)
  <2>. HIDE DEF S
  <2>1. Height \in S
    BY <1>1, <1>2, UpTo, HeightAssumption
  <2>. QED
    BY <2>1 DEF S
<1>4. rooted(t) = CHOOSE f : To(f, Height)
  BY DEF rooted, To
<1>5. To(rooted(t), Height)
  BY <1>3, <1>4
<1>. DEFINE g == [n \in 0..Height |-> IF n = 0 THEN ZeroHash ELSE IF HasSubtree(t, n - 1) THEN concat_hash(t.state[n - 1], rooted(t)[n - 1]) ELSE concat_hash(rooted(t)[n - 1], pristine_hash[n - 1])]
<1>6. rooted(t) = g
  BY <1>5 DEF To
<1>7. \A n \in 0..Height : g[n] = IF n = 0 THEN ZeroHash ELSE IF HasSubtree(t, n - 1) THEN concat_hash(t.state[n - 1], rooted(t)[n - 1]) ELSE concat_hash(rooted(t)[n - 1], pristine_hash[n - 1])
  OBVIOUS
<1>. HIDE DEF g
<1>. QED
  BY <1>6, <1>7

\* The table of constants.
LEMMA PristineDef ==
  \A n \in Level : pristine_hash[n] = IF n = 0 THEN ZeroHash ELSE concat_hash(pristine_hash[n - 1], pristine_hash[n - 1])
<1>. DEFINE To(f, m) == f = [n \in 0..m |-> IF n = 0 THEN ZeroHash ELSE concat_hash(f[n - 1], f[n - 1])]
            S == {m \in Level : \E f : To(f, m)}
<1>1. 0 \in S
  <2>1. To([n \in 0..0 |-> ZeroHash], 0)
    OBVIOUS
  <2>. HIDE DEF To
  <2>. QED
    BY <2>1, HeightAssumption DEF Level
<1>2. ASSUME NEW m \in 0..(Height - 1 - 1), m \in S PROVE m + 1 \in S
  <2>1. PICK f : To(f, m)
    BY <1>2
  <2>. DEFINE g == [n \in 0..(m + 1) |-> IF n = m + 1 THEN concat_hash(f[n - 1], f[n - 1]) ELSE f[n]]
  <2>2. To(g, m + 1)
    BY <2>1
  <2>. HIDE DEF To
  <2>. QED
    BY <2>2, HeightAssumption DEF Level
<1>. HIDE DEF To
<1>3. \E f : To(f, Height - 1)
  <2>. HIDE DEF S
  <2>1. Height - 1 \in S
    BY <1>1, <1>2, UpTo, HeightAssumption
  <2>. QED
    BY <2>1 DEF S
<1>4. pristine_hash = CHOOSE f : To(f, Height - 1)
  BY DEF pristine_hash, To, Level
<1>5. To(pristine_hash, Height - 1)
  BY <1>3, <1>4
<1>. DEFINE g == [n \in Level |-> IF n = 0 THEN ZeroHash ELSE concat_hash(pristine_hash[n - 1], pristine_hash[n - 1])]
<1>6. pristine_hash = g
  BY <1>5 DEF To, Level
<1>7. \A n \in Level : g[n] = IF n = 0 THEN ZeroHash ELSE concat_hash(pristine_hash[n - 1], pristine_hash[n - 1])
  OBVIOUS
<1>. HIDE DEF g
<1>. QED
  BY <1>6, <1>7

\* The reference tree.
LEMMA NodeDef ==
  ASSUME NEW s
  PROVE  /\ \A k \in Nat : ReferenceNode(s)[0][k] = ReferenceLeaf(s, k)
         /\ \A h \in Level, k \in Nat :
              ReferenceNode(s)[h + 1][k] = concat_hash(ReferenceNode(s)[h][2 * k],
                                                       ReferenceNode(s)[h][2 * k + 1])
<1>. DEFINE Row(f, h) == [k \in Nat |-> IF h = 0 THEN ReferenceLeaf(s, k)
                                        ELSE concat_hash(f[h - 1][2 * k], f[h - 1][2 * k + 1])]
            To(f, m) == f = [h \in 0..m |-> Row(f, h)]
            S == {m \in 0..Height : \E f : To(f, m)}
<1>1. 0 \in S
  <2>1. To([h \in 0..0 |-> [k \in Nat |-> ReferenceLeaf(s, k)]], 0)
    OBVIOUS
  <2>. HIDE DEF To
  <2>. QED
    BY <2>1, HeightAssumption
<1>2. ASSUME NEW m \in 0..(Height - 1), m \in S PROVE m + 1 \in S
  <2>1. PICK f : To(f, m)
    BY <1>2
  <2>. DEFINE g == [h \in 0..(m + 1) |-> IF h = m + 1 THEN Row(f, h) ELSE f[h]]
  <2>2. \A h \in 1..(m + 1) : g[h - 1] = f[h - 1]
    OBVIOUS
  <2>3. \A h \in 0..(m + 1) : Row(g, h) = Row(f, h)
    <3>. HIDE DEF g
    <3>1. ASSUME NEW h \in 0..(m + 1), h # 0 PROVE g[h - 1] = f[h - 1]
      <4>1. h \in 1..(m + 1)
        BY <3>1, HeightAssumption
      <4>. QED
        BY <2>2, <4>1
    <3>. QED
      BY <3>1
  <2>4. \A h \in 0..m : f[h] = Row(f, h)
    <3>. HIDE DEF Row
    <3>. QED
      BY <2>1
  <2>5. To(g, m + 1)
    <3>. HIDE DEF Row
    <3>. QED
      BY <2>3, <2>4
  <2>. HIDE DEF To
  <2>. QED
    BY <2>5, HeightAssumption
<1>. HIDE DEF To
<1>3. \E f : To(f, Height)
  <2>. HIDE DEF S
  <2>1. Height \in S
    BY <1>1, <1>2, UpTo, HeightAssumption
  <2>. QED
    BY <2>1 DEF S
<1>4. ReferenceNode(s) = CHOOSE f : To(f, Height)
  BY DEF ReferenceNode, To
<1>5. To(ReferenceNode(s), Height)
  BY <1>3, <1>4
<1>. DEFINE node == ReferenceNode(s)
            g == [h \in 0..Height |-> Row(node, h)]
<1>6. node = g
  BY <1>5 DEF To
<1>7. \A h \in 0..Height : g[h] = Row(node, h)
  <2>. HIDE DEF Row
  <2>. QED
    OBVIOUS
<1>. HIDE DEF g, node
<1>8. \A h \in 0..Height : node[h] = Row(node, h)
  BY <1>6, <1>7 DEF Row
<1>9. \A k \in Nat : node[0][k] = ReferenceLeaf(s, k)
  <2>1. node[0] = Row(node, 0)
    BY <1>8, HeightAssumption
  <2>. QED
    BY <2>1
<1>10. ASSUME NEW h \in Level
       PROVE  \A k \in Nat : node[h + 1][k] = concat_hash(node[h][2 * k], node[h][2 * k + 1])
  <2>1. h + 1 # 0 /\ h + 1 - 1 = h /\ h + 1 \in 0..Height
    BY HeightAssumption DEF Level
  <2>2. node[h + 1] = Row(node, h + 1)
    <3>. HIDE DEF Row
    <3>. QED
      BY <1>8, <2>1
  <2>3. \A k \in Nat : Row(node, h + 1)[k] = concat_hash(node[h][2 * k], node[h][2 * k + 1])
    <3>. TAKE k \in Nat
    <3>. DEFINE n == h + 1
    <3>1. n # 0 /\ n - 1 = h
      BY HeightAssumption DEF Level
    <3>. HIDE DEF n
    <3>2. Row(node, n)[k] = concat_hash(node[n - 1][2 * k], node[n - 1][2 * k + 1])
      BY <3>1
    <3>. HIDE DEF Row
    <3>. QED
      BY <3>1, <3>2 DEF n
  <2>. HIDE DEF Row
  <2>. QED
    BY <2>2, <2>3
<1>. QED
  BY <1>9, <1>10 DEF node

-----------------------------------------------------------------------------
(* Arithmetic of the counter.                                              *)

LEMMA OddHalf ==
  ASSUME NEW x \in Nat, x % 2 = 1
  PROVE  /\ x \div 2 \in Nat /\ x - 1 \in Nat /\ x - 1 < x
         /\ 2 * (x \div 2) = x - 1 /\ 2 * (x \div 2) + 1 = x
OBVIOUS

\* Each level has half the places of the one below.
LEMMA ShiftedFacts ==
  ASSUME NEW c \in Nat
  PROVE  /\ shifted(c)[0] = c
         /\ \A n \in Level : shifted(c)[n + 1] = shifted(c)[n] \div 2
         /\ \A n \in 0..Height : shifted(c)[n] \in Nat
<1>. DEFINE h == shifted(c)
            S == {n \in 0..Height : h[n] \in Nat}
<1>1. \A n \in 0..Height : h[n] = IF n = 0 THEN c ELSE h[n - 1] \div 2
  BY ShiftedDef
<1>. HIDE DEF h
<1>2. h[0] = c /\ \A n \in Level : h[n + 1] = h[n] \div 2
  BY <1>1, HeightAssumption DEF Level
<1>3. 0 \in S
  BY <1>2, HeightAssumption
<1>4. \A n \in 0..(Height - 1) : n \in S => n + 1 \in S
  BY <1>2, HeightAssumption DEF Level
<1>. HIDE DEF S
<1>5. \A n \in 0..Height : n \in S
  BY <1>3, <1>4, UpTo, HeightAssumption
<1>. QED
  BY <1>2, <1>5 DEF S, h

LEMMA PowerFacts ==
  /\ power_of_two[0] = 1
  /\ \A n \in Level : power_of_two[n + 1] = 2 * power_of_two[n]
  /\ \A n \in 0..Height : power_of_two[n] \in Nat
<1>. DEFINE S == {n \in 0..Height : power_of_two[n] \in Nat}
<1>2. power_of_two[0] = 1 /\ \A n \in Level : power_of_two[n + 1] = 2 * power_of_two[n]
  BY PowerDef, HeightAssumption DEF Level
<1>3. 0 \in S
  BY <1>2, HeightAssumption
<1>4. \A n \in 0..(Height - 1) : n \in S => n + 1 \in S
  BY <1>2, HeightAssumption DEF Level
<1>. HIDE DEF S
<1>5. \A n \in 0..Height : n \in S
  BY <1>3, <1>4, UpTo, HeightAssumption
<1>. QED
  BY <1>2, <1>5 DEF S

\* A number of a tree that is not full has no more than Height bits.
LEMMA CountShiftsOut ==
  ASSUME NEW c \in Nat, c < MaxCount
  PROVE  shifted(c)[Height] = 0
<1>. DEFINE S == {n \in 0..Height : shifted(c)[n] < power_of_two[Height - n]}
<1>1. 0 \in S
  BY ShiftedFacts, HeightAssumption DEF MaxCount
<1>2. ASSUME NEW n \in 0..(Height - 1), n \in S PROVE n + 1 \in S
  <2>1. n \in Level /\ Height - (n + 1) \in Level /\ Height - (n + 1) + 1 = Height - n
    BY HeightAssumption DEF Level
  <2>2. power_of_two[Height - n] = 2 * power_of_two[Height - (n + 1)]
    BY <2>1, PowerFacts
  <2>3. power_of_two[Height - (n + 1)] \in Nat /\ shifted(c)[n] \in Nat
        /\ shifted(c)[n + 1] = shifted(c)[n] \div 2
    BY <2>1, PowerFacts, ShiftedFacts, HeightAssumption DEF Level
  <2>4. shifted(c)[n] < 2 * power_of_two[Height - (n + 1)]
    BY <1>2, <2>2
  <2>5. shifted(c)[n + 1] < power_of_two[Height - (n + 1)]
    BY <2>3, <2>4
  <2>. QED
    BY <2>5, HeightAssumption
<1>. HIDE DEF S
<1>3. Height \in S
  BY <1>1, <1>2, UpTo, HeightAssumption
<1>4. shifted(c)[Height] < power_of_two[0] /\ shifted(c)[Height] \in Nat
  BY <1>3, ShiftedFacts, HeightAssumption DEF S
<1>. QED
  BY <1>4, PowerFacts
-----------------------------------------------------------------------------
(* The reference tree when a leaf is added.                                *)

\* Subtrees whose leaves were all there stay as they were.
LEMMA CompleteSubtreesStay ==
  ASSUME NEW s \in Seq(Data), NEW d \in Data
  PROVE  \A h \in 0..Height, k \in Nat :
           k < shifted(Len(s))[h] => ReferenceNode(Append(s, d))[h][k] = ReferenceNode(s)[h][k]
<1>. DEFINE c == Len(s)
            old == ReferenceNode(s)
            new == ReferenceNode(Append(s, d))
            S == {h \in 0..Height : \A k \in Nat : k < shifted(c)[h] => new[h][k] = old[h][k]}
<1>1. c \in Nat
  OBVIOUS
<1>2. 0 \in S
  <2>1. \A k \in Nat : k < c => ReferenceLeaf(Append(s, d), k) = ReferenceLeaf(s, k)
    BY AppendProperties DEF ReferenceLeaf
  <2>. QED
    BY <1>1, <2>1, NodeDef, ShiftedFacts, HeightAssumption
<1>3. ASSUME NEW h \in 0..(Height - 1), h \in S PROVE h + 1 \in S
  <2>1. h \in Level
    BY DEF Level
  <2>2. ASSUME NEW k \in Nat, k < shifted(c)[h + 1] PROVE new[h + 1][k] = old[h + 1][k]
    <3>1. shifted(c)[h + 1] = shifted(c)[h] \div 2 /\ shifted(c)[h] \in Nat
      BY <1>1, <2>1, ShiftedFacts, HeightAssumption DEF Level
    <3>2. 2 * k < shifted(c)[h] /\ 2 * k + 1 < shifted(c)[h]
      BY <2>2, <3>1
    <3>3. new[h][2 * k] = old[h][2 * k] /\ new[h][2 * k + 1] = old[h][2 * k + 1]
      BY <1>3, <3>2
    <3>4. old[h + 1][k] = concat_hash(old[h][2 * k], old[h][2 * k + 1])
      BY <2>1, NodeDef
    <3>5. new[h + 1][k] = concat_hash(new[h][2 * k], new[h][2 * k + 1])
      <4>. DEFINE longer == Append(s, d)
      <4>. HIDE DEF longer
      <4>1. ReferenceNode(longer)[h + 1][k] = concat_hash(ReferenceNode(longer)[h][2 * k], ReferenceNode(longer)[h][2 * k + 1])
        BY <2>1, NodeDef
      <4>. QED
        BY <4>1 DEF longer
    <3>. HIDE DEF old, new
    <3>. QED
      BY <3>3, <3>4, <3>5
  <2>. QED
    BY <2>2, HeightAssumption
<1>. HIDE DEF S
<1>4. \A h \in 0..Height : h \in S
  BY <1>2, <1>3, UpTo, HeightAssumption
<1>. QED
  BY <1>4 DEF S

\* What is to the right of the path to the next leaf is empty.
LEMMA RestIsPristine ==
  ASSUME NEW s \in Seq(Data)
  PROVE  \A h \in Level, k \in Nat :
           k > shifted(Len(s))[h] => ReferenceNode(s)[h][k] = pristine_hash[h]
<1>. DEFINE c == Len(s)
            node == ReferenceNode(s)
            S == {h \in Level : \A k \in Nat : k > shifted(c)[h] => node[h][k] = pristine_hash[h]}
<1>1. c \in Nat /\ 0 \in Level
  BY HeightAssumption DEF Level
<1>2. 0 \in S
  <2>1. \A k \in Nat : k > c => ReferenceLeaf(s, k) = ZeroHash
    BY DEF ReferenceLeaf
  <2>2. pristine_hash[0] = ZeroHash
    BY <1>1, PristineDef
  <2>3. shifted(c)[0] = c
    BY <1>1, ShiftedFacts
  <2>4. ASSUME NEW k \in Nat PROVE node[0][k] = ReferenceLeaf(s, k)
    BY HeightAssumption, NodeDef
  <2>5. \A k \in Nat : k > shifted(c)[0] => node[0][k] = pristine_hash[0]
    BY <2>1, <2>2, <2>3, <2>4
  <2>. QED
    BY <1>1, <2>5
<1>3. ASSUME NEW h \in 0..(Height - 1 - 1), h \in S PROVE h + 1 \in S
  <2>1. h \in Level /\ h + 1 \in Level /\ h + 1 # 0 /\ h + 1 - 1 = h
    BY HeightAssumption DEF Level
  <2>2. pristine_hash[h + 1] = concat_hash(pristine_hash[h], pristine_hash[h])
    BY <2>1, PristineDef
  <2>3. ASSUME NEW k \in Nat, k > shifted(c)[h + 1] PROVE node[h + 1][k] = pristine_hash[h + 1]
    <3>1. shifted(c)[h + 1] = shifted(c)[h] \div 2 /\ shifted(c)[h] \in Nat
      BY <1>1, <2>1, ShiftedFacts, HeightAssumption DEF Level
    <3>2. 2 * k > shifted(c)[h] /\ 2 * k + 1 > shifted(c)[h]
      BY <2>3, <3>1
    <3>3. node[h][2 * k] = pristine_hash[h] /\ node[h][2 * k + 1] = pristine_hash[h]
      BY <1>3, <3>2
    <3>4. h + 1 \in 0..Height
      BY <2>1, HeightAssumption DEF Level
    <3>5. node[h + 1][k] = concat_hash(node[h][2 * k], node[h][2 * k + 1])
      BY <2>1, <3>4, NodeDef
    <3>. QED
      BY <2>2, <3>3, <3>5
  <2>. QED
    BY <2>1, <2>3
<1>. HIDE DEF S
<1>4. Height - 1 \in Nat
  BY HeightAssumption
<1>5. \A h \in 0..(Height - 1) : h \in S
  BY <1>2, <1>3, <1>4, UpTo
<1>. QED
  BY <1>5 DEF S, Level

-----------------------------------------------------------------------------
(* A tree holds some leaves.                                               *)

Holds(t, s) ==
  /\ t.leaf_count = Len(s)
  /\ \A i \in Level : HasSubtree(t, i) =>
       t.state[i] = ReferenceNode(s)[i][shifted(Len(s))[i] - 1]

\* The root: at each level it is the node on the path to the next leaf.
LEMMA RootedIsNode ==
  ASSUME NEW t, NEW s \in Seq(Data), Holds(t, s)
  PROVE  \A i \in 0..Height : rooted(t)[i] = ReferenceNode(s)[i][shifted(Len(s))[i]]
<1>. DEFINE c == Len(s)
            q == shifted(c)
            node == ReferenceNode(s)
            S == {i \in 0..Height : rooted(t)[i] = node[i][q[i]]}
<1>1. c \in Nat /\ t.leaf_count = c
  BY DEF Holds
<1>2. 0 \in S
  <2>1. node[0][c] = ZeroHash
    BY <1>1, NodeDef DEF ReferenceLeaf
  <2>2. rooted(t)[0] = ZeroHash
    BY RootedDef, HeightAssumption
  <2>. QED
    BY <1>1, <2>1, <2>2, ShiftedFacts, HeightAssumption
<1>3. ASSUME NEW i \in 0..(Height - 1), i \in S PROVE i + 1 \in S
  <2>1. i \in Level /\ i + 1 \in 0..Height /\ i + 1 # 0 /\ i + 1 - 1 = i
    BY HeightAssumption DEF Level
  <2>2. rooted(t)[i + 1] = IF HasSubtree(t, i) THEN concat_hash(t.state[i], rooted(t)[i])
                           ELSE concat_hash(rooted(t)[i], pristine_hash[i])
    BY <2>1, RootedDef
  <2>3. q[i + 1] = q[i] \div 2 /\ q[i] \in Nat /\ q[i + 1] \in Nat
    BY <1>1, <2>1, ShiftedFacts, HeightAssumption DEF Level
  <2>4. node[i + 1][q[i + 1]] = concat_hash(node[i][2 * q[i + 1]], node[i][2 * q[i + 1] + 1])
    BY <2>1, <2>3, NodeDef
  <2>5. CASE HasSubtree(t, i)
    <3>1. q[i] % 2 = 1
      BY <1>1, <2>5 DEF HasSubtree
    <3>2. 2 * q[i + 1] = q[i] - 1 /\ 2 * q[i + 1] + 1 = q[i]
      <4>1. ASSUME NEW n \in Nat, n % 2 = 1 PROVE 2 * (n \div 2) = n - 1 /\ 2 * (n \div 2) + 1 = n
        BY <4>1
      <4>. HIDE DEF q
      <4>. QED
        BY <2>3, <3>1, <4>1
    <3>3. t.state[i] = node[i][q[i] - 1]
      BY <2>1, <2>5 DEF Holds
    <3>4. rooted(t)[i + 1] = node[i + 1][q[i + 1]]
      BY <1>3, <2>2, <2>4, <2>5, <3>2, <3>3
    <3>. QED
      BY <2>1, <3>4
  <2>6. CASE ~HasSubtree(t, i)
    <3>1. q[i] % 2 # 1
      BY <1>1, <2>6 DEF HasSubtree
    <3>2. 2 * q[i + 1] = q[i] /\ 2 * q[i + 1] + 1 > q[i]
      BY <2>3, <3>1
    <3>3. node[i][2 * q[i + 1] + 1] = pristine_hash[i]
      BY <2>1, <2>3, <3>2, RestIsPristine
    <3>4. rooted(t)[i + 1] = node[i + 1][q[i + 1]]
      BY <1>3, <2>2, <2>4, <2>6, <3>2, <3>3
    <3>. QED
      BY <2>1, <3>4
  <2>. QED
    BY <2>5, <2>6
<1>. HIDE DEF S
<1>4. \A i \in 0..Height : i \in S
  BY <1>2, <1>3, UpTo, HeightAssumption
<1>. QED
  BY <1>4 DEF S
-----------------------------------------------------------------------------
(* Adding a leaf.                                                          *)

\* Where the carry loop ends.
LEMMA FirstEmptyFacts ==
  ASSUME NEW t
  PROVE  /\ FirstEmpty(t) \in 0..Height
         /\ \A j \in Level : j < FirstEmpty(t) => HasSubtree(t, j)
         /\ FirstEmpty(t) < Height => ~HasSubtree(t, FirstEmpty(t))
<1>. DEFINE Ends == {i \in 0..Height : i = Height \/ ~HasSubtree(t, i)}
<1>1. Height \in Ends /\ Ends \in SUBSET Nat
  BY HeightAssumption
<1>2. PICK m \in Ends : \A k \in Ends : m <= k
  <2>. HIDE DEF Ends
  <2>. QED
    BY <1>1, LeastElement
<1>3. /\ m \in 0..Height
      /\ \A j \in 0..(m - 1) : HasSubtree(t, j)
      /\ m < Height => ~HasSubtree(t, m)
  <2>1. ASSUME NEW j \in 0..(m - 1) PROVE HasSubtree(t, j)
    <3>1. j \in 0..Height /\ j # Height /\ j \notin Ends
      BY <1>2, HeightAssumption
    <3>. QED
      BY <3>1
  <2>. QED
    BY <1>2, <2>1, HeightAssumption
<1>. HIDE DEF Ends
<1>4. /\ FirstEmpty(t) \in 0..Height
      /\ \A j \in 0..(FirstEmpty(t) - 1) : HasSubtree(t, j)
      /\ FirstEmpty(t) < Height => ~HasSubtree(t, FirstEmpty(t))
  BY <1>3 DEF FirstEmpty
<1>. QED
  BY <1>4, HeightAssumption DEF Level

\* Counting one more: the low ones carry, and the rest stays.
LEMMA CountCarries ==
  ASSUME NEW t, NEW c \in Nat, t.leaf_count = c
  PROVE  \A j \in 0..Height : shifted(c + 1)[j] = IF j <= FirstEmpty(t) THEN shifted(c)[j] + 1
                                                  ELSE shifted(c)[j]
<1>. DEFINE e == FirstEmpty(t)
            q == shifted(c)
            p == shifted(c + 1)
            S == {j \in 0..Height : p[j] = IF j <= e THEN q[j] + 1 ELSE q[j]}
<1>1. /\ e \in 0..Height
      /\ \A j \in Level : j < e => q[j] % 2 = 1
      /\ e < Height => q[e] % 2 # 1
  BY FirstEmptyFacts DEF HasSubtree
<1>2. /\ q[0] = c
      /\ \A n \in Level : q[n + 1] = q[n] \div 2
      /\ \A n \in 0..Height : q[n] \in Nat
  BY ShiftedFacts
<1>3. p[0] = c + 1 /\ \A n \in Level : p[n + 1] = p[n] \div 2
  <2>. DEFINE n == c + 1
  <2>1. n \in Nat
    OBVIOUS
  <2>. HIDE DEF n
  <2>2. shifted(n)[0] = n /\ \A i \in Level : shifted(n)[i + 1] = shifted(n)[i] \div 2
    BY <2>1, ShiftedFacts
  <2>. QED
    BY <2>2 DEF n
<1>. HIDE DEF e, q, p
<1>4. 0 \in S
  BY <1>1, <1>2, <1>3, HeightAssumption
<1>5. ASSUME NEW j \in 0..(Height - 1), j \in S PROVE j + 1 \in S
  <2>1. j \in Level /\ j + 1 \in 0..Height /\ q[j] \in Nat /\ j < Height
    BY <1>2, HeightAssumption DEF Level
  <2>2. q[j + 1] = q[j] \div 2 /\ p[j + 1] = p[j] \div 2
    BY <1>2, <1>3, <2>1
  <2>3. CASE j < e
    <3>1. q[j] % 2 = 1 /\ p[j] = q[j] + 1
      BY <1>1, <1>5, <2>1, <2>3
    <3>2. p[j + 1] = q[j + 1] + 1
      BY <2>1, <2>2, <3>1
    <3>. QED
      BY <1>1, <2>1, <2>3, <3>2
  <2>4. CASE j = e
    <3>1. q[j] % 2 # 1 /\ p[j] = q[j] + 1
      BY <1>1, <1>5, <2>1, <2>4
    <3>2. p[j + 1] = q[j + 1]
      BY <2>1, <2>2, <3>1
    <3>. QED
      BY <1>1, <2>1, <2>4, <3>2
  <2>5. CASE j > e
    <3>1. p[j] = q[j]
      BY <1>1, <1>5, <2>1, <2>5
    <3>. QED
      BY <1>1, <2>1, <2>2, <2>5, <3>1
  <2>. QED
    BY <1>1, <2>1, <2>3, <2>4, <2>5
<1>. HIDE DEF S
<1>6. \A j \in 0..Height : j \in S
  BY <1>4, <1>5, UpTo, HeightAssumption
<1>. QED
  BY <1>6 DEF S, e, p, q

\* The hash the loop carries is the node that the new leaf completes.
LEMMA CarriedIsNode ==
  ASSUME NEW t, NEW s \in Seq(Data), NEW d \in Data, Holds(t, s)
  PROVE  \A i \in 0..Height : i <= FirstEmpty(t) =>
           carried(t, keccak(d))[i] = ReferenceNode(Append(s, d))[i][shifted(Len(s))[i]]
<1>. DEFINE c == Len(s)
            e == FirstEmpty(t)
            q == shifted(c)
            hash == keccak(d)
            right == carried(t, hash)
            longer == Append(s, d)
            new == ReferenceNode(longer)
            S == {i \in 0..Height : i <= e => right[i] = new[i][q[i]]}
<1>1. c \in Nat /\ t.leaf_count = c
  BY DEF Holds
<1>2. /\ \A k \in Nat : new[0][k] = ReferenceLeaf(longer, k)
      /\ \A h \in Level, k \in Nat : new[h + 1][k] = concat_hash(new[h][2 * k], new[h][2 * k + 1])
  <2>. HIDE DEF longer
  <2>. QED
    BY NodeDef
<1>3. \A n \in 0..Height :
        right[n] = IF n = 0 THEN hash ELSE concat_hash(t.state[n - 1], right[n - 1])
  BY CarriedDef
<1>4. \A h \in 0..Height, k \in Nat : k < q[h] => new[h][k] = ReferenceNode(s)[h][k]
  BY CompleteSubtreesStay
<1>5. ReferenceLeaf(longer, c) = hash
  BY <1>1, AppendProperties DEF ReferenceLeaf
<1>6. /\ e \in 0..Height
      /\ \A j \in Level : j < e => HasSubtree(t, j) /\ q[j] % 2 = 1
  BY <1>1, FirstEmptyFacts DEF HasSubtree
<1>7. /\ q[0] = c
      /\ \A n \in Level : q[n + 1] = q[n] \div 2
      /\ \A n \in 0..Height : q[n] \in Nat
  BY <1>1, ShiftedFacts
<1>8. \A i \in Level : HasSubtree(t, i) => t.state[i] = ReferenceNode(s)[i][q[i] - 1]
  BY DEF Holds
<1>. HIDE DEF c, e, q, hash, right, longer, new
<1>9. 0 \in S
  BY <1>1, <1>2, <1>3, <1>5, <1>7, HeightAssumption
<1>10. ASSUME NEW i \in 0..(Height - 1), i \in S PROVE i + 1 \in S
  <2>. SUFFICES ASSUME i + 1 <= e PROVE right[i + 1] = new[i + 1][q[i + 1]]
    BY HeightAssumption
  <2>1. i \in Level /\ i + 1 \in 0..Height /\ i + 1 # 0 /\ i + 1 - 1 = i /\ i < e /\ i <= e
    BY <1>6, HeightAssumption DEF Level
  <2>2. right[i + 1] = concat_hash(t.state[i], right[i])
    BY <1>3, <2>1
  <2>3. q[i] \in Nat /\ q[i] % 2 = 1 /\ q[i + 1] = q[i] \div 2
    BY <1>6, <1>7, <2>1, HeightAssumption DEF Level
  <2>4. 2 * q[i + 1] = q[i] - 1 /\ 2 * q[i + 1] + 1 = q[i] /\ q[i] - 1 \in Nat /\ q[i + 1] \in Nat
    BY <2>3, OddHalf
  <2>5. new[i + 1][q[i + 1]] = concat_hash(new[i][q[i] - 1], new[i][q[i]])
    BY <1>2, <2>1, <2>4
  <2>6. t.state[i] = new[i][q[i] - 1]
    <3>1. new[i][q[i] - 1] = ReferenceNode(s)[i][q[i] - 1]
      <4>1. i \in 0..Height /\ q[i] - 1 \in Nat /\ q[i] - 1 < q[i]
        BY <2>1, <2>3, OddHalf, HeightAssumption DEF Level
      <4>. QED
        BY <1>4, <4>1
    <3>. QED
      BY <1>6, <1>8, <2>1, <3>1
  <2>7. right[i] = new[i][q[i]]
    BY <1>10, <2>1
  <2>. QED
    BY <2>2, <2>5, <2>6, <2>7
<1>. HIDE DEF S
<1>11. \A i \in 0..Height : i \in S
  BY <1>9, <1>10, UpTo, HeightAssumption
<1>. QED
  BY <1>11 DEF S, c, e, q, hash, right, longer, new

\* A tree that holds some leaves holds one more when it is pushed.
LEMMA PushKeeps ==
  ASSUME NEW t, NEW s \in Seq(Data), NEW d \in Data, Holds(t, s)
  PROVE  Holds(push_back(t, keccak(d)), Append(s, d))
<1>. DEFINE c == Len(s)
            e == FirstEmpty(t)
            q == shifted(c)
            p == shifted(c + 1)
            u == push_back(t, keccak(d))
            new == ReferenceNode(Append(s, d))
<1>1. c \in Nat /\ t.leaf_count = c /\ Len(Append(s, d)) = c + 1
  BY DEF Holds
<1>2. u.leaf_count = Len(Append(s, d))
  BY <1>1 DEF push_back
<1>3. ASSUME NEW i \in Level, HasSubtree(u, i)
      PROVE  u.state[i] = new[i][p[i] - 1]
  <2>1. i \in 0..Height /\ i < Height
    BY HeightAssumption DEF Level
  <2>2. p[i] % 2 = 1
    BY <1>1, <1>2, <1>3 DEF HasSubtree
  <2>3. p[i] = IF i <= e THEN q[i] + 1 ELSE q[i]
    BY <1>1, <2>1, CountCarries
  <2>4. q[i] \in Nat
    BY <1>1, <2>1, ShiftedFacts
  <2>5. e \in 0..Height
    BY FirstEmptyFacts
  <2>6. u.state[i] = IF i = e THEN carried(t, keccak(d))[i] ELSE t.state[i]
    BY DEF push_back
  <2>7. ~(i < e)
    <3>. SUFFICES ASSUME i < e PROVE FALSE
      OBVIOUS
    <3>1. q[i] % 2 = 1
      BY <1>1, FirstEmptyFacts DEF HasSubtree
    <3>2. p[i] = q[i] + 1
      BY <2>1, <2>3, <2>5
    <3>. HIDE DEF p, q, e
    <3>. QED
      BY <2>2, <2>4, <3>1, <3>2
  <2>8. CASE i = e
    <3>1. carried(t, keccak(d))[i] = new[i][q[i]]
      BY <2>1, <2>8, CarriedIsNode
    <3>2. p[i] - 1 = q[i]
      BY <2>1, <2>3, <2>4, <2>8
    <3>. QED
      BY <2>6, <2>8, <3>1, <3>2
  <2>9. CASE i > e
    <3>1. p[i] = q[i] /\ i # e
      BY <2>1, <2>3, <2>5, <2>9
    <3>2. HasSubtree(t, i)
      BY <1>1, <2>2, <3>1 DEF HasSubtree
    <3>3. t.state[i] = ReferenceNode(s)[i][q[i] - 1]
      BY <3>2 DEF Holds
    <3>4. q[i] - 1 \in Nat /\ q[i] - 1 < q[i]
      <4>1. q[i] % 2 = 1
        BY <2>2, <3>1
      <4>. HIDE DEF q
      <4>. QED
        BY <2>4, <4>1
    <3>5. new[i][q[i] - 1] = ReferenceNode(s)[i][q[i] - 1]
      BY <2>1, <3>4, CompleteSubtreesStay
    <3>. QED
      BY <2>6, <3>1, <3>3, <3>5
  <2>. QED
    BY <2>1, <2>5, <2>7, <2>8, <2>9
<1>. QED
  BY <1>1, <1>2, <1>3 DEF Holds

-----------------------------------------------------------------------------
(* The inductive invariant.                                                *)

MerkleInv ==
  /\ TypeOK
  /\ file.image.leaf_count \in 0..MaxCount
  /\ trusted => Holds(tree, leaves)
  /\ file.fields = FullImage => Holds(file.image, saved)

\* No bit of zero is set.
LEMMA EmptyShifts == \A i \in 0..Height : shifted(0)[i] = 0
<1>. DEFINE S == {n \in 0..Height : shifted(0)[n] = 0}
<1>1. 0 \in S
  BY ShiftedFacts, HeightAssumption
<1>2. \A n \in 0..(Height - 1) : n \in S => n + 1 \in S
  BY ShiftedFacts, HeightAssumption DEF Level
<1>. HIDE DEF S
<1>3. \A n \in 0..Height : n \in S
  BY <1>1, <1>2, UpTo, HeightAssumption
<1>. QED
  BY <1>3 DEF S

LEMMA EmptyHolds == Holds(EmptyTree, <<>>)
  BY EmptyShifts, HeightAssumption DEF Holds, EmptyTree, HasSubtree, Level

LEMMA MerkleInvInit == Init => MerkleInv
<1>. SUFFICES ASSUME Init PROVE MerkleInv
  OBVIOUS
<1>1. MaxCount \in Nat
  BY PowerFacts, HeightAssumption DEF MaxCount
<1>2. TypeOK
  BY <1>1, HeightAssumption DEF Init, TypeOK, EmptyTree, NoFile, FullImage
<1>3. file.image.leaf_count \in 0..MaxCount
  BY <1>1 DEF Init, NoFile, EmptyTree
<1>4. file.fields # FullImage
  BY HeightAssumption DEF Init, NoFile, FullImage
<1>5. Holds(tree, leaves)
  BY EmptyHolds DEF Init
<1>. QED
  BY <1>2, <1>3, <1>4, <1>5 DEF MerkleInv

LEMMA MerkleInvNext == MerkleInv /\ [Next]_vars => MerkleInv'
<1>. SUFFICES ASSUME MerkleInv, [Next]_vars PROVE MerkleInv'
  OBVIOUS
<1>1. MaxCount \in Nat /\ FullImage \in Nat /\ FullImage = Height + 1
  BY PowerFacts, HeightAssumption DEF MaxCount, FullImage
<1>2. CASE cmt_merkle_reset
  <2>1. tree' = EmptyTree /\ leaves' = <<>> /\ trusted' = TRUE /\ file' = file /\ saved' = saved
    BY <1>2 DEF cmt_merkle_reset
  <2>2. TypeOK'
    BY <1>1, <2>1 DEF MerkleInv, TypeOK, EmptyTree
  <2>3. Holds(tree', leaves')
    BY <2>1, EmptyHolds
  <2>4. file'.image.leaf_count \in 0..MaxCount
        /\ (file'.fields = FullImage => Holds(file'.image, saved'))
    BY <2>1 DEF MerkleInv
  <2>. QED
    BY <2>2, <2>3, <2>4 DEF MerkleInv
<1>3. ASSUME NEW d \in Data, cmt_merkle_push_back_data(d) PROVE MerkleInv'
  <2>1. /\ trusted /\ trusted' = trusted /\ file' = file /\ saved' = saved
        /\ tree' = push_back(tree, keccak(d)) /\ leaves' = Append(leaves, d)
        /\ tree.leaf_count # MaxCount
    BY <1>3 DEF cmt_merkle_push_back_data
  <2>2. tree'.leaf_count = tree.leaf_count + 1 /\ DOMAIN tree'.state = Level
    BY <2>1 DEF push_back
  <2>3. TypeOK'
    BY <1>1, <2>1, <2>2 DEF MerkleInv, TypeOK
  <2>4. Holds(tree', leaves')
    BY <2>1, PushKeeps DEF MerkleInv, TypeOK
  <2>5. file'.image.leaf_count \in 0..MaxCount
        /\ (file'.fields = FullImage => Holds(file'.image, saved'))
    BY <2>1 DEF MerkleInv
  <2>. QED
    BY <2>3, <2>4, <2>5 DEF MerkleInv
<1>4. CASE cmt_merkle_save
  <2>1. /\ trusted /\ trusted' = trusted /\ tree' = tree /\ leaves' = leaves /\ saved' = leaves
        /\ file'.fields = FullImage /\ file'.image = tree
    BY <1>4 DEF cmt_merkle_save
  <2>2. TypeOK'
    BY <1>1, <2>1 DEF MerkleInv, TypeOK
  <2>. QED
    BY <2>1, <2>2 DEF MerkleInv, TypeOK
<1>5. ASSUME NEW n \in ShortWrites, cmt_merkle_save_fails(n) PROVE MerkleInv'
  <2>1. /\ trusted' = trusted /\ tree' = tree /\ leaves' = leaves /\ saved' = saved
        /\ file'.fields = n /\ file'.image = tree
    BY <1>5 DEF cmt_merkle_save_fails
  <2>2. n \in 0..FullImage /\ n # FullImage
    BY <1>1, HeightAssumption, ShortWritesAssumption
  <2>3. TypeOK'
    BY <1>1, <2>1, <2>2 DEF MerkleInv, TypeOK
  <2>. QED
    BY <2>1, <2>2, <2>3 DEF MerkleInv, TypeOK
<1>6. CASE cmt_merkle_load
  <2>1. /\ tree' = Overlay(tree, file) /\ trusted' = (load_rc(file) = "OK")
        /\ leaves' = IF trusted' THEN saved ELSE leaves
        /\ file' = file /\ saved' = saved
    BY <1>6 DEF cmt_merkle_load
  <2>2. tree'.leaf_count = (IF file.fields > 0 THEN file.image.leaf_count ELSE tree.leaf_count)
        /\ DOMAIN tree'.state = Level
    BY <2>1 DEF Overlay
  <2>3. trusted' \in BOOLEAN /\ leaves' \in Seq(Data)
    BY <2>1 DEF MerkleInv, TypeOK
  <2>4. TypeOK'
    BY <2>1, <2>2, <2>3 DEF MerkleInv, TypeOK
  <2>5. ASSUME trusted' PROVE Holds(tree', leaves')
    <3>1. file.fields = FullImage
      BY <2>1, <2>5 DEF load_rc
    <3>2. Holds(file.image, saved) /\ leaves' = saved
      BY <2>1, <2>5, <3>1 DEF MerkleInv
    <3>3. tree'.leaf_count = file.image.leaf_count
      BY <1>1, <2>2, <3>1, HeightAssumption
    <3>4. \A i \in Level : i + 1 < file.fields
      BY <1>1, <3>1, HeightAssumption DEF Level
    <3>5. \A i \in Level : tree'.state[i] = file.image.state[i]
      BY <2>1, <3>4 DEF Overlay
    <3>. QED
      BY <3>2, <3>3, <3>5 DEF Holds, HasSubtree
  <2>6. file'.image.leaf_count \in 0..MaxCount
        /\ (file'.fields = FullImage => Holds(file'.image, saved'))
    BY <2>1 DEF MerkleInv
  <2>. QED
    BY <2>4, <2>5, <2>6 DEF MerkleInv
<1>7. CASE UNCHANGED vars
  BY <1>7 DEF MerkleInv, TypeOK, vars
<1>. QED
  BY <1>2, <1>3, <1>4, <1>5, <1>6, <1>7 DEF Next

-----------------------------------------------------------------------------
(* The theorems.                                                           *)

\* The counter stays within the tree, and what is read and written is a tree,
\* for every height (leaf_count of cmt_merkle_t).
THEOREM MerkleTypeCorrect == Spec => []TypeOK
<1>1. MerkleInv => TypeOK
  BY DEF MerkleInv
<1>. QED
  BY <1>1, MerkleInvInit, MerkleInvNext, PTL DEF Spec

\* For every height and every history of pushes, resets, saves that work or
\* fail, and loads, each slot in use holds the complete subtree of the leaves
\* that ends where the larger ones leave off (cmt_merkle_push_back).
THEOREM SlotsCorrect == Spec => []SlotsHoldSubtrees
<1>1. MerkleInv => SlotsHoldSubtrees
  BY DEF MerkleInv, SlotsHoldSubtrees, Holds
<1>. QED
  BY <1>1, MerkleInvInit, MerkleInvNext, PTL DEF Spec

\* For every height, the root the library computes from the counter and the
\* slots is the root of the whole padded tree, unless the tree is full
\* (cmt_merkle_get_root_hash).
THEOREM RootCorrect == Spec => []RootIsReference
<1>1. MerkleInv => RootIsReference
  <2>. SUFFICES ASSUME MerkleInv, trusted, tree.leaf_count < MaxCount
                PROVE  get_root_hash(tree) = ReferenceRoot(leaves)
    BY DEF RootIsReference
  <2>1. Holds(tree, leaves) /\ leaves \in Seq(Data) /\ tree.leaf_count = Len(leaves)
    BY DEF MerkleInv, TypeOK, Holds
  <2>2. rooted(tree)[Height] = ReferenceNode(leaves)[Height][shifted(Len(leaves))[Height]]
    BY <2>1, RootedIsNode, HeightAssumption
  <2>3. Len(leaves) \in Nat /\ Len(leaves) < MaxCount
    BY <2>1
  <2>4. shifted(Len(leaves))[Height] = 0
    BY <2>3, CountShiftsOut
  <2>. QED
    BY <2>2, <2>4 DEF get_root_hash, ReferenceRoot
<1>. QED
  BY <1>1, MerkleInvInit, MerkleInvNext, PTL DEF Spec

\* For every height, a full tree has the root of an empty one, whatever its
\* leaves: the bit that push_back counts past the last level is not looked at
\* (cmt_merkle_get_root_hash; test_cmt_merkle_full pushes to one and asks for no
\* root).
THEOREM FullTreeLooksEmpty ==
  ASSUME NEW t, t.leaf_count = MaxCount
  PROVE  get_root_hash(t) = get_root_hash(EmptyTree)
<1>1. \A i \in 0..Height : shifted(MaxCount)[i] = power_of_two[Height - i]
  <2>. DEFINE S == {i \in 0..Height : shifted(MaxCount)[i] = power_of_two[Height - i]}
  <2>1. MaxCount \in Nat
    BY PowerFacts, HeightAssumption DEF MaxCount
  <2>2. 0 \in S
    BY <2>1, ShiftedFacts, HeightAssumption DEF MaxCount
  <2>3. ASSUME NEW i \in 0..(Height - 1), i \in S PROVE i + 1 \in S
    <3>1. i \in Level /\ Height - (i + 1) \in Level /\ Height - (i + 1) + 1 = Height - i
      BY HeightAssumption DEF Level
    <3>2. power_of_two[Height - i] = 2 * power_of_two[Height - (i + 1)]
          /\ power_of_two[Height - (i + 1)] \in Nat
      BY <3>1, PowerFacts, HeightAssumption DEF Level
    <3>3. shifted(MaxCount)[i + 1] = shifted(MaxCount)[i] \div 2
      BY <2>1, <3>1, ShiftedFacts
    <3>4. shifted(MaxCount)[i + 1] = power_of_two[Height - (i + 1)]
      BY <2>3, <3>2, <3>3
    <3>. QED
      BY <3>4, HeightAssumption
  <2>. HIDE DEF S
  <2>4. \A i \in 0..Height : i \in S
    BY <2>2, <2>3, UpTo, HeightAssumption
  <2>. QED
    BY <2>4 DEF S
<1>2. ASSUME NEW i \in Level PROVE ~HasSubtree(t, i) /\ ~HasSubtree(EmptyTree, i)
  <2>1. i \in 0..Height /\ Height - (i + 1) \in Level /\ Height - (i + 1) + 1 = Height - i
    BY HeightAssumption DEF Level
  <2>2. power_of_two[Height - i] = 2 * power_of_two[Height - (i + 1)]
        /\ power_of_two[Height - (i + 1)] \in Nat
    BY <2>1, PowerFacts, HeightAssumption DEF Level
  <2>3. power_of_two[Height - i] % 2 # 1
    BY <2>2
  <2>4. ~HasSubtree(t, i)
    BY <1>1, <2>1, <2>3 DEF HasSubtree
  <2>. QED
    BY <2>1, <2>4, EmptyShifts DEF HasSubtree, EmptyTree
<1>. DEFINE S == {i \in 0..Height : rooted(t)[i] = rooted(EmptyTree)[i]}
<1>3. 0 \in S
  BY RootedDef, HeightAssumption
<1>4. ASSUME NEW i \in 0..(Height - 1), i \in S PROVE i + 1 \in S
  <2>1. i \in Level /\ i + 1 \in 0..Height /\ i + 1 # 0 /\ i + 1 - 1 = i
    BY HeightAssumption DEF Level
  <2>2. rooted(t)[i + 1] = concat_hash(rooted(t)[i], pristine_hash[i])
    BY <1>2, <2>1, RootedDef
  <2>3. rooted(EmptyTree)[i + 1] = concat_hash(rooted(EmptyTree)[i], pristine_hash[i])
    BY <1>2, <2>1, RootedDef
  <2>. QED
    BY <1>4, <2>1, <2>2, <2>3
<1>. HIDE DEF S
<1>5. Height \in S
  BY <1>3, <1>4, UpTo, HeightAssumption
<1>. QED
  BY <1>5 DEF S, get_root_hash
=============================================================================
