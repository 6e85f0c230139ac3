---------------------------- MODULE RangesProofs ----------------------------
(***************************************************************************)
(* Proofs about Ranges for every width of the hash (128 in the code), any  *)
(* number of keys and any history of splits and merges.                    *)
(***************************************************************************)
EXTENDS Ranges, FiniteSetTheorems, WellFoundedInduction, TLAPS

-----------------------------------------------------------------------------
(* Numbers. *)

\* A non-empty set of numbers has a least one.
LEMMA LeastNat ==
  ASSUME NEW S, S \subseteq Nat, S # {}
  PROVE  \E x \in S : \A y \in S : x <= y
<1> DEFINE R == OpToRel(<, Nat)
<1>1. PICK x \in S : \A y \in S : <<y, x>> \notin R BY NatLessThanWellFounded, WFMin, Zenon
<1>2. \A y \in S : ~(y < x) BY <1>1, Zenon DEF OpToRel
<1> QED BY <1>2

\* A non-empty bounded set of numbers has a greatest one.
LEMMA GreatestNat ==
  ASSUME NEW S, S \subseteq Nat, S # {}, NEW b \in Nat, \A x \in S : x <= b
  PROVE  \E x \in S : \A y \in S : y <= x
<1> DEFINE Gaps == {b - x : x \in S}
<1>1. Gaps \subseteq Nat /\ Gaps # {}
  <2>1. PICK x \in S : TRUE BY Zenon
  <2>2. b - x \in Gaps BY <2>1, Zenon
  <2> QED BY <2>2
<1>2. PICK g \in Gaps : \A h \in Gaps : g <= h
  <2> HIDE DEF Gaps
  <2> QED BY <1>1, LeastNat, Zenon
<1>3. PICK x \in S : g = b - x BY <1>2, Zenon
<1>4. ASSUME NEW y \in S PROVE y <= x
  <2>1. b - y \in Gaps BY Zenon
  <2>2. b - x <= b - y BY <1>2, <1>3, <2>1, Zenon
  <2> QED BY <2>2
<1> QED BY <1>4, Zenon

\* p lists the powers 1, 2, 4, ... up to the n-th.
Powers(n, p) == p = [k \in 0..n |-> IF k = 0 THEN 1 ELSE 2 * p[k - 1]]

LEMMA PowersExist ==
  ASSUME NEW n \in Nat
  PROVE  \E p : Powers(n, p)
<1> DEFINE Bad == {m \in Nat : ~\E p : Powers(m, p)}
<1> SUFFICES ASSUME Bad # {} PROVE FALSE
  BY Zenon
<1>1. PICK x \in Bad : \A y \in Bad : x <= y BY LeastNat, Zenon
<1>2. CASE x = 0
  <2>1. Powers(0, [k \in 0..0 |-> 1]) BY DEF Powers
  <2> QED BY <1>1, <1>2, <2>1, Zenon
<1>3. CASE x # 0
  <2>1. x - 1 \in Nat /\ x - 1 \notin Bad BY <1>1, <1>3
  <2>2. PICK p : Powers(x - 1, p) BY <2>1, Zenon
  <2> DEFINE q == [k \in 0..x |-> IF k = x THEN 2 * p[x - 1] ELSE p[k]]
  <2>3. \A k \in 0..(x - 1) : q[k] = p[k] BY <2>1
  <2>4. \A k \in 0..(x - 1) : p[k] = IF k = 0 THEN 1 ELSE 2 * p[k - 1] BY <2>2, Zenon DEF Powers
  <2>5. ASSUME NEW k \in 0..x PROVE q[k] = IF k = 0 THEN 1 ELSE 2 * q[k - 1]
    <3>1. CASE k = x
      <4>1. q[k] = 2 * p[x - 1] /\ k # 0 BY <1>3, <3>1, Zenon
      <4>2. q[k - 1] = p[x - 1] BY <2>1, <2>3, <3>1
      <4> QED BY <4>1, <4>2, Zenon
    <3>2. CASE k # x
      <4>1. k \in 0..(x - 1) BY <3>2
      <4>2. k # 0 => q[k - 1] = p[k - 1] BY <2>3, <4>1
      <4> QED BY <2>3, <2>4, <4>1, <4>2, Zenon
    <3> QED BY <3>1, <3>2, Zenon
  <2>6. q = [k \in 0..x |-> q[k]] BY Zenon
  <2> HIDE DEF q
  <2>7. Powers(x, q) BY <2>5, <2>6, Zenon DEF Powers
  <2> QED BY <1>1, <2>7, Zenon
<1> QED BY <1>2, <1>3, Zenon

\* What Pow2 computes.
LEMMA Pow2Unfolds ==
  /\ W \in Nat
  /\ Pow2[0] = 1
  /\ \A k \in 0..W : k # 0 => Pow2[k] = 2 * Pow2[k - 1]
<1>1. W \in Nat BY RangesAssumption, Zenon
<1> DEFINE c == CHOOSE p : Powers(W, p)
<1>2. Powers(W, c) BY <1>1, PowersExist, Zenon
<1>3. Pow2 = c BY Zenon DEF Pow2, Powers
<1>4. \A k \in 0..W : c[k] = IF k = 0 THEN 1 ELSE 2 * c[k - 1] BY <1>2, Zenon DEF Powers
<1> HIDE DEF c
<1> QED BY <1>1, <1>3, <1>4

\* A power is a positive number.
LEMMA Pow2Positive == \A k \in 0..W : Pow2[k] \in Nat \ {0}
<1> DEFINE Bad == {k \in 0..W : Pow2[k] \notin Nat \ {0}}
<1> SUFFICES ASSUME Bad # {} PROVE FALSE
  BY Zenon
<1>1. Bad \subseteq Nat BY Pow2Unfolds
<1>2. PICK x \in Bad : \A y \in Bad : x <= y
  <2> HIDE DEF Bad
  <2> QED BY <1>1, LeastNat, Zenon
<1>3. x \in 0..W /\ x # 0 BY <1>2, Pow2Unfolds
<1>4. x - 1 \in 0..W /\ x - 1 \notin Bad BY <1>2, <1>3, Pow2Unfolds
<1>5. Pow2[x - 1] \in Nat \ {0} /\ Pow2[x] = 2 * Pow2[x - 1] BY <1>3, <1>4, Pow2Unfolds, Zenon
<1> QED BY <1>2, <1>5

\* A power is the product of smaller ones.
LEMMA Pow2Product ==
  ASSUME NEW a \in 0..W, NEW b \in 0..W, a + b \in 0..W
  PROVE  Pow2[a + b] = Pow2[a] * Pow2[b]
<1> DEFINE Bad == {k \in 0..W : a + k \in 0..W /\ Pow2[a + k] # Pow2[a] * Pow2[k]}
<1> SUFFICES ASSUME Bad # {} PROVE FALSE
  BY Zenon
<1>1. Bad \subseteq Nat BY Pow2Unfolds
<1>2. PICK x \in Bad : \A y \in Bad : x <= y
  <2> HIDE DEF Bad
  <2> QED BY <1>1, LeastNat, Zenon
<1>3. W \in Nat /\ Pow2[a] \in Nat BY Pow2Unfolds, Pow2Positive, Zenon
<1>4. x \in 0..W /\ a + x \in 0..W /\ Pow2[a + x] # Pow2[a] * Pow2[x] BY <1>2, Zenon
<1>5. x # 0
  <2> SUFFICES ASSUME x = 0 PROVE FALSE
    BY Zenon
  <2>1. a + x = a /\ Pow2[x] = 1 BY Pow2Unfolds
  <2> QED BY <1>3, <1>4, <2>1
<1>6. x - 1 \in 0..W /\ a + (x - 1) \in 0..W /\ x - 1 < x BY <1>3, <1>4, <1>5
<1>7. Pow2[a + (x - 1)] = Pow2[a] * Pow2[x - 1] BY <1>2, <1>6
<1>8. Pow2[x] = 2 * Pow2[x - 1] /\ Pow2[x - 1] \in Nat
  BY <1>4, <1>5, <1>6, Pow2Unfolds, Pow2Positive, Zenon
<1>9. Pow2[a + x] = 2 * Pow2[a + (x - 1)]
  <2>1. a + x # 0 /\ (a + x) - 1 = a + (x - 1) BY <1>3, <1>4, <1>5
  <2> QED BY <1>4, <2>1, Pow2Unfolds, Zenon
<1>10. 2 * (Pow2[a] * Pow2[x - 1]) = Pow2[a] * (2 * Pow2[x - 1]) BY <1>3, <1>8
<1> QED BY <1>4, <1>7, <1>8, <1>9, <1>10, Zenon

\* What a division by p has to do with the multiples of p.
LEMMA Division ==
  ASSUME NEW a \in Nat, NEW p \in Nat \ {0}
  PROVE  /\ a \div p \in Nat /\ a % p \in Nat
         /\ \A q \in Nat : a \div p = q <=> q * p <= a /\ a < (q + 1) * p
         /\ a % p = 0 => a = (a \div p) * p
         /\ \A q \in Nat : a = q * p => a % p = 0 /\ a \div p = q
<1>1. a \div p \in Nat /\ a % p \in Nat /\ a % p < p BY SMT
<1>2. a = p * (a \div p) + (a % p) BY SMT
<1>3. \A q \in Nat : a \div p = q <=> q * p <= a /\ a < (q + 1) * p BY SMT
<1>4. a % p = 0 => a = (a \div p) * p BY <1>1, <1>2, SMT
<1>5. ASSUME NEW q \in Nat, a = q * p PROVE a % p = 0 /\ a \div p = q
  <2>1. q * p <= a /\ a < (q + 1) * p BY <1>5, SMT
  <2>2. a \div p = q BY <1>3, <2>1, Zenon
  <2>3. a = p * q + (a % p) BY <1>2, <2>2, Zenon
  <2>4. p * q = q * p /\ q * p \in Nat BY SMT
  <2>5. ASSUME NEW m \in Nat, NEW x \in Nat, x = x + m PROVE m = 0 BY <2>5
  <2>6. a % p = 0 BY <1>1, <1>5, <2>3, <2>4, <2>5, Zenon
  <2> QED BY <2>2, <2>6, Zenon
<1> QED BY <1>1, <1>3, <1>4, <1>5, Zenon

-----------------------------------------------------------------------------
(* Ranges as intervals of points. *)

Lo(r) == IF r.kind = "hash" THEN r.bits ELSE r.start
Hi(r) == IF r.kind = "hash" THEN r.bits + Pow2[W - r.len] ELSE r.end

\* One past the last point.
End(kind) == IF kind = "hash" THEN Pow2[W] ELSE Inf

Kinds == {"hash", "ordered"}

\* HashPrefix::new and OrderedRange::new accept no others.
Prefixes == {r \in [kind : {"hash"}, bits : Nat, len : 0..W] : Canonical(r) /\ r.bits < Pow2[W]}
Intervals == {r \in [kind : {"ordered"}, start : Nat, end : Nat] : r.start < r.end /\ r.end <= Inf}

LEMMA Bounds ==
  /\ W \in Nat /\ MaxKey \in Nat /\ Inf \in Nat \ {0} /\ Pow2[W] \in Nat \ {0}
  /\ \A kind \in Kinds : End(kind) \in Nat \ {0} /\ Space(kind) = {p \in Nat : p < End(kind)}
<1>1. W \in Nat /\ MaxKey \in Nat BY RangesAssumption, Zenon
<1>2. Inf \in Nat \ {0} BY <1>1 DEF Inf
<1>3. Pow2[W] \in Nat \ {0} BY <1>1, Pow2Positive
<1>4. Space("hash") = {p \in Nat : p < Pow2[W]} BY <1>3 DEF Space, Hashes
<1>5. Space("ordered") = {p \in Nat : p < Inf} BY <1>1 DEF Space, Keys, Inf
<1> QED BY <1>1, <1>2, <1>3, <1>4, <1>5, Zenon DEF End, Kinds

\* A prefix starts at a multiple of its size and ends within the space.
LEMMA PrefixAligned ==
  ASSUME NEW r \in Prefixes
  PROVE  /\ r.kind = "hash" /\ r.bits \in Nat /\ r.len \in 0..W /\ W - r.len \in 0..W
         /\ Pow2[W - r.len] \in Nat \ {0}
         /\ \E q \in Nat : r.bits = q * Pow2[W - r.len] /\ r.bits \div Pow2[W - r.len] = q
         /\ r.bits + Pow2[W - r.len] <= Pow2[W]
<1> DEFINE size == Pow2[W - r.len]
<1>1. r.kind = "hash" /\ r.bits \in Nat /\ r.len \in 0..W /\ Canonical(r) /\ r.bits < Pow2[W]
  BY Zenon DEF Prefixes
<1>2. W - r.len \in 0..W /\ W \in Nat BY <1>1, Bounds
<1>3. size \in Nat \ {0} BY <1>2, Pow2Positive, Zenon
<1>4. r.bits % size = 0
  <2>1. CASE r.len = 0
    <3>1. r.bits = 0 BY <1>1, <2>1, Zenon DEF Canonical
    <3>2. 0 = 0 * size BY <1>3
    <3> QED BY <1>3, <3>1, <3>2, Division
  <2>2. CASE r.len # 0 BY <1>1, <2>2, Zenon DEF Canonical
  <2> QED BY <2>1, <2>2, Zenon
<1>5. r.bits = (r.bits \div size) * size /\ r.bits \div size \in Nat
  BY <1>1, <1>3, <1>4, Division, Zenon
<1>6. Pow2[W] = Pow2[r.len] * size /\ Pow2[r.len] \in Nat
  <2>1. W = r.len + (W - r.len) BY <1>1, <1>2
  <2>2. r.len + (W - r.len) \in 0..W BY <1>1, <1>2
  <2>3. Pow2[r.len + (W - r.len)] = Pow2[r.len] * Pow2[W - r.len]
    BY <1>1, <1>2, <2>2, Pow2Product, Zenon
  <2> QED BY <1>1, <2>1, <2>3, Pow2Positive, Zenon
<1> HIDE DEF size
<1>7. r.bits + size <= Pow2[W]
  <2> SUFFICES ASSUME NEW q \in Nat, NEW n \in Nat, q * size < n * size PROVE q * size + size <= n * size
    BY <1>1, <1>5, <1>6, Zenon
  <2>1. q < n BY <1>3, SMT
  <2>2. (q + 1) * size <= n * size BY <1>3, <2>1, SMT
  <2>3. (q + 1) * size = q * size + size BY <1>3, SMT
  <2> QED BY <2>2, <2>3, Zenon
<1> QED BY <1>1, <1>2, <1>3, <1>5, <1>7, Zenon DEF size

Ranges(kind) == IF kind = "hash" THEN Prefixes ELSE Intervals

\* contains_hash and contains_key are membership in a non-empty interval of the space.
LEMMA IntervalOfPoints ==
  ASSUME NEW kind \in Kinds, NEW r \in Ranges(kind)
  PROVE  /\ r.kind = kind /\ Lo(r) \in Nat /\ Hi(r) \in Nat /\ Lo(r) < Hi(r) /\ Hi(r) <= End(kind)
         /\ \A p \in Space(kind) : RangeContains(r, p) <=> Lo(r) <= p /\ p < Hi(r)
         /\ PointsOf(r) = {p \in Nat : Lo(r) <= p /\ p < Hi(r)}
<1>1. /\ r.kind = kind /\ Lo(r) \in Nat /\ Hi(r) \in Nat /\ Lo(r) < Hi(r) /\ Hi(r) <= End(kind)
      /\ \A p \in Space(kind) : RangeContains(r, p) <=> Lo(r) <= p /\ p < Hi(r)
  <2>1. CASE kind = "hash"
    <3> DEFINE size == Pow2[W - r.len]
    <3>1. r \in Prefixes BY <2>1, Zenon DEF Ranges
    <3>2. /\ r.kind = "hash" /\ r.bits \in Nat /\ r.len \in 0..W /\ size \in Nat \ {0}
          /\ r.bits + size <= Pow2[W]
      BY <3>1, PrefixAligned, Zenon
    <3>3. PICK q \in Nat : r.bits = q * size /\ r.bits \div size = q
      BY <3>1, PrefixAligned, Zenon
    <3>4. Lo(r) = r.bits /\ Hi(r) = r.bits + size /\ End(kind) = Pow2[W]
      BY <2>1, <3>2, Zenon DEF Lo, Hi, End
    <3> HIDE DEF size
    <3>5. ASSUME NEW p \in Space(kind) PROVE RangeContains(r, p) <=> r.bits <= p /\ p < r.bits + size
      <4>1. p \in Nat /\ p < Pow2[W] BY <2>1, Bounds, Zenon DEF End
      <4>2. RangeContains(r, p) <=> r.len = 0 \/ p \div size = r.bits \div size
        BY <3>2, Zenon DEF RangeContains, HashContains, size
      <4>3. p \div size = q <=> q * size <= p /\ p < (q + 1) * size
        BY <3>2, <4>1, Division, Zenon
      <4>4. (q + 1) * size = q * size + size BY <3>2, SMT
      <4>5. CASE r.len = 0
        <5>1. r.bits = 0 BY <3>1, <4>5, Zenon DEF Prefixes, Canonical
        <5>2. size = Pow2[W] BY <4>5, Bounds DEF size
        <5>3. r.bits + size = Pow2[W] BY <5>1, <5>2, Bounds
        <5> QED BY <4>1, <4>2, <4>5, <5>1, <5>3
      <4>6. CASE r.len # 0 BY <3>3, <4>2, <4>3, <4>4, <4>6, Zenon
      <4> QED BY <4>5, <4>6, Zenon
    <3> QED BY <2>1, <3>2, <3>4, <3>5
  <2>2. CASE kind = "ordered"
    <3>1. /\ r.kind = "ordered" /\ r.start \in Nat /\ r.end \in Nat /\ r.start < r.end /\ r.end <= Inf
      BY <2>2, Zenon DEF Ranges, Intervals
    <3>2. Lo(r) = r.start /\ Hi(r) = r.end /\ End(kind) = Inf
      BY <2>2, <3>1, Zenon DEF Lo, Hi, End
    <3>3. \A p : RangeContains(r, p) <=> r.start <= p /\ p < r.end
      BY <3>1, Zenon DEF RangeContains, OrderedContains
    <3> QED BY <2>2, <3>1, <3>2, <3>3, Zenon
  <2> QED BY <2>1, <2>2, Zenon DEF Kinds
<1>2. Space(kind) = {p \in Nat : p < End(kind)} /\ End(kind) \in Nat BY Bounds, Zenon
<1>3. PointsOf(r) = {p \in Space(kind) : RangeContains(r, p)} BY <1>1, Zenon DEF PointsOf
<1>4. ASSUME NEW p PROVE p \in PointsOf(r) <=> p \in Nat /\ Lo(r) <= p /\ p < Hi(r)
  <2>1. p \in Nat /\ p < Hi(r) => p \in Space(kind) BY <1>1, <1>2
  <2>2. p \in Space(kind) => p \in Nat BY <1>2, Zenon
  <2> QED BY <1>1, <1>3, <2>1, <2>2, Zenon
<1>5. PointsOf(r) = {p \in Nat : Lo(r) <= p /\ p < Hi(r)} BY <1>4, Zenon
<1> QED BY <1>1, <1>5, Zenon

\* The halves of a prefix meet in its middle.
LEMMA Halves ==
  ASSUME NEW r \in Prefixes, NEW t \in SplitMidpoint(r)
  PROVE  /\ r.len < W
         /\ t = <<HashPrefix(r.bits, r.len + 1), HashPrefix(t[3], r.len + 1), t[3]>>
         /\ t[1] \in Prefixes /\ t[2] \in Prefixes
         /\ t[3] = r.bits + Pow2[W - (r.len + 1)]
         /\ Lo(t[1]) = Lo(r) /\ Hi(t[1]) = Lo(t[2]) /\ Hi(t[2]) = Hi(r)
<1> DEFINE half == Pow2[W - (r.len + 1)]
           right == SetBit(r.bits, W - (r.len + 1))
<1>1. /\ r.kind = "hash" /\ r.bits \in Nat /\ r.len \in 0..W /\ W \in Nat
      /\ r.bits + Pow2[W - r.len] <= Pow2[W] /\ Pow2[W] \in Nat
  BY PrefixAligned, Bounds, Zenon
<1>2. r.len < W /\ r.len + 1 \in 0..W
  <2>1. ~(r.len >= W) BY Zenon DEF SplitMidpoint
  <2> QED BY <1>1, <2>1
<1>3. W - (r.len + 1) \in 0..W /\ W - r.len \in 0..W /\ (W - r.len) - 1 = W - (r.len + 1) /\ W - r.len # 0
  BY <1>1, <1>2
<1>4. half \in Nat \ {0} /\ Pow2[W - r.len] = 2 * half
  BY <1>3, Pow2Positive, Pow2Unfolds, Zenon
<1>5. t = <<HashPrefix(r.bits, r.len + 1), HashPrefix(right, r.len + 1), right>> /\ Canonical(t[1]) /\ Canonical(t[2])
  BY <1>2, Zenon DEF SplitMidpoint
<1>6. right = r.bits + half
  <2>1. PICK q \in Nat : r.bits = q * (2 * half) BY <1>4, PrefixAligned, Zenon
  <2>2. r.bits = (2 * q) * half /\ 2 * q \in Nat BY <1>4, <2>1, SMT
  <2>3. r.bits \div half = 2 * q BY <1>1, <1>4, <2>2, Division
  <2>4. (2 * q) % 2 # 1 BY SMT
  <2> QED BY <2>3, <2>4, Zenon DEF SetBit
<1> HIDE DEF half, right
<1>7. t[1] = HashPrefix(r.bits, r.len + 1) /\ t[2] = HashPrefix(right, r.len + 1) /\ t[3] = right
  BY <1>5, Zenon
<1>8. t[1].kind = "hash" /\ t[1].bits = r.bits /\ t[1].len = r.len + 1 /\ t[1] \in [kind : {"hash"}, bits : Nat, len : 0..W]
  BY <1>1, <1>2, <1>7 DEF HashPrefix
<1>9. t[2].kind = "hash" /\ t[2].bits = right /\ t[2].len = r.len + 1 /\ t[2] \in [kind : {"hash"}, bits : Nat, len : 0..W]
  BY <1>1, <1>2, <1>4, <1>6, <1>7 DEF HashPrefix
<1>10. t[1] \in Prefixes /\ t[2] \in Prefixes
  <2>1. r.bits < Pow2[W] /\ right < Pow2[W] BY <1>1, <1>4, <1>6
  <2> QED BY <1>5, <1>8, <1>9, <2>1, Zenon DEF Prefixes
<1>11. Hi(t[1]) = r.bits + half /\ Hi(t[2]) = (r.bits + half) + half /\ Hi(r) = r.bits + 2 * half
  BY <1>1, <1>4, <1>6, <1>8, <1>9, Zenon DEF Hi, half
<1>12. Lo(t[1]) = r.bits /\ Lo(t[2]) = r.bits + half /\ Lo(r) = r.bits
  BY <1>1, <1>6, <1>8, <1>9, Zenon DEF Lo
<1>13. Hi(t[2]) = Hi(r) BY <1>1, <1>4, <1>11
<1>14. t[3] = r.bits + Pow2[W - (r.len + 1)] BY <1>6, <1>7, Zenon DEF half
<1>15. t = <<HashPrefix(r.bits, r.len + 1), HashPrefix(t[3], r.len + 1), t[3]>>
  BY <1>5, <1>7, Zenon
<1> QED BY <1>2, <1>10, <1>11, <1>12, <1>13, <1>14, <1>15, Zenon

\* split_child_ranges cuts a range in two.
LEMMA SplitCuts ==
  ASSUME NEW kind \in Kinds, NEW r \in Ranges(kind), NEW b \in Space(kind), NEW t \in SplitChildRanges(r, b)
  PROVE  /\ t[1] \in Ranges(kind) /\ t[2] \in Ranges(kind)
         /\ Lo(t[1]) = Lo(r) /\ Hi(t[1]) = Lo(t[2]) /\ Hi(t[2]) = Hi(r)
<1>1. r.kind = kind BY IntervalOfPoints, Zenon
<1>2. CASE kind = "hash"
  <2>1. PICK u \in SplitMidpoint(r) : t = <<u[1], u[2]>>
    BY <1>1, <1>2, Zenon DEF SplitChildRanges
  <2>2. r \in Prefixes BY <1>2, Zenon DEF Ranges
  <2>3. t[1] = u[1] /\ t[2] = u[2] BY <2>1, Zenon
  <2> QED BY <1>2, <2>2, <2>3, Halves, Zenon DEF Ranges
<1>3. CASE kind = "ordered"
  <2>1. /\ r.start \in Nat /\ r.end \in Nat /\ r.start < r.end /\ r.end <= Inf
    BY <1>3, Zenon DEF Ranges, Intervals
  <2>2. t \in SplitAt(r, b) /\ b \in Nat BY <1>1, <1>3, Bounds, Zenon DEF SplitChildRanges
  <2>3. t[1] = Ordered(r.start, b) /\ t[2] = Ordered(b, r.end) /\ r.start < b /\ b < r.end
    BY <2>1, <2>2 DEF SplitAt
  <2>4. b <= Inf BY <2>1, <2>2, <2>3, Bounds
  <2>5. t[1] \in Intervals /\ t[1].kind = "ordered" /\ t[1].start = r.start /\ t[1].end = b
    BY <2>1, <2>2, <2>3, <2>4 DEF Ordered, Intervals
  <2>6. t[2] \in Intervals /\ t[2].kind = "ordered" /\ t[2].start = b /\ t[2].end = r.end
    BY <2>1, <2>2, <2>3 DEF Ordered, Intervals
  <2> QED BY <1>1, <1>3, <2>5, <2>6, Zenon DEF Ranges, Lo, Hi
<1> QED BY <1>2, <1>3, Zenon DEF Kinds

\* merge_parent_ranges joins two ranges that meet.
LEMMA MergeJoins ==
  ASSUME NEW kind \in Kinds, NEW r \in Ranges(kind), NEW s \in Ranges(kind), NEW m \in MergeParentRanges(r, s)
  PROVE  /\ m \in Ranges(kind)
         /\ Lo(m) = Lo(r) /\ Hi(r) = Lo(s) /\ Hi(m) = Hi(s)
<1>1. r.kind = kind /\ s.kind = kind BY IntervalOfPoints, Zenon
<1>2. CASE kind = "hash"
  <2> DEFINE size == Pow2[W - r.len]
  <2>1. /\ m = HashPrefix(r.bits, r.len - 1) /\ r.len = s.len /\ r.len # 0
        /\ SetBit(r.bits, W - r.len) = s.bits /\ (r.bits \div size) % 2 = 0 /\ Canonical(m)
    BY <1>1, <1>2, Zenon DEF MergeParentRanges
  <2>2. /\ r.bits \in Nat /\ r.len \in 0..W /\ W \in Nat /\ size \in Nat \ {0} /\ r.bits < Pow2[W]
        /\ W - r.len \in 0..W
    BY <1>2, PrefixAligned, Bounds, Zenon DEF Ranges, Prefixes
  <2>3. s.bits = r.bits + size
    <3>1. (r.bits \div size) % 2 # 1 BY <2>1
    <3> QED BY <2>1, <3>1, Zenon DEF SetBit
  <2>4. r.len - 1 \in 0..W /\ W - (r.len - 1) \in 0..W /\ W - (r.len - 1) # 0
        /\ (W - (r.len - 1)) - 1 = W - r.len
    BY <2>1, <2>2
  <2>5. Pow2[W - (r.len - 1)] = 2 * size BY <2>4, Pow2Unfolds, Zenon
  <2>6. m.kind = "hash" /\ m.bits = r.bits /\ m.len = r.len - 1 /\ m \in [kind : {"hash"}, bits : Nat, len : 0..W]
    BY <2>1, <2>2, <2>4, Zenon DEF HashPrefix
  <2>7. m \in Prefixes BY <2>1, <2>2, <2>6, Zenon DEF Prefixes
  <2>8. Lo(m) = r.bits /\ Hi(m) = r.bits + 2 * size BY <2>5, <2>6, Zenon DEF Lo, Hi
  <2>9. Lo(r) = r.bits /\ Hi(r) = r.bits + size /\ Lo(s) = s.bits /\ Hi(s) = s.bits + size
    BY <1>1, <1>2, <2>1, Zenon DEF Lo, Hi
  <2> HIDE DEF size
  <2>10. Hi(m) = Hi(s) BY <2>2, <2>3, <2>8, <2>9
  <2> QED BY <1>2, <2>3, <2>7, <2>8, <2>9, <2>10, Zenon DEF Ranges
<1>3. CASE kind = "ordered"
  <2>1. /\ r.start \in Nat /\ r.end \in Nat /\ r.start < r.end
        /\ s.start \in Nat /\ s.end \in Nat /\ s.start < s.end /\ s.end <= Inf
    BY <1>3, Zenon DEF Ranges, Intervals
  <2>2. m = Ordered(r.start, s.end) /\ r.end = s.start
    BY <1>1, <1>3, Zenon DEF MergeParentRanges, IsAdjacentTo
  <2>3. m \in Intervals /\ m.kind = "ordered" /\ m.start = r.start /\ m.end = s.end
    BY <2>1, <2>2 DEF Ordered, Intervals
  <2> QED BY <1>1, <1>3, <2>2, <2>3, Zenon DEF Ranges, Lo, Hi
<1> QED BY <1>2, <1>3, Zenon DEF Kinds

-----------------------------------------------------------------------------
(* Tilings. *)

\* T cuts the space of a kind into ranges: none meets another, and none is missing.
Tiled(T, kind) ==
    /\ T \subseteq Ranges(kind) /\ IsFiniteSet(T)
    /\ \A r, s \in T : r # s => Hi(r) <= Lo(s) \/ Hi(s) <= Lo(r)
    /\ \A p \in Space(kind) : \E r \in T : Lo(r) <= p /\ p < Hi(r)

\* A tile gives way to its two parts.
LEMMA TiledSplit ==
  ASSUME NEW kind \in Kinds, NEW T, Tiled(T, kind), NEW r \in T,
         NEW a \in Ranges(kind), NEW b \in Ranges(kind),
         Lo(a) = Lo(r), Hi(a) = Lo(b), Hi(b) = Hi(r)
  PROVE  Tiled((T \ {r}) \cup {a, b}, kind)
<1> DEFINE U == (T \ {r}) \cup {a, b}
<1>1. /\ T \subseteq Ranges(kind) /\ IsFiniteSet(T)
      /\ \A x, y \in T : x # y => Hi(x) <= Lo(y) \/ Hi(y) <= Lo(x)
      /\ \A p \in Space(kind) : \E x \in T : Lo(x) <= p /\ p < Hi(x)
  BY Zenon DEF Tiled
<1>2. \A x \in Ranges(kind) : Lo(x) \in Nat /\ Hi(x) \in Nat /\ Lo(x) < Hi(x)
  BY IntervalOfPoints, Zenon
<1>3. U \subseteq Ranges(kind) BY <1>1, Zenon
<1>4. IsFiniteSet(U)
  <2>1. IsFiniteSet(T \ {r}) BY <1>1, FS_RemoveElement, Zenon
  <2>2. IsFiniteSet((T \ {r}) \cup {a}) BY <2>1, FS_AddElement, Zenon
  <2>3. IsFiniteSet(((T \ {r}) \cup {a}) \cup {b}) BY <2>2, FS_AddElement, Zenon
  <2>4. U = ((T \ {r}) \cup {a}) \cup {b} BY Zenon
  <2> QED BY <2>3, <2>4, Zenon
<1>5. ASSUME NEW x \in T, x # r
      PROVE  /\ Hi(x) <= Lo(a) \/ Hi(a) <= Lo(x)
             /\ Hi(x) <= Lo(b) \/ Hi(b) <= Lo(x)
  <2>1. Hi(x) <= Lo(r) \/ Hi(r) <= Lo(x) BY <1>1, <1>5, Zenon
  <2>2. x \in Ranges(kind) /\ r \in Ranges(kind) BY <1>1, Zenon
  <2> QED BY <1>2, <2>1, <2>2
<1>6. Hi(a) <= Lo(b) BY <1>2
<1>7. ASSUME NEW x \in U, NEW y \in U, x # y PROVE Hi(x) <= Lo(y) \/ Hi(y) <= Lo(x)
  <2>1. CASE x \in T \ {r} /\ y \in T \ {r} BY <1>1, <1>7, <2>1, Zenon
  <2>2. CASE x \in T \ {r} /\ y \in {a, b} BY <1>5, <2>2, Zenon
  <2>3. CASE x \in {a, b} /\ y \in T \ {r} BY <1>5, <2>3, Zenon
  <2>4. CASE x \in {a, b} /\ y \in {a, b} BY <1>6, <1>7, <2>4
  <2> QED BY <2>1, <2>2, <2>3, <2>4, Zenon
<1>8. ASSUME NEW p \in Space(kind) PROVE \E x \in U : Lo(x) <= p /\ p < Hi(x)
  <2>1. PICK x \in T : Lo(x) <= p /\ p < Hi(x) BY <1>1, Zenon
  <2>2. CASE x # r
    <3>1. x \in U BY <2>2, Zenon
    <3> QED BY <2>1, <3>1, Zenon
  <2>3. CASE x = r
    <3>1. p \in Nat BY Bounds, Zenon
    <3>2. p < Hi(a) \/ Lo(b) <= p BY <1>2, <3>1
    <3>3. Lo(a) <= p /\ p < Hi(b) BY <2>1, <2>3, Zenon
    <3>4. a \in U /\ b \in U BY Zenon
    <3> HIDE DEF U
    <3> QED BY <3>2, <3>3, <3>4, Zenon
  <2> QED BY <2>2, <2>3, Zenon
<1> QED BY <1>3, <1>4, <1>7, <1>8, Zenon DEF Tiled

\* Two tiles that meet give way to one.
LEMMA TiledMerge ==
  ASSUME NEW kind \in Kinds, NEW T, Tiled(T, kind), NEW r \in T, NEW s \in T, NEW m \in Ranges(kind),
         Lo(m) = Lo(r), Hi(r) = Lo(s), Hi(m) = Hi(s)
  PROVE  Tiled((T \ {r, s}) \cup {m}, kind)
<1> DEFINE U == (T \ {r, s}) \cup {m}
<1>1. /\ T \subseteq Ranges(kind) /\ IsFiniteSet(T)
      /\ \A x, y \in T : x # y => Hi(x) <= Lo(y) \/ Hi(y) <= Lo(x)
      /\ \A p \in Space(kind) : \E x \in T : Lo(x) <= p /\ p < Hi(x)
  BY Zenon DEF Tiled
<1>2. \A x \in Ranges(kind) : Lo(x) \in Nat /\ Hi(x) \in Nat /\ Lo(x) < Hi(x)
  BY IntervalOfPoints, Zenon
<1>3. U \subseteq Ranges(kind) BY <1>1, Zenon
<1>4. IsFiniteSet(U)
  <2>1. IsFiniteSet(T \ {r, s}) BY <1>1, FS_Difference, Zenon
  <2> QED BY <2>1, FS_AddElement, Zenon
<1>5. ASSUME NEW x \in T, x # r, x # s PROVE Hi(x) <= Lo(m) \/ Hi(m) <= Lo(x)
  <2>1. (Hi(x) <= Lo(r) \/ Hi(r) <= Lo(x)) /\ (Hi(x) <= Lo(s) \/ Hi(s) <= Lo(x))
    BY <1>1, <1>5, Zenon
  <2>2. x \in Ranges(kind) /\ r \in Ranges(kind) /\ s \in Ranges(kind) BY <1>1, Zenon
  <2> QED BY <1>2, <2>1, <2>2
<1>6. ASSUME NEW x \in U, NEW y \in U, x # y PROVE Hi(x) <= Lo(y) \/ Hi(y) <= Lo(x)
  <2>1. CASE x \in T \ {r, s} /\ y \in T \ {r, s} BY <1>1, <1>6, <2>1, Zenon
  <2>2. CASE x \in T \ {r, s} /\ y = m BY <1>5, <2>2, Zenon
  <2>3. CASE x = m /\ y \in T \ {r, s} BY <1>5, <2>3, Zenon
  <2> QED BY <1>6, <2>1, <2>2, <2>3, Zenon
<1>7. ASSUME NEW p \in Space(kind) PROVE \E x \in U : Lo(x) <= p /\ p < Hi(x)
  <2>1. PICK x \in T : Lo(x) <= p /\ p < Hi(x) BY <1>1, Zenon
  <2>2. CASE x \notin {r, s}
    <3>1. x \in U BY <2>2, Zenon
    <3> QED BY <2>1, <3>1, Zenon
  <2>3. CASE x \in {r, s}
    <3>1. p \in Nat BY Bounds, Zenon
    <3>2. r \in Ranges(kind) /\ s \in Ranges(kind) BY <1>1, Zenon
    <3>3. Lo(m) <= p /\ p < Hi(m) BY <1>2, <2>1, <2>3, <3>1, <3>2
    <3>4. m \in U BY Zenon
    <3> HIDE DEF U
    <3> QED BY <3>3, <3>4, Zenon
  <2> QED BY <2>2, <2>3, Zenon
<1> QED BY <1>3, <1>4, <1>6, <1>7, Zenon DEF Tiled

\* static_ordered_tiles makes a tiling.
LEMMA OrderedGenesisTiled ==
  ASSUME NEW keys \in SUBSET (1..MaxKey), NEW bounds, bounds = keys \cup {0, Inf}, NEW T,
         T = {Ordered(b[1], b[2]) : b \in {c \in bounds \X bounds :
                                             /\ c[1] < c[2]
                                             /\ \A x \in bounds : x <= c[1] \/ c[2] <= x}}
  PROVE  Tiled(T, "ordered")
<1>1. MaxKey \in Nat /\ Inf \in Nat /\ Inf = MaxKey + 1 /\ Inf # 0 BY Bounds, Zenon DEF Inf
<1>2. bounds \subseteq 0..Inf /\ 0 \in bounds /\ Inf \in bounds BY <1>1
<1>3. ASSUME NEW r \in T
      PROVE  /\ r.kind = "ordered" /\ r.start \in bounds /\ r.end \in bounds /\ r.start < r.end
             /\ r = Ordered(r.start, r.end)
             /\ \A x \in bounds : x <= r.start \/ r.end <= x
  <2>1. PICK c \in bounds \X bounds : /\ r = Ordered(c[1], c[2]) /\ c[1] < c[2]
                                      /\ \A x \in bounds : x <= c[1] \/ c[2] <= x
    BY Zenon
  <2>2. c[1] \in bounds /\ c[2] \in bounds BY Zenon
  <2>3. r.kind = "ordered" /\ r.start = c[1] /\ r.end = c[2] BY <2>1, Zenon DEF Ordered
  <2> QED BY <2>1, <2>2, <2>3, Zenon
<1>4. ASSUME NEW a \in bounds, NEW b \in bounds, a < b, \A x \in bounds : x <= a \/ b <= x
      PROVE  Ordered(a, b) \in T
  <2>1. <<a, b>> \in {c \in bounds \X bounds : c[1] < c[2] /\ \A x \in bounds : x <= c[1] \/ c[2] <= x}
    BY <1>4, Zenon
  <2> QED BY <2>1, Zenon
<1>5. T \subseteq Ranges("ordered")
  <2> SUFFICES ASSUME NEW r \in T PROVE r \in Intervals
    BY Zenon DEF Ranges
  <2>1. r.start \in 0..Inf /\ r.end \in 0..Inf /\ r.start < r.end /\ r = Ordered(r.start, r.end)
    BY <1>2, <1>3, Zenon
  <2>2. r.start \in Nat /\ r.end \in Nat /\ r.end <= Inf BY <1>1, <2>1
  <2>3. r \in [kind : {"ordered"}, start : Nat, end : Nat] BY <2>1, <2>2 DEF Ordered
  <2> QED BY <2>1, <2>2, <2>3, Zenon DEF Intervals
<1>6. \A r \in T : Lo(r) = r.start /\ Hi(r) = r.end BY <1>3, Zenon DEF Lo, Hi
<1>7. ASSUME NEW r \in T, NEW s \in T, r # s PROVE r.end <= s.start \/ s.end <= r.start
  <2>1. r.start \in Nat /\ r.end \in Nat /\ s.start \in Nat /\ s.end \in Nat BY <1>1, <1>2, <1>3
  <2>2. s.start <= r.start \/ r.end <= s.start BY <1>3, Zenon
  <2>3. r.start <= s.start \/ s.end <= r.start BY <1>3, Zenon
  <2>4. (s.end <= r.start \/ r.end <= s.end) /\ (r.end <= s.start \/ s.end <= r.end)
    BY <1>3, Zenon
  <2>5. ~(r.start = s.start /\ r.end = s.end) BY <1>3, <1>7, Zenon
  <2>6. r.start < r.end /\ s.start < s.end BY <1>3, Zenon
  <2> QED BY <2>1, <2>2, <2>3, <2>4, <2>5, <2>6
<1>8. IsFiniteSet(T)
  <2> DEFINE f == [r \in T |-> r.start]
  <2>1. f \in [T -> 0..Inf] BY <1>2, <1>3, Zenon
  <2>2. ASSUME NEW r \in T, NEW s \in T, f[r] = f[s] PROVE r = s
    <3> SUFFICES ASSUME r # s PROVE FALSE
      BY Zenon
    <3>1. r.start = s.start BY <2>2, Zenon
    <3>2. r.start \in Nat /\ r.end \in Nat /\ s.end \in Nat BY <1>1, <1>2, <1>3
    <3> QED BY <1>3, <1>7, <3>1, <3>2
  <2>3. f \in Injection(T, 0..Inf)
    <3> HIDE DEF f
    <3> QED BY <2>1, <2>2, Zenon DEF Injection, IsInjective
  <2>4. IsFiniteSet(0..Inf) BY <1>1, FS_Interval
  <2> QED BY <2>3, <2>4, FS_Injection, Zenon
<1>9. ASSUME NEW p \in Space("ordered") PROVE \E r \in T : r.start <= p /\ p < r.end
  <2> DEFINE Below == {x \in bounds : x <= p}
             Above == {x \in bounds : p < x}
  <2>1. p \in Nat /\ p < Inf
    <3>1. Space("ordered") = {x \in Nat : x < End("ordered")} BY Bounds, Zenon DEF Kinds
    <3> QED BY <3>1, Zenon DEF End
  <2>2. bounds \subseteq Nat BY <1>1, <1>2
  <2>3. Below \subseteq Nat /\ 0 \in Below /\ \A x \in Below : x <= p
    <3>1. 0 <= p BY <2>1
    <3>2. 0 \in Below BY <1>2, <3>1, Zenon
    <3>3. Below \subseteq Nat BY <2>2, Zenon
    <3> QED BY <3>2, <3>3, Zenon
  <2>4. Above \subseteq Nat /\ Inf \in Above BY <1>2, <2>1, <2>2, Zenon
  <2>5. PICK a \in Below : \A x \in Below : x <= a
    <3> HIDE DEF Below
    <3> QED BY <2>1, <2>3, GreatestNat, Zenon
  <2>6. PICK b \in Above : \A x \in Above : b <= x
    <3> HIDE DEF Above
    <3> QED BY <2>4, LeastNat, Zenon
  <2>7. a \in bounds /\ b \in bounds /\ a <= p /\ p < b /\ a \in Nat /\ b \in Nat
    BY <2>2, <2>5, <2>6, Zenon
  <2>8. ASSUME NEW x \in bounds PROVE x <= a \/ b <= x
    <3>1. x \in Nat BY <2>2, Zenon
    <3>2. CASE x <= p BY <2>5, <3>2, Zenon
    <3>3. CASE p < x BY <2>6, <3>3, Zenon
    <3> QED BY <2>1, <3>1, <3>2, <3>3
  <2>9. Ordered(a, b) \in T BY <1>4, <2>1, <2>7, <2>8
  <2>10. Ordered(a, b).start = a /\ Ordered(a, b).end = b BY Zenon DEF Ordered
  <2> QED BY <2>7, <2>9, <2>10, Zenon
<1> QED BY <1>5, <1>6, <1>7, <1>8, <1>9 DEF Tiled

-----------------------------------------------------------------------------
(* The inductive invariant. *)

\* The active ranges tile the space of one kind, in every state between two operations.
IInv ==
    /\ genesis \in Nat
    /\ \E kind \in Kinds : Tiled(tiles, kind) /\ (kind = "ordered" => genesis = 0)

LEMMA InitIInv == Init => IInv
<1> SUFFICES ASSUME Init PROVE IInv
  BY Zenon
<1>1. CASE tiles = {HashPrefix(0, 0)} /\ genesis \in 1..MaxGenesis
  <2> DEFINE root == HashPrefix(0, 0)
  <2>1. root.kind = "hash" /\ root.bits = 0 /\ root.len = 0 /\ root \in [kind : {"hash"}, bits : Nat, len : 0..W]
    BY Bounds DEF HashPrefix
  <2>2. root \in Prefixes BY <2>1, Bounds DEF Prefixes, Canonical
  <2>3. W - 0 = W BY Bounds
  <2>4. Lo(root) = 0 /\ Hi(root) = Pow2[W] BY <2>1, <2>3, Bounds DEF Lo, Hi
  <2>5. IsFiniteSet({root}) BY FS_Singleton, Zenon
  <2>6. \A p \in Space("hash") : p \in Nat /\ p < Pow2[W]
    <3>1. Space("hash") = {x \in Nat : x < End("hash")} BY Bounds, Zenon DEF Kinds
    <3> QED BY <3>1, Zenon DEF End
  <2> HIDE DEF root
  <2>7. Tiled({root}, "hash") BY <2>2, <2>4, <2>5, <2>6 DEF Tiled, Ranges
  <2>8. genesis \in Nat BY <1>1, RangesAssumption
  <2> QED BY <1>1, <2>7, <2>8, Zenon DEF IInv, Kinds, root
<1>2. CASE genesis = 0 /\ ~(tiles = {HashPrefix(0, 0)} /\ genesis \in 1..MaxGenesis)
  <2>1. PICK keys \in SUBSET (1..MaxKey) :
          tiles = {Ordered(b[1], b[2]) : b \in {c \in (keys \cup {0, Inf}) \X (keys \cup {0, Inf}) :
                                                  /\ c[1] < c[2]
                                                  /\ \A x \in keys \cup {0, Inf} : x <= c[1] \/ c[2] <= x}}
    BY <1>2, Zenon DEF Init
  <2>2. Tiled(tiles, "ordered") BY <2>1, OrderedGenesisTiled, Zenon
  <2> QED BY <1>2, <2>2, Zenon DEF IInv, Kinds
<1> QED BY <1>1, <1>2, Zenon DEF Init

LEMMA NextIInv == IInv /\ [Next]_vars => IInv'
<1> SUFFICES ASSUME IInv, [Next]_vars PROVE IInv'
  BY Zenon
<1>1. PICK kind \in Kinds : Tiled(tiles, kind) /\ (kind = "ordered" => genesis = 0)
  BY Zenon DEF IInv
<1>2. genesis \in Nat /\ tiles \subseteq Ranges(kind) /\ IsFiniteSet(tiles)
  BY <1>1, Zenon DEF IInv, Tiled
<1>3. \A r \in tiles : r.kind = kind BY <1>2, IntervalOfPoints, Zenon
<1>4. CASE GenesisSplit
  <2>1. kind = "hash"
    <3>1. Cardinality(tiles) \in Nat BY <1>2, FS_CardinalityType, Zenon
    <3>2. Cardinality(tiles) < genesis BY <1>4, Zenon DEF GenesisSplit
    <3>3. genesis # 0 BY <3>1, <3>2
    <3> QED BY <1>1, <3>3, Zenon DEF Kinds
  <2>2. PICK r \in tiles : \E t \in SplitMidpoint(r) : tiles' = (tiles \ {r}) \cup {t[1], t[2]}
    BY <1>4, Zenon DEF GenesisSplit
  <2>3. PICK t \in SplitMidpoint(r) : tiles' = (tiles \ {r}) \cup {t[1], t[2]} BY <2>2, Zenon
  <2>4. r \in Prefixes BY <1>2, <2>1, Zenon DEF Ranges
  <2>5. /\ t[1] \in Ranges(kind) /\ t[2] \in Ranges(kind)
        /\ Lo(t[1]) = Lo(r) /\ Hi(t[1]) = Lo(t[2]) /\ Hi(t[2]) = Hi(r)
    BY <2>1, <2>4, Halves, Zenon DEF Ranges
  <2>6. Tiled(tiles', kind) BY <1>1, <2>3, <2>5, TiledSplit, Zenon
  <2> QED BY <1>2, <1>4, <2>1, <2>6, Zenon DEF GenesisSplit, IInv
<1>5. CASE GenesisDone
  <2>1. genesis' = 0 /\ tiles' = tiles BY <1>5, Zenon DEF GenesisDone
  <2> QED BY <1>1, <2>1, Zenon DEF IInv
<1>6. ASSUME NEW r \in tiles, NEW b \in Space(r.kind), Split(r, b) PROVE IInv'
  <2>1. PICK t \in SplitChildRanges(r, b) : tiles' = (tiles \ {r}) \cup {t[1], t[2]}
    BY <1>6, Zenon DEF Split
  <2>2. r \in Ranges(kind) /\ b \in Space(kind) BY <1>2, <1>3, Zenon
  <2>3. /\ t[1] \in Ranges(kind) /\ t[2] \in Ranges(kind)
        /\ Lo(t[1]) = Lo(r) /\ Hi(t[1]) = Lo(t[2]) /\ Hi(t[2]) = Hi(r)
    BY <2>2, SplitCuts
  <2>4. Tiled(tiles', kind) BY <1>1, <2>1, <2>3, TiledSplit, Zenon
  <2> QED BY <1>1, <1>2, <1>6, <2>4, Zenon DEF Split, IInv
<1>7. ASSUME NEW r \in tiles, NEW s \in tiles, Merge(r, s) PROVE IInv'
  <2>1. PICK m \in MergeParentRanges(r, s) : tiles' = (tiles \ {r, s}) \cup {m}
    BY <1>7, Zenon DEF Merge
  <2>2. r \in Ranges(kind) /\ s \in Ranges(kind) BY <1>2, Zenon
  <2>3. m \in Ranges(kind) /\ Lo(m) = Lo(r) /\ Hi(r) = Lo(s) /\ Hi(m) = Hi(s)
    BY <2>2, MergeJoins
  <2>4. Tiled(tiles', kind) BY <1>1, <2>1, <2>3, TiledMerge, Zenon
  <2> QED BY <1>1, <1>2, <1>7, <2>4, Zenon DEF Merge, IInv
<1>8. CASE UNCHANGED vars BY <1>8, Zenon DEF vars, IInv
<1> QED BY <1>4, <1>5, <1>6, <1>7, <1>8, Zenon DEF Next

LEMMA Invariance == Spec => []IInv
BY InitIInv, NextIInv, PTL DEF Spec

LEMMA IInvTilingExact == IInv => TilingExact
<1> SUFFICES ASSUME IInv PROVE TilingExact
  BY Zenon
<1>1. PICK kind \in Kinds : Tiled(tiles, kind) BY Zenon DEF IInv
<1>2. /\ tiles \subseteq Ranges(kind)
      /\ \A r, s \in tiles : r # s => Hi(r) <= Lo(s) \/ Hi(s) <= Lo(r)
      /\ \A p \in Space(kind) : \E r \in tiles : Lo(r) <= p /\ p < Hi(r)
  BY <1>1, Zenon DEF Tiled
<1>3. ASSUME NEW r \in tiles
      PROVE  /\ r.kind = kind /\ Lo(r) \in Nat /\ Hi(r) \in Nat /\ Lo(r) < Hi(r)
             /\ \A p \in Space(kind) : RangeContains(r, p) <=> Lo(r) <= p /\ p < Hi(r)
             /\ PointsOf(r) = {p \in Nat : Lo(r) <= p /\ p < Hi(r)}
  <2>1. r \in Ranges(kind) BY <1>2, Zenon
  <2> QED BY <2>1, IntervalOfPoints, Zenon
<1>4. ASSUME NEW r \in tiles PROVE PointsOf(r) # {}
  <2>1. Lo(r) \in PointsOf(r) BY <1>3
  <2> QED BY <2>1, Zenon
<1>5. ASSUME NEW p \in Space(kind) PROVE Cardinality({r \in tiles : RangeContains(r, p)}) = 1
  <2>1. p \in Nat BY Bounds, Zenon
  <2>2. PICK r \in tiles : Lo(r) <= p /\ p < Hi(r) BY <1>2, Zenon
  <2>3. ASSUME NEW s \in tiles, RangeContains(s, p) PROVE s = r
    <3> SUFFICES ASSUME s # r PROVE FALSE
      BY Zenon
    <3>1. Lo(s) <= p /\ p < Hi(s) BY <1>3, <2>3, Zenon
    <3>2. Hi(r) <= Lo(s) \/ Hi(s) <= Lo(r) BY <1>2, Zenon
    <3> QED BY <1>3, <2>1, <2>2, <3>1, <3>2
  <2>4. RangeContains(r, p) BY <1>3, <2>2, Zenon
  <2>5. {x \in tiles : RangeContains(x, p)} = {r} BY <2>3, <2>4, Zenon
  <2> QED BY <2>5, FS_Singleton, Zenon
<1>6. \A k \in {r.kind : r \in tiles} : k = kind BY <1>3, Zenon
<1> QED BY <1>4, <1>5, <1>6, Zenon DEF TilingExact

\* However many splits and merges, of whatever tablets, every hash and every key has one
\* owner.
THEOREM TilingExactHolds == Spec => []TilingExact
BY IInvTilingExact, Invariance, PTL

\* Two prefixes meet if one continues the other, and then they do.
LEMMA PrefixesMeet ==
  ASSUME NEW r \in Prefixes, NEW s \in Prefixes, r.len <= s.len
  PROVE  /\ (r.len = 0 \/ r.bits \div Pow2[W - r.len] = s.bits \div Pow2[W - r.len])
               <=> Lo(r) < Hi(s) /\ Lo(s) < Hi(r)
<1> DEFINE size == Pow2[W - r.len]
           small == Pow2[W - s.len]
           k == Pow2[s.len - r.len]
<1>1. /\ r.kind = "hash" /\ r.bits \in Nat /\ r.len \in 0..W /\ W - r.len \in 0..W /\ size \in Nat \ {0}
      /\ r.bits + size <= Pow2[W]
  BY PrefixAligned, Zenon
<1>2. /\ s.kind = "hash" /\ s.bits \in Nat /\ s.len \in 0..W /\ W - s.len \in 0..W /\ small \in Nat \ {0}
      /\ s.bits + small <= Pow2[W]
  BY PrefixAligned, Zenon
<1>3. PICK a \in Nat : r.bits = a * size /\ r.bits \div size = a BY PrefixAligned, Zenon
<1>4. PICK b \in Nat : s.bits = b * small /\ s.bits \div small = b BY PrefixAligned, Zenon
<1>5. W \in Nat /\ Pow2[W] \in Nat BY Bounds, Zenon
<1>6. size = k * small /\ k \in Nat \ {0}
  <2>1. s.len - r.len \in 0..W BY <1>1, <1>2, <1>5
  <2>2. (s.len - r.len) + (W - s.len) = W - r.len BY <1>1, <1>2, <1>5
  <2>3. Pow2[(s.len - r.len) + (W - s.len)] = k * small
    BY <1>1, <1>2, <2>1, <2>2, Pow2Product, Zenon
  <2> QED BY <2>1, <2>2, <2>3, Pow2Positive, Zenon
<1>7. Lo(r) = r.bits /\ Hi(r) = r.bits + size /\ Lo(s) = s.bits /\ Hi(s) = s.bits + small
  BY <1>1, <1>2, Zenon DEF Lo, Hi
<1>8. r.len = 0 => r.bits = 0 /\ size = Pow2[W]
  <2> SUFFICES ASSUME r.len = 0 PROVE r.bits = 0 /\ size = Pow2[W]
    BY Zenon
  <2>1. r.bits = 0 BY Zenon DEF Prefixes, Canonical
  <2>2. W - 0 = W BY <1>5
  <2> QED BY <2>1, <2>2, Zenon
<1> HIDE DEF size, small, k
<1>9. CASE r.len = 0
  <2>1. r.bits = 0 /\ size = Pow2[W] BY <1>8, <1>9, Zenon
  <2>2. 0 < s.bits + small /\ s.bits < 0 + size BY <1>1, <1>2, <1>5, <2>1
  <2> QED BY <1>7, <1>9, <2>1, <2>2, Zenon
<1>10. CASE r.len # 0
  <2> DEFINE c == s.bits \div size
  <2>1. c \in Nat /\ c * size <= s.bits /\ s.bits < (c + 1) * size
    BY <1>1, <1>2, Division, Zenon
  <2> HIDE DEF c
  <2>2. s.bits + small <= (c + 1) * size
    <3>1. (c + 1) * size = ((c + 1) * k) * small BY <1>2, <1>6, <2>1, SMT
    <3>2. (c + 1) * k \in Nat BY <1>6, <2>1, SMT
    <3>3. ASSUME NEW n \in Nat, b * small < n * small PROVE b * small + small <= n * small
      <4>1. b < n BY <1>2, <3>3, SMT
      <4>2. (b + 1) * small <= n * small BY <1>2, <4>1, SMT
      <4>3. (b + 1) * small = b * small + small BY <1>2, SMT
      <4> QED BY <4>2, <4>3, Zenon
    <3> QED BY <1>4, <2>1, <3>1, <3>2, <3>3, Zenon
  <2>3. ASSUME a = c PROVE Lo(r) < Hi(s) /\ Lo(s) < Hi(r)
    <3>1. r.bits <= s.bits BY <1>3, <2>1, <2>3, Zenon
    <3>2. (c + 1) * size = c * size + size /\ c * size \in Nat BY <1>1, <2>1, SMT
    <3>3. s.bits < r.bits + size BY <1>3, <2>1, <2>3, <3>2, Zenon
    <3> QED BY <1>1, <1>2, <1>7, <3>1, <3>3
  <2>4. ASSUME Lo(r) < Hi(s), Lo(s) < Hi(r) PROVE a = c
    <3>1. a * size < (c + 1) * size
      <4>1. a * size < s.bits + small BY <1>3, <1>7, <2>4, Zenon
      <4>2. a * size \in Nat /\ (c + 1) * size \in Nat /\ s.bits + small \in Nat
        BY <1>1, <1>2, <2>1, SMT
      <4> QED BY <2>2, <4>1, <4>2
    <3>2. c * size < (a + 1) * size
      <4>1. s.bits < a * size + size BY <1>3, <1>7, <2>4, Zenon
      <4>2. (a + 1) * size = a * size + size BY <1>1, SMT
      <4>3. a * size \in Nat /\ c * size \in Nat BY <1>1, <2>1, SMT
      <4> QED BY <1>1, <1>2, <2>1, <4>1, <4>2, <4>3
    <3>3. a < c + 1 BY <1>1, <2>1, <3>1, SMT
    <3>4. c < a + 1 BY <1>1, <2>1, <3>2, SMT
    <3> QED BY <2>1, <3>3, <3>4
  <2>5. (r.len = 0 \/ r.bits \div size = s.bits \div size) <=> a = c BY <1>3, <1>10, Zenon DEF c
  <2> QED BY <2>3, <2>4, <2>5, Zenon DEF size
<1> QED BY <1>9, <1>10, Zenon

LEMMA IInvOverlapsIsIntersection == IInv => OverlapsIsIntersection
<1> SUFFICES ASSUME IInv PROVE OverlapsIsIntersection
  BY Zenon
<1>1. PICK kind \in Kinds : Tiled(tiles, kind) BY Zenon DEF IInv
<1>2. tiles \subseteq Ranges(kind) BY <1>1, Zenon DEF Tiled
<1> DEFINE Hash == {q \in [kind : {"hash"}, bits : Hashes, len : 0..W] : Canonical(q)}
           Key == {q \in [kind : {"ordered"}, start : Keys, end : 1..Inf] : q.start < q.end}
<1> SUFFICES ASSUME NEW r \in tiles, NEW s \in Hash \cup Key
             PROVE  PartitionOverlaps(r, s) <=> (r.kind = s.kind /\ PointsOf(r) \cap PointsOf(s) # {})
  BY Zenon DEF OverlapsIsIntersection, AllRanges
<1>3. r \in Ranges(kind) /\ r.kind = kind BY <1>2, IntervalOfPoints, Zenon
<1>4. PICK other \in Kinds : s \in Ranges(other)
  <2>1. CASE s \in Hash
    <3>1. \A h \in Hashes : h \in Nat /\ h < Pow2[W] BY Bounds DEF Hashes
    <3>2. s \in Prefixes BY <2>1, <3>1, Zenon DEF Prefixes
    <3> QED BY <3>2, Zenon DEF Ranges, Kinds
  <2>2. CASE s \in Key
    <3>1. s.start \in Nat /\ s.end \in Nat /\ s.end <= Inf /\ s.start < s.end
      BY <2>2, Bounds DEF Keys
    <3>2. s \in [kind : {"ordered"}, start : Nat, end : Nat] BY <2>2, Bounds DEF Keys
    <3>3. s \in Intervals BY <3>1, <3>2, Zenon DEF Intervals
    <3> QED BY <3>3, Zenon DEF Ranges, Kinds
  <2> QED BY <2>1, <2>2, Zenon
<1>5. s.kind = other BY <1>4, IntervalOfPoints, Zenon
<1> HIDE DEF Hash, Key
<1>6. CASE kind # other
  <2>1. ~PartitionOverlaps(r, s) BY <1>3, <1>5, <1>6 DEF PartitionOverlaps, Kinds
  <2> QED BY <1>3, <1>5, <1>6, <2>1, Zenon
<1>7. CASE kind = other
  <2>1. /\ Lo(r) \in Nat /\ Hi(r) \in Nat /\ Lo(r) < Hi(r)
        /\ PointsOf(r) = {p \in Nat : Lo(r) <= p /\ p < Hi(r)}
    BY <1>3, IntervalOfPoints, Zenon
  <2>2. /\ Lo(s) \in Nat /\ Hi(s) \in Nat /\ Lo(s) < Hi(s)
        /\ PointsOf(s) = {p \in Nat : Lo(s) <= p /\ p < Hi(s)}
    BY <1>4, IntervalOfPoints, Zenon
  <2>3. PointsOf(r) \cap PointsOf(s) # {} <=> Lo(r) < Hi(s) /\ Lo(s) < Hi(r)
    <3>1. ASSUME PointsOf(r) \cap PointsOf(s) # {} PROVE Lo(r) < Hi(s) /\ Lo(s) < Hi(r)
      <4>1. PICK p : p \in PointsOf(r) /\ p \in PointsOf(s) BY <3>1, Zenon
      <4> QED BY <2>1, <2>2, <4>1
    <3>2. ASSUME Lo(r) < Hi(s), Lo(s) < Hi(r), Lo(r) <= Lo(s) PROVE Lo(s) \in PointsOf(r) \cap PointsOf(s)
      BY <2>1, <2>2, <3>2
    <3>3. ASSUME Lo(r) < Hi(s), Lo(s) < Hi(r), Lo(s) <= Lo(r) PROVE Lo(r) \in PointsOf(r) \cap PointsOf(s)
      BY <2>1, <2>2, <3>3
    <3>4. Lo(r) <= Lo(s) \/ Lo(s) <= Lo(r) BY <2>1, <2>2
    <3> QED BY <3>1, <3>2, <3>3, <3>4, Zenon
  <2>4. PartitionOverlaps(r, s) <=> Lo(r) < Hi(s) /\ Lo(s) < Hi(r)
    <3>1. CASE kind = "hash"
      <4>1. r \in Prefixes /\ s \in Prefixes BY <1>3, <1>4, <1>7, <3>1, Zenon DEF Ranges
      <4>2. r.len \in Nat /\ s.len \in Nat BY <4>1, Bounds DEF Prefixes
      <4>3. PartitionOverlaps(r, s) <=> HashOverlaps(r, s)
        BY <1>3, <1>5, <1>7, <3>1, Zenon DEF PartitionOverlaps
      <4>4. CASE r.len < s.len
        <5>1. HashOverlaps(r, s) <=> r.len = 0 \/ r.bits \div Pow2[W - r.len] = s.bits \div Pow2[W - r.len]
          BY <4>4, Zenon DEF HashOverlaps
        <5>2. r.len <= s.len BY <4>2, <4>4
        <5> QED BY <4>1, <4>3, <5>1, <5>2, PrefixesMeet, Zenon
      <4>5. CASE ~(r.len < s.len)
        <5>1. HashOverlaps(r, s) <=> s.len = 0 \/ r.bits \div Pow2[W - s.len] = s.bits \div Pow2[W - s.len]
          BY <4>5, Zenon DEF HashOverlaps
        <5>2. s.len <= r.len BY <4>2, <4>5
        <5>3. (s.len = 0 \/ s.bits \div Pow2[W - s.len] = r.bits \div Pow2[W - s.len])
                <=> Lo(s) < Hi(r) /\ Lo(r) < Hi(s)
          BY <4>1, <5>2, PrefixesMeet, Zenon
        <5> QED BY <4>3, <5>1, <5>3, Zenon
      <4> QED BY <4>4, <4>5, Zenon
    <3>2. CASE kind = "ordered"
      <4>1. Lo(r) = r.start /\ Hi(r) = r.end /\ Lo(s) = s.start /\ Hi(s) = s.end
        BY <1>3, <1>5, <1>7, <3>2, Zenon DEF Lo, Hi
      <4>2. PartitionOverlaps(r, s) <=> OrderedOverlaps(r, s)
        BY <1>3, <1>5, <1>7, <3>2, Zenon DEF PartitionOverlaps
      <4> QED BY <4>1, <4>2, Zenon DEF OrderedOverlaps
    <3> QED BY <3>1, <3>2, Zenon DEF Kinds
  <2> QED BY <1>3, <1>5, <1>7, <2>3, <2>4, Zenon
<1> QED BY <1>6, <1>7, Zenon

\* overlaps of range.rs is the intersection of the sets of points, for every prefix and
\* every interval there is.
THEOREM OverlapsIsIntersectionHolds == Spec => []OverlapsIsIntersection
BY IInvOverlapsIsIntersection, Invariance, PTL

\* AllRanges is the ranges of the two kinds.
LEMMA RangesOfAKind ==
  ASSUME NEW m
  PROVE  m \in AllRanges <=> m \in Prefixes \/ m \in Intervals
<1>1. \A h : h \in Hashes <=> h \in Nat /\ h < Pow2[W] BY Bounds DEF Hashes
<1>2. m \in Prefixes <=> m \in {q \in [kind : {"hash"}, bits : Hashes, len : 0..W] : Canonical(q)}
  BY <1>1, Zenon DEF Prefixes
<1>3. m \in Intervals
        <=> m \in {q \in [kind : {"ordered"}, start : Keys, end : 1..Inf] : q.start < q.end}
  BY Bounds DEF Intervals, Keys, Inf
<1> QED BY <1>2, <1>3, Zenon DEF AllRanges

\* What merge_parent_ranges joins, split_child_ranges would have cut.
LEMMA MergedWasSplit ==
  ASSUME NEW kind \in Kinds, NEW r \in Ranges(kind), NEW s \in Ranges(kind),
         NEW m \in MergeParentRanges(r, s)
  PROVE  \E b \in Space(m.kind) : <<r, s>> \in SplitChildRanges(m, b)
<1>3. r \in Ranges(kind) /\ s \in Ranges(kind) BY Zenon
<1>4. r.kind = kind /\ s.kind = kind BY <1>3, IntervalOfPoints, Zenon
<1>5. m \in Ranges(kind) /\ m.kind = kind BY <1>3, MergeJoins, IntervalOfPoints, Zenon
<1>6. CASE kind = "hash"
  <2>1. /\ m = HashPrefix(r.bits, r.len - 1) /\ r.len = s.len /\ r.len # 0
        /\ SetBit(r.bits, W - r.len) = s.bits
    BY <1>4, <1>6, Zenon DEF MergeParentRanges
  <2>2. /\ r \in [kind : {"hash"}, bits : Nat, len : 0..W] /\ Canonical(r)
        /\ s \in [kind : {"hash"}, bits : Nat, len : 0..W] /\ Canonical(s) /\ s.bits < Pow2[W]
    BY <1>3, <1>6, Zenon DEF Ranges, Prefixes
  <2>3. r = HashPrefix(r.bits, r.len) /\ s = HashPrefix(s.bits, r.len)
    BY <2>1, <2>2, Zenon DEF HashPrefix
  <2>4. m.bits = r.bits /\ m.len = r.len - 1 BY <2>1, Zenon DEF HashPrefix
  <2>5. m.len + 1 = r.len /\ ~(m.len >= W) BY <2>1, <2>2, <2>4, Bounds
  <2> DEFINE t == <<r, s, s.bits>>
  <2>6. t[1] = r /\ t[2] = s /\ t[3] = s.bits BY Zenon
  <2>7. t = <<HashPrefix(m.bits, m.len + 1), HashPrefix(SetBit(m.bits, W - (m.len + 1)), m.len + 1),
              SetBit(m.bits, W - (m.len + 1))>>
    BY <2>1, <2>3, <2>4, <2>5, Zenon
  <2>8. t \in SplitMidpoint(m) BY <2>2, <2>5, <2>6, <2>7, Zenon DEF SplitMidpoint
  <2>9. <<t[1], t[2]>> \in SplitChildRanges(m, s.bits)
    BY <1>5, <1>6, <2>6, <2>8, Zenon DEF SplitChildRanges
  <2>10. s.bits \in Space(m.kind) BY <1>5, <1>6, <2>2, Bounds DEF Space, Hashes
  <2> QED BY <2>6, <2>9, <2>10, Zenon
<1>7. CASE kind = "ordered"
  <2>1. m = Ordered(r.start, s.end) /\ r.end = s.start
    BY <1>4, <1>7, Zenon DEF MergeParentRanges, IsAdjacentTo
  <2>2. /\ r \in [kind : {"ordered"}, start : Nat, end : Nat] /\ r.start < r.end
        /\ s \in [kind : {"ordered"}, start : Nat, end : Nat] /\ s.start < s.end /\ s.end <= Inf
    BY <1>3, <1>7, Zenon DEF Ranges, Intervals
  <2>3. r = Ordered(r.start, s.start) /\ s = Ordered(s.start, s.end)
    BY <2>1, <2>2, Zenon DEF Ordered
  <2>4. m.start = r.start /\ m.end = s.end BY <2>1, Zenon DEF Ordered
  <2>5. ~(s.start <= m.start \/ s.start >= m.end) BY <2>1, <2>2, <2>4
  <2>6. <<r, s>> \in SplitAt(m, s.start) BY <2>3, <2>4, <2>5, Zenon DEF SplitAt
  <2>7. s.start \in Space(m.kind) BY <1>5, <1>7, <2>2, Bounds DEF Space, Keys, Inf
  <2>8. <<r, s>> \in SplitChildRanges(m, s.start)
    BY <1>5, <1>7, <2>6, Zenon DEF SplitChildRanges
  <2> QED BY <2>7, <2>8, Zenon
<1> QED BY <1>6, <1>7, Zenon DEF Kinds


\* What split_child_ranges cuts, merge_parent_ranges joins.
LEMMA SplitMerges ==
  ASSUME NEW kind \in Kinds, NEW m \in Ranges(kind), NEW b \in Space(kind),
         NEW t \in SplitChildRanges(m, b)
  PROVE  MergeParentRanges(t[1], t[2]) = {m}
<1>0. PICK r, s : r = t[1] /\ s = t[2] BY Zenon
<1> SUFFICES MergeParentRanges(r, s) = {m}
  BY <1>0, Zenon
<1>1. m.kind = kind BY IntervalOfPoints, Zenon
<1>2. CASE kind = "hash"
  <2> DEFINE half == Pow2[W - (m.len + 1)]
             right == SetBit(m.bits, W - (m.len + 1))
  <2>1. PICK u \in SplitMidpoint(m) : t = <<u[1], u[2]>>
    BY <1>1, <1>2, Zenon DEF SplitChildRanges
  <2>2. m \in Prefixes BY <1>2, Zenon DEF Ranges
  <2>3. m.len < W BY <2>1, <2>2, Halves, Zenon
  <2>4. /\ m.bits \in Nat /\ m.len \in 0..W /\ W \in Nat /\ Canonical(m)
        /\ m = HashPrefix(m.bits, m.len)
    BY <2>2, Bounds, Zenon DEF Prefixes, HashPrefix
  <2>5. ~(m.len >= W) /\ m.len + 1 # 0 /\ (m.len + 1) - 1 = m.len BY <2>3, <2>4
  <2>6. u = <<HashPrefix(m.bits, m.len + 1), HashPrefix(right, m.len + 1), right>>
    BY <2>1, <2>5, Zenon DEF SplitMidpoint
  <2>7. r = HashPrefix(m.bits, m.len + 1) /\ s = HashPrefix(right, m.len + 1) BY <1>0, <2>1, <2>6, Zenon
  <2>8. /\ r.kind = "hash" /\ r.bits = m.bits /\ r.len = m.len + 1
        /\ s.kind = "hash" /\ s.bits = right /\ s.len = m.len + 1
    BY <2>7, Zenon DEF HashPrefix
  <2>9. (m.bits \div half) % 2 = 0
    <3>1. W - (m.len + 1) \in 0..W /\ W - m.len \in 0..W /\ (W - m.len) - 1 = W - (m.len + 1)
          /\ W - m.len # 0
      BY <2>3, <2>4
    <3>2. half \in Nat \ {0} /\ Pow2[W - m.len] = 2 * half
      BY <3>1, Pow2Positive, Pow2Unfolds, Zenon
    <3>3. PICK q \in Nat : m.bits = q * (2 * half) BY <2>2, <3>2, PrefixAligned, Zenon
    <3> HIDE DEF half
    <3>4. m.bits = (2 * q) * half /\ 2 * q \in Nat BY <3>2, <3>3, SMT
    <3>5. m.bits \div half = 2 * q BY <2>4, <3>2, <3>4, Division
    <3>6. (2 * q) % 2 = 0 BY SMT
    <3> QED BY <3>5, <3>6, Zenon
  <2>10. m = HashPrefix(r.bits, r.len - 1) BY <2>4, <2>5, <2>8, Zenon
  <2>11. r.len = s.len /\ r.len # 0 /\ SetBit(r.bits, W - r.len) = s.bits
         /\ (r.bits \div Pow2[W - r.len]) % 2 = 0
    BY <2>5, <2>8, <2>9, Zenon
  <2> QED BY <2>4, <2>8, <2>10, <2>11, Zenon DEF MergeParentRanges
<1>3. CASE kind = "ordered"
  <2>1. t \in SplitAt(m, b) BY <1>1, <1>3, Zenon DEF SplitChildRanges
  <2>2. t = <<Ordered(m.start, b), Ordered(b, m.end)>> BY <2>1, Zenon DEF SplitAt
  <2>3. r = Ordered(m.start, b) /\ s = Ordered(b, m.end) BY <1>0, <2>2, Zenon
  <2>4. /\ r.kind = "ordered" /\ r.start = m.start /\ r.end = b
        /\ s.kind = "ordered" /\ s.start = b /\ s.end = m.end
    BY <2>3, Zenon DEF Ordered
  <2>5. m \in [kind : {"ordered"}, start : Nat, end : Nat]
    BY <1>3, Zenon DEF Ranges, Intervals
  <2>6. m = Ordered(r.start, s.end) BY <2>4, <2>5, Zenon DEF Ordered
  <2> QED BY <2>4, <2>6 DEF MergeParentRanges, IsAdjacentTo
<1> QED BY <1>2, <1>3, Zenon DEF Kinds

LEMMA IInvMergeUndoesSplit == IInv => MergeUndoesSplit
<1> SUFFICES ASSUME IInv PROVE MergeUndoesSplit
  BY Zenon
<1>1. PICK kind \in Kinds : Tiled(tiles, kind) BY Zenon DEF IInv
<1>2. tiles \subseteq Ranges(kind) BY <1>1, Zenon DEF Tiled
<1>3. ASSUME NEW r \in tiles, NEW s \in tiles, NEW m \in MergeParentRanges(r, s)
      PROVE  \E b \in Space(m.kind) : <<r, s>> \in SplitChildRanges(m, b)
  BY <1>2, MergedWasSplit, Zenon
<1>4. ASSUME NEW m \in AllRanges, NEW b \in Space(m.kind), NEW t \in SplitChildRanges(m, b)
      PROVE  MergeParentRanges(t[1], t[2]) = {m}
  <2>1. PICK own \in Kinds : m \in Ranges(own) BY RangesOfAKind, Zenon DEF Ranges, Kinds
  <2>2. m.kind = own BY <2>1, IntervalOfPoints, Zenon
  <2> QED BY <2>1, <2>2, SplitMerges, Zenon
<1> QED BY <1>3, <1>4, Zenon DEF MergeUndoesSplit

\* merge_parent_ranges joins two tiles exactly when split_child_ranges makes them of a range,
\* and gives that range.
THEOREM MergeUndoesSplitHolds == Spec => []MergeUndoesSplit
BY IInvMergeUndoesSplit, Invariance, PTL

-----------------------------------------------------------------------------
(* Ordered ranges in the order of their keys. *)

\* 1..n determines n.
LEMMA SameLength ==
  ASSUME NEW m \in Nat, NEW n \in Nat, 1..m = 1..n
  PROVE  m = n
<1>1. m # 0 => m \in 1..n BY SMT
<1>2. n # 0 => n \in 1..m BY SMT
<1> QED BY <1>1, <1>2

\* How many ranges come before r.
Lower(S, r) == {s \in S : s.start < r.start}
Rank(S, r) == Cardinality(Lower(S, r))

LEMMA Ranks ==
  ASSUME NEW S, IsFiniteSet(S), \A r \in S : r.start \in Nat, NEW n, n = Cardinality(S)
  PROVE  /\ n \in Nat
         /\ \A r \in S : Rank(S, r) \in Nat /\ Rank(S, r) < n
         /\ \A r, s \in S : r.start < s.start => Rank(S, r) < Rank(S, s)
<1>1. n \in Nat BY FS_CardinalityType, Zenon
<1>2. ASSUME NEW r \in S PROVE IsFiniteSet(Lower(S, r)) /\ Rank(S, r) \in Nat /\ Rank(S, r) < n
  <2>1. IsFiniteSet(S \ {r}) /\ Cardinality(S \ {r}) = n - 1 BY FS_RemoveElement, Zenon
  <2>2. r \notin Lower(S, r)
    <3>1. r.start \in Nat BY Zenon
    <3>2. ~(r.start < r.start) BY <3>1
    <3> QED BY <3>2, Zenon DEF Lower
  <2>3. Lower(S, r) \in SUBSET (S \ {r}) BY <2>2, Zenon DEF Lower
  <2>4. IsFiniteSet(Lower(S, r)) /\ Cardinality(Lower(S, r)) <= n - 1 BY <2>1, <2>3, FS_Subset
  <2>5. Cardinality(Lower(S, r)) \in Nat BY <2>4, FS_CardinalityType, Zenon
  <2> QED BY <1>1, <2>4, <2>5 DEF Rank
<1>3. ASSUME NEW r \in S, NEW s \in S, r.start < s.start PROVE Rank(S, r) < Rank(S, s)
  <2>1. Lower(S, r) \in SUBSET Lower(S, s) BY <1>3 DEF Lower
  <2>2. r \in Lower(S, s) /\ r \notin Lower(S, r) BY <1>3 DEF Lower
  <2>3. IsFiniteSet(Lower(S, s)) /\ Rank(S, r) \in Nat /\ Rank(S, s) \in Nat BY <1>2, Zenon
  <2>4. Cardinality(Lower(S, r)) <= Cardinality(Lower(S, s)) /\ Cardinality(Lower(S, s)) # Cardinality(Lower(S, r))
    BY <2>1, <2>2, <2>3, FS_Subset, Zenon
  <2> QED BY <2>3, <2>4 DEF Rank
<1> QED BY <1>1, <1>2, <1>3, Zenon

\* Every place is taken.
LEMMA EveryRank ==
  ASSUME NEW S, IsFiniteSet(S), \A r \in S : r.start \in Nat, NEW n, n = Cardinality(S),
         \A r, s \in S : r.start = s.start => r = s
  PROVE  /\ \A r, s \in S : Rank(S, r) = Rank(S, s) => r = s
         /\ \A i \in 1..n : \E r \in S : Rank(S, r) = i - 1
<1> DEFINE f == [r \in S |-> Rank(S, r) + 1]
<1>1. n \in Nat /\ \A r \in S : Rank(S, r) \in Nat /\ Rank(S, r) < n BY Ranks, Zenon
<1>2. f \in [S -> 1..n] BY <1>1
<1>3. ASSUME NEW r \in S, NEW s \in S, Rank(S, r) = Rank(S, s) PROVE r = s
  <2>1. ~(r.start < s.start) /\ ~(s.start < r.start)
    <3>1. r.start < s.start => Rank(S, r) < Rank(S, s) BY Ranks, Zenon
    <3>2. s.start < r.start => Rank(S, s) < Rank(S, r) BY Ranks, Zenon
    <3>3. Rank(S, r) \in Nat BY <1>1, Zenon
    <3> QED BY <1>3, <3>1, <3>2, <3>3
  <2>2. r.start = s.start BY <2>1
  <2> QED BY <2>2, Zenon
<1>4. ASSUME NEW r \in S, NEW s \in S, f[r] = f[s] PROVE r = s
  <2>1. Rank(S, r) + 1 = Rank(S, s) + 1 BY <1>4, Zenon
  <2>2. Rank(S, r) = Rank(S, s) BY <1>1, <2>1
  <2> QED BY <1>3, <2>2, Zenon
<1>5. f \in Surjection(S, 1..n)
  <2>1. f \in Injection(S, 1..n)
    <3> HIDE DEF f
    <3> QED BY <1>2, <1>4, Zenon DEF Injection, IsInjective
  <2>2. IsFiniteSet(1..n) /\ Cardinality(1..n) = n
    <3>1. 1 \in Int /\ n \in Int BY <1>1
    <3> HIDE DEF f
    <3>2. IsFiniteSet(1..n) BY <3>1, FS_Interval, Zenon
    <3>3. Cardinality(1..n) = IF 1 > n THEN 0 ELSE n - 1 + 1 BY <3>1, FS_Interval, Zenon
    <3> QED BY <1>1, <3>2, <3>3
  <2> HIDE DEF f
  <2> QED BY <2>1, <2>2, FS_Injection, Zenon
<1>6. ASSUME NEW i \in 1..n PROVE \E r \in S : Rank(S, r) = i - 1
  <2>1. PICK r \in S : f[r] = i
    <3> HIDE DEF f
    <3> QED BY <1>5, Zenon DEF Surjection
  <2>2. Rank(S, r) + 1 = i BY <2>1, Zenon
  <2>3. Rank(S, r) = i - 1 BY <1>1, <2>2
  <2> QED BY <2>3, Zenon
<1> QED BY <1>3, <1>6, Zenon

\* Finitely many ranges, told apart by their starts.
Apart(S) ==
    /\ IsFiniteSet(S) /\ \A r \in S : r.start \in Nat
    /\ \A r, s \in S : r.start = s.start => r = s

\* q lists the n ranges of S in ascending order.
Ascending(S, n, q) ==
    /\ n \in Nat /\ Len(q) = n /\ DOMAIN q = 1..n
    /\ \A i \in 1..n : q[i] \in S
    /\ \A r \in S : \E i \in 1..n : q[i] = r
    /\ \A i, j \in 1..n : i < j => q[i].start < q[j].start

\* InKeyOrder lists every range once, in ascending order.
LEMMA KeyOrder ==
  ASSUME NEW S, Apart(S), NEW n, n = Cardinality(S), NEW q, q = InKeyOrder(S)
  PROVE  Ascending(S, n, q)
<1>0. /\ IsFiniteSet(S) /\ \A r \in S : r.start \in Nat
      /\ \A r, s \in S : r.start = s.start => r = s
  BY Zenon DEF Apart
<1>1. n \in Nat /\ \A r \in S : Rank(S, r) \in Nat /\ Rank(S, r) < n BY <1>0, Ranks, Zenon
<1>2. q = [i \in 1..n |-> CHOOSE r \in S : Rank(S, r) = i - 1]
  BY Zenon DEF InKeyOrder, Rank, Lower
<1>3. ASSUME NEW i \in 1..n PROVE q[i] \in S /\ Rank(S, q[i]) = i - 1
  <2>1. \E r \in S : Rank(S, r) = i - 1 BY <1>0, EveryRank
  <2>2. q[i] = CHOOSE r \in S : Rank(S, r) = i - 1 BY <1>2, Zenon
  <2> QED BY <2>1, <2>2, Zenon
<1>4. DOMAIN q = 1..n /\ Len(q) = n
  <2> DEFINE c(i) == CHOOSE r \in S : Rank(S, r) = i - 1
  <2>1. q = [i \in 1..n |-> c(i)] BY <1>2, Zenon
  <2>2. \A i \in 1..n : c(i) \in S BY <1>3, <2>1, Zenon
  <2> HIDE DEF c
  <2>3. q \in [1..n -> S] BY <2>1, <2>2, Zenon
  <2>4. q \in Seq(S) BY <1>1, <2>3
  <2>5. DOMAIN q = 1..n /\ DOMAIN q = 1..Len(q) /\ Len(q) \in Nat BY <2>3, <2>4
  <2> QED BY <1>1, <2>5, SameLength, Zenon
<1>5. ASSUME NEW r \in S PROVE \E i \in 1..n : q[i] = r
  <2> DEFINE i == Rank(S, r) + 1
  <2>1. i \in 1..n /\ i - 1 = Rank(S, r) BY <1>1
  <2>2. q[i] \in S /\ Rank(S, q[i]) = Rank(S, r) BY <1>3, <2>1, Zenon
  <2>3. q[i] = r BY <1>0, <2>2, EveryRank, Zenon
  <2> QED BY <2>1, <2>3, Zenon
<1>6. ASSUME NEW i \in 1..n, NEW j \in 1..n, i < j PROVE q[i].start < q[j].start
  <2>1. q[i] \in S /\ q[j] \in S /\ Rank(S, q[i]) < Rank(S, q[j]) BY <1>1, <1>3, <1>6
  <2>2. q[i].start \in Nat /\ q[j].start \in Nat BY <1>0, <2>1, Zenon
  <2>3. q[i].start # q[j].start BY <1>0, <1>1, <2>1
  <2>4. ~(q[j].start < q[i].start)
    <3>1. q[j].start < q[i].start => Rank(S, q[j]) < Rank(S, q[i]) BY <1>0, <2>1, Ranks, Zenon
    <3> QED BY <1>1, <2>1, <3>1
  <2> QED BY <2>2, <2>3, <2>4
<1> QED BY <1>1, <1>3, <1>4, <1>5, <1>6, Zenon DEF Ascending

\* q lists the n tiles of A, each ending before the next one starts.
Listed(A, n, q) ==
    /\ n \in Nat /\ Len(q) = n /\ DOMAIN q = 1..n
    /\ \A i \in 1..n : /\ q[i] \in A /\ q[i].start \in Nat /\ q[i].end \in Nat
                       /\ q[i].start < q[i].end /\ q[i].end <= Inf
    /\ \A r \in A : \E i \in 1..n : q[i] = r
    /\ \A i, j \in 1..n : i < j => q[i].end <= q[j].start

\* Some tiles of the key space, sorted by their starts.
LEMMA TilesInOrder ==
  ASSUME NEW T, Tiled(T, "ordered"), NEW A \in SUBSET T, NEW n, n = Cardinality(A), NEW q, q = InKeyOrder(A)
  PROVE  Listed(A, n, q)
<1>1. T \subseteq Intervals /\ IsFiniteSet(T) /\ \A r, s \in T : r # s => Hi(r) <= Lo(s) \/ Hi(s) <= Lo(r)
  BY Zenon DEF Tiled, Ranges
<1>2. IsFiniteSet(A) BY <1>1, FS_Subset, Zenon
<1>3. ASSUME NEW r \in A
      PROVE  /\ r.start \in Nat /\ r.end \in Nat /\ r.start < r.end /\ r.end <= Inf
             /\ Lo(r) = r.start /\ Hi(r) = r.end
  BY <1>1, Zenon DEF Intervals, Lo, Hi
<1>4. ASSUME NEW r \in A, NEW s \in A, r # s PROVE r.end <= s.start \/ s.end <= r.start
  <2>1. Hi(r) <= Lo(s) \/ Hi(s) <= Lo(r) BY <1>1, <1>4, Zenon
  <2> QED BY <1>3, <2>1, Zenon
<1>5. ASSUME NEW r \in A, NEW s \in A, r.start = s.start PROVE r = s
  BY <1>3, <1>4, <1>5
<1>6. Apart(A) BY <1>2, <1>3, <1>5, Zenon DEF Apart
<1>7. /\ n \in Nat /\ Len(q) = n /\ DOMAIN q = 1..n
      /\ \A i \in 1..n : q[i] \in A
      /\ \A r \in A : \E i \in 1..n : q[i] = r
      /\ \A i, j \in 1..n : i < j => q[i].start < q[j].start
  <2>1. Ascending(A, n, q) BY <1>6, KeyOrder, Zenon
  <2> QED BY <2>1, Zenon DEF Ascending
<1>8. ASSUME NEW i \in 1..n, NEW j \in 1..n, i < j PROVE q[i].end <= q[j].start
  <2>1. q[i] \in A /\ q[j] \in A /\ q[i].start < q[j].start BY <1>7, <1>8, Zenon
  <2>2. /\ q[i].start \in Nat /\ q[i].end \in Nat /\ q[j].start \in Nat /\ q[j].end \in Nat
        /\ q[j].start < q[j].end
    BY <1>3, <2>1, Zenon
  <2>3. q[i] # q[j] BY <2>1, <2>2
  <2>4. q[i].end <= q[j].start \/ q[j].end <= q[i].start BY <1>4, <2>1, <2>3, Zenon
  <2> QED BY <2>1, <2>2, <2>4
<1>9. \A i \in 1..n : /\ q[i] \in A /\ q[i].start \in Nat /\ q[i].end \in Nat
                      /\ q[i].start < q[i].end /\ q[i].end <= Inf
  BY <1>3, <1>7, Zenon
<1> QED BY <1>7, <1>8, <1>9, Zenon DEF Listed

LEMMA IInvCoverageCheckExact == IInv => CoverageCheckExact
<1> SUFFICES ASSUME IInv, NEW A \in SUBSET {r \in tiles : r.kind = "ordered"}, A # {}
             PROVE  OrderedCoverageComplete(A) <=> UNION {PointsOf(r) : r \in A} = Keys
  BY Zenon DEF CoverageCheckExact
<1> DEFINE q == InKeyOrder(A)
           n == Cardinality(A)
<1>1. Tiled(tiles, "ordered") /\ A \in SUBSET tiles
  <2>1. PICK kind \in Kinds : Tiled(tiles, kind) BY Zenon DEF IInv
  <2>2. PICK r \in A : TRUE BY Zenon
  <2>3. r \in tiles /\ r.kind = "ordered" BY <2>2, Zenon
  <2>4. r.kind = kind BY <2>1, <2>3, IntervalOfPoints, Zenon DEF Tiled
  <2> QED BY <2>1, <2>3, <2>4, Zenon
<1>2. /\ n \in Nat /\ Len(q) = n
      /\ \A i \in 1..n : /\ q[i] \in A /\ q[i].start \in Nat /\ q[i].end \in Nat
                         /\ q[i].start < q[i].end /\ q[i].end <= Inf
      /\ \A r \in A : \E i \in 1..n : q[i] = r
      /\ \A i, j \in 1..n : i < j => q[i].end <= q[j].start
  <2>1. n = Cardinality(A) /\ q = InKeyOrder(A) BY Zenon
  <2> HIDE DEF n, q
  <2>2. Listed(A, n, q) BY <1>1, <2>1, TilesInOrder, Zenon
  <2> QED BY <2>2, Zenon DEF Listed
<1>3. OrderedCoverageComplete(A) <=>
        q[1].start = 0 /\ (\A i \in 1..(n - 1) : q[i].end = q[i + 1].start) /\ q[n].end = Inf
  <2>1. Len(InKeyOrder(A)) = n BY <1>2, Zenon
  <2> QED BY <2>1, Zenon DEF OrderedCoverageComplete, IsAdjacentTo
<1> HIDE DEF q, n
<1>4. 1 \in 1..n /\ n \in 1..n
  <2>1. PICK r \in A : TRUE BY Zenon
  <2>2. PICK i \in 1..n : q[i] = r BY <1>2, <2>1, Zenon
  <2> QED BY <1>2, <2>2
<1>5. ASSUME NEW r \in A PROVE PointsOf(r) = {p \in Nat : r.start <= p /\ p < r.end}
  <2>1. r \in Ranges("ordered") /\ "ordered" \in Kinds BY <1>1, Zenon DEF Tiled, Kinds
  <2>2. r.kind = "ordered" BY <2>1, IntervalOfPoints, Zenon
  <2>3. Lo(r) = r.start /\ Hi(r) = r.end BY <2>2, Zenon DEF Lo, Hi
  <2> QED BY <2>1, <2>3, IntervalOfPoints
<1>6. Keys = {p \in Nat : p < Inf} /\ Inf \in Nat BY Bounds DEF Keys, Inf
<1> DEFINE Covered == UNION {PointsOf(r) : r \in A}
<1>7. ASSUME NEW p
      PROVE  p \in Covered <=> p \in Nat /\ \E i \in 1..n : q[i].start <= p /\ p < q[i].end
  <2>1. ASSUME p \in Covered PROVE p \in Nat /\ \E i \in 1..n : q[i].start <= p /\ p < q[i].end
    <3>1. PICK r \in A : p \in PointsOf(r) BY <2>1, Zenon
    <3>2. PICK i \in 1..n : q[i] = r BY <1>2, Zenon
    <3> QED BY <1>5, <3>1, <3>2, Zenon
  <2>2. ASSUME p \in Nat, NEW i \in 1..n, q[i].start <= p, p < q[i].end PROVE p \in Covered
    <3>1. q[i] \in A BY <1>2, Zenon
    <3>2. p \in PointsOf(q[i]) BY <1>5, <2>2, <3>1, Zenon
    <3> QED BY <3>1, <3>2, Zenon
  <2> QED BY <2>1, <2>2, Zenon
<1> HIDE DEF Covered
<1>8. Covered \subseteq Keys
  <2> SUFFICES ASSUME NEW p \in Covered PROVE p \in Keys
    BY Zenon
  <2>1. p \in Nat BY <1>7, Zenon
  <2>2. PICK i \in 1..n : q[i].start <= p /\ p < q[i].end BY <1>7, Zenon
  <2>3. q[i].end \in Nat /\ q[i].end <= Inf BY <1>2, Zenon
  <2> QED BY <1>6, <2>1, <2>2, <2>3
<1>9. ASSUME q[1].start = 0, \A i \in 1..(n - 1) : q[i].end = q[i + 1].start, q[n].end = Inf
      PROVE  Keys \subseteq Covered
  <2> SUFFICES ASSUME NEW p \in Keys PROVE p \in Covered
    BY Zenon
  <2>1. p \in Nat /\ p < Inf BY <1>6, Zenon
  <2> DEFINE Before == {i \in 1..n : q[i].start <= p}
  <2>2. Before \subseteq Nat /\ 1 \in Before /\ \A i \in Before : i <= n
    BY <1>2, <1>4, <1>9, <2>1
  <2>3. PICK i \in Before : \A j \in Before : j <= i
    <3> HIDE DEF Before
    <3> QED BY <1>2, <2>2, GreatestNat, Zenon
  <2>4. i \in 1..n /\ q[i].start <= p BY <2>3, Zenon
  <2>5. p < q[i].end
    <3>1. CASE i = n BY <1>9, <2>1, <3>1, Zenon
    <3>2. CASE i # n
      <4>1. i \in 1..(n - 1) /\ i + 1 \in 1..n BY <1>2, <2>4, <3>2
      <4>2. i + 1 \notin Before BY <1>2, <2>3, <4>1
      <4>3. ~(q[i + 1].start <= p) /\ q[i + 1].start \in Nat BY <1>2, <4>1, <4>2, Zenon
      <4> QED BY <1>9, <2>1, <4>1, <4>3
    <3> QED BY <3>1, <3>2, Zenon
  <2> QED BY <1>7, <2>1, <2>4, <2>5, Zenon
<1>10. ASSUME Keys \subseteq Covered PROVE q[1].start = 0
  <2>1. 0 \in Keys BY <1>6, Bounds
  <2>2. PICK i \in 1..n : q[i].start <= 0 BY <1>7, <1>10, <2>1, Zenon
  <2>3. q[i].start = 0 BY <1>2, <2>2
  <2>4. CASE i = 1 BY <2>3, <2>4, Zenon
  <2>5. CASE i # 1
    <3>1. 1 < i BY <2>5
    <3>2. q[1].end <= q[i].start BY <1>2, <1>4, <3>1, Zenon
    <3> QED BY <1>2, <1>4, <2>3, <3>2
  <2> QED BY <2>4, <2>5, Zenon
<1>11. ASSUME Keys \subseteq Covered, NEW i \in 1..n, q[i].end # Inf
       PROVE  i + 1 \in 1..n /\ q[i].end = q[i + 1].start
  <2>1. q[i].start \in Nat /\ q[i].end \in Nat /\ q[i].start < q[i].end /\ q[i].end <= Inf
    BY <1>2, Zenon
  <2>2. q[i].end \in Keys BY <1>6, <1>11, <2>1
  <2>3. PICK j \in 1..n : q[j].start <= q[i].end /\ q[i].end < q[j].end
    BY <1>7, <1>11, <2>2, Zenon
  <2>4. /\ q[j].start \in Nat /\ q[j].end \in Nat BY <1>2, Zenon
  <2>5. i < j
    <3>1. j # i BY <2>1, <2>3
    <3>2. ~(j < i)
      <4> SUFFICES ASSUME j < i PROVE FALSE
        BY Zenon
      <4>1. q[j].end <= q[i].start BY <1>2, Zenon
      <4> QED BY <2>1, <2>3, <2>4, <4>1
    <3> QED BY <1>2, <3>1, <3>2
  <2>6. i + 1 \in 1..n BY <1>2, <2>5
  <2>7. q[i].end <= q[i + 1].start
    <3>1. i < i + 1 BY <1>2
    <3> QED BY <1>2, <2>6, <3>1, Zenon
  <2>8. q[i + 1].start <= q[j].start
    <3>1. CASE j = i + 1 BY <2>4, <3>1
    <3>2. CASE j # i + 1
      <4>1. i + 1 < j BY <1>2, <2>5, <3>2
      <4>2. q[i + 1].end <= q[j].start BY <1>2, <2>6, <4>1, Zenon
      <4>3. q[i + 1].start \in Nat /\ q[i + 1].end \in Nat /\ q[i + 1].start < q[i + 1].end
        BY <1>2, <2>6, Zenon
      <4> QED BY <2>4, <4>2, <4>3
    <3> QED BY <3>1, <3>2, Zenon
  <2>9. q[i + 1].start \in Nat BY <1>2, <2>6, Zenon
  <2> QED BY <2>1, <2>3, <2>4, <2>6, <2>7, <2>8, <2>9
<1>12. ASSUME Keys \subseteq Covered
       PROVE  (\A i \in 1..(n - 1) : q[i].end = q[i + 1].start) /\ q[n].end = Inf
  <2>1. q[n].end = Inf
    <3> SUFFICES ASSUME q[n].end # Inf PROVE FALSE
      BY Zenon
    <3>1. n + 1 \in 1..n BY <1>4, <1>11, <1>12, Zenon
    <3> QED BY <1>2, <3>1
  <2>2. ASSUME NEW i \in 1..(n - 1) PROVE q[i].end = q[i + 1].start
    <3>1. i \in 1..n /\ i + 1 \in 1..n /\ i < i + 1 BY <1>2
    <3>2. q[i].end <= q[i + 1].start BY <1>2, <3>1, Zenon
    <3>3. q[i].end # Inf
      <4>1. q[i + 1].start < q[i + 1].end /\ q[i + 1].end <= Inf /\ q[i + 1].start \in Nat /\ q[i + 1].end \in Nat
        BY <1>2, <3>1, Zenon
      <4>2. q[i].end \in Nat BY <1>2, <3>1, Zenon
      <4> QED BY <1>6, <3>2, <4>1, <4>2
    <3> QED BY <1>11, <1>12, <3>1, <3>3, Zenon
  <2> QED BY <2>1, <2>2, Zenon
<1>13. Covered = Keys <=> Keys \subseteq Covered BY <1>8, Zenon
<1> QED BY <1>3, <1>9, <1>10, <1>12, <1>13, Zenon DEF Covered

\* ordered_coverage_complete is true of exactly those sets of active tablets that leave
\* no key out.
THEOREM CoverageCheckExactHolds == Spec => []CoverageCheckExact
BY IInvCoverageCheckExact, Invariance, PTL

LEMMA IInvScanCoversQuery == IInv => ScanCoversQuery
<1> DEFINE ordered == {r \in tiles : r.kind = "ordered"}
<1> SUFFICES ASSUME IInv, NEW start \in Keys, NEW end \in 1..Inf, start < end, NEW visit,
                    visit = TabletsCoveringRange(ordered, start, end)
             PROVE  /\ {visit[i] : i \in DOMAIN visit}
                         = {r \in ordered : PointsOf(r) \cap (start..(end - 1)) # {}}
                    /\ \A i \in 1..(Len(visit) - 1) : visit[i].end <= visit[i + 1].start
  BY Zenon DEF ScanCoversQuery
<1> DEFINE A == {r \in ordered : r.start < end /\ start < r.end}
           n == Cardinality(A)
<1>1. PICK kind \in Kinds : Tiled(tiles, kind) BY Zenon DEF IInv
<1>2. \A r \in tiles : r \in Ranges(kind) /\ r.kind = kind
  BY <1>1, IntervalOfPoints, Zenon DEF Tiled
<1>3. start \in Nat /\ end \in Nat BY Bounds DEF Keys
<1>4. ASSUME NEW r \in ordered PROVE (r.start < end /\ start < r.end) <=> PointsOf(r) \cap (start..(end - 1)) # {}
  <2>1. r.kind = "ordered" /\ r \in Ranges("ordered") BY <1>2, Zenon
  <2>2. Lo(r) = r.start /\ Hi(r) = r.end BY <2>1, Zenon DEF Lo, Hi
  <2>3. /\ r.start \in Nat /\ r.end \in Nat /\ r.start < r.end
        /\ PointsOf(r) = {p \in Nat : r.start <= p /\ p < r.end}
    BY <2>1, <2>2, IntervalOfPoints DEF Kinds
  <2>4. ASSUME NEW p \in PointsOf(r) \cap (start..(end - 1)) PROVE r.start < end /\ start < r.end
    BY <1>3, <2>3, <2>4
  <2>5. ASSUME r.start < end, start < r.end PROVE PointsOf(r) \cap (start..(end - 1)) # {}
    <3>1. CASE r.start <= start
      <4>1. start \in PointsOf(r) /\ start \in start..(end - 1) BY <1>3, <2>3, <2>5, <3>1
      <4> QED BY <4>1, Zenon
    <3>2. CASE start < r.start
      <4>1. r.start \in PointsOf(r) /\ r.start \in start..(end - 1) BY <1>3, <2>3, <2>5, <3>2
      <4> QED BY <4>1, Zenon
    <3> QED BY <1>3, <2>3, <3>1, <3>2
  <2> QED BY <2>4, <2>5, Zenon
<1>5. visit = InKeyOrder(A) BY Zenon DEF TabletsCoveringRange
<1>6. A = {r \in ordered : PointsOf(r) \cap (start..(end - 1)) # {}} BY <1>4, Zenon
<1>7. CASE kind = "hash"
  <2>1. A = {} BY <1>2, <1>7, Zenon
  <2>2. n = 0 BY <2>1, FS_EmptySet, Zenon
  <2>3. DOMAIN visit = 1..0 BY <1>5, <2>2, Zenon DEF InKeyOrder
  <2>4. visit \in Seq({})
    <3>1. visit = [i \in 1..0 |-> 0]
      <4>1. visit = [i \in DOMAIN visit |-> visit[i]] BY <1>5, Zenon DEF InKeyOrder
      <4> HIDE DEF A
      <4> QED BY <2>3, <4>1
    <3> QED BY <3>1
  <2>5. Len(visit) = 0
    <3>1. Len(visit) \in Nat /\ DOMAIN visit = 1..Len(visit) BY <2>4
    <3> HIDE DEF A
    <3> QED BY <2>3, <3>1, SameLength, Zenon
  <2>6. {visit[i] : i \in DOMAIN visit} = {} BY <2>3
  <2>7. \A i : i \notin 1..(Len(visit) - 1)
    <3> HIDE DEF A, n
    <3>1. \A k : k = 0 => \A i : i \notin 1..(k - 1) OBVIOUS
    <3> QED BY <2>5, <3>1, Zenon
  <2> HIDE DEF A
  <2> QED BY <1>6, <2>1, <2>6, <2>7, Zenon
<1>8. CASE kind = "ordered"
  <2>1. PICK B : B = A BY Zenon
  <2>2. PICK m : m = Cardinality(B) BY Zenon
  <2>3. Tiled(tiles, "ordered") /\ B \in SUBSET tiles BY <1>1, <1>8, <2>1, Zenon
  <2>4. visit = InKeyOrder(B) BY <1>5, <2>1, Zenon
  <2> HIDE DEF A
  <2>5. Listed(B, m, visit) BY <2>2, <2>3, <2>4, TilesInOrder, Zenon
  <2>6. {visit[i] : i \in DOMAIN visit} = B BY <2>5, Zenon DEF Listed
  <2>7. ASSUME NEW i \in 1..(m - 1) PROVE visit[i].end <= visit[i + 1].start
    <3>1. i \in 1..m /\ i + 1 \in 1..m /\ i < i + 1 BY <2>5 DEF Listed
    <3> QED BY <2>5, <3>1, Zenon DEF Listed
  <2>8. Len(visit) = m BY <2>5, Zenon DEF Listed
  <2> QED BY <1>6, <2>1, <2>6, <2>7, <2>8, Zenon
<1> QED BY <1>7, <1>8, Zenon DEF Kinds

\* A scan planned by tablets_covering_range visits every tablet that has a key of the
\* query, no other, and each after those with smaller keys.
THEOREM ScanCoversQueryHolds == Spec => []ScanCoversQuery
BY IInvScanCoversQuery, Invariance, PTL
=============================================================================
