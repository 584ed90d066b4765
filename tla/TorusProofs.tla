------------------------------ MODULE TorusProofs ------------------------------
(***************************************************************************)
(* Proofs about TorusWalk, for tori of all sizes, walks of any length and  *)
(* whatever devices the nodes are given.                                   *)
(***************************************************************************)
EXTENDS TorusWalk, FiniteSetTheorems, WellFoundedInduction, TLAPS

(* Numbers.                                                                *)

LEMMA ProductType ==
  ASSUME NEW m \in Nat, NEW n \in Nat
  PROVE  m * n \in Nat
OBVIOUS

LEMMA ProductPositive ==
  ASSUME NEW m \in Nat \ {0}, NEW n \in Nat \ {0}
  PROVE  m * n \in Nat \ {0}
OBVIOUS

LEMMA ProductMonotone ==
  ASSUME NEW m \in Nat, NEW n \in Nat, NEW d \in Nat, m <= n
  PROVE  m * d <= n * d
OBVIOUS

LEMMA ProductAssociates ==
  ASSUME NEW l \in Nat, NEW m \in Nat, NEW n \in Nat
  PROVE  l * m * n = l * (m * n)
OBVIOUS

LEMMA Remainder ==
  ASSUME NEW n \in Nat, NEW d \in Nat \ {0}
  PROVE  n % d \in 0 .. d - 1 /\ n \div d \in Nat /\ n = (n \div d) * d + (n % d)
OBVIOUS

\* Division by d undoes multiplication by d, as long as the rest is below it.
LEMMA DivisionUnique ==
  ASSUME NEW q \in Nat, NEW d \in Nat \ {0}, NEW r \in 0 .. d - 1
  PROVE  (q * d + r) \div d = q /\ (q * d + r) % d = r
<1> DEFINE n == q * d + r
           p == n \div d
           s == n % d
<1>1. n \in Nat
  BY ProductType
<1>2. s \in 0 .. d - 1 /\ p \in Nat /\ n = p * d + s
  BY <1>1, Remainder
<1> HIDE DEF p, s
<1>3. p * d + s = q * d + r
  BY <1>2
<1>4. p = q
  <2>1. ~ p + 1 <= q
    <3>1. SUFFICES ASSUME p + 1 <= q PROVE FALSE
      OBVIOUS
    <3>2. (p + 1) * d <= q * d
      BY <1>2, <3>1, ProductMonotone
    <3>3. (p + 1) * d = p * d + d
      BY <1>2
    <3>4. p * d \in Nat /\ q * d \in Nat
      BY <1>2, ProductType
    <3> QED
      BY <1>2, <1>3, <3>2, <3>3, <3>4
  <2>2. ~ q + 1 <= p
    <3>1. SUFFICES ASSUME q + 1 <= p PROVE FALSE
      OBVIOUS
    <3>2. (q + 1) * d <= p * d
      BY <1>2, <3>1, ProductMonotone
    <3>3. (q + 1) * d = q * d + d
      OBVIOUS
    <3>4. p * d \in Nat /\ q * d \in Nat
      BY <1>2, ProductType
    <3> QED
      BY <1>2, <1>3, <3>2, <3>3, <3>4
  <2> QED
    BY <1>2, <2>1, <2>2
<1>5. s = r
  <2>1. p * d \in Nat /\ p * d = q * d
    BY <1>2, <1>4, ProductType
  <2> QED
    BY <1>2, <1>3, <2>1
<1> QED
  BY <1>4, <1>5 DEF p, s

LEMMA RemainderOfSmall ==
  ASSUME NEW d \in Nat \ {0}, NEW r \in 0 .. d - 1
  PROVE  r % d = r
<1>1. (0 * d + r) % d = r
  BY DivisionUnique
<1>2. 0 * d + r = r
  OBVIOUS
<1> QED
  BY <1>1, <1>2

\* A rest, and a quotient below m, make a number below m * d.
LEMMA MixedBound ==
  ASSUME NEW m \in Nat \ {0}, NEW d \in Nat \ {0}, NEW q \in 0 .. m - 1, NEW r \in 0 .. d - 1
  PROVE  q * d + r \in 0 .. m * d - 1
<1>1. (q + 1) * d <= m * d
  BY ProductMonotone
<1>2. (q + 1) * d = q * d + d
  OBVIOUS
<1>3. q * d \in Nat /\ m * d \in Nat
  BY ProductType
<1> QED
  BY <1>1, <1>2, <1>3
------------------------------------------------------------------------------
(* One axis.                                                               *)

\* Both ways round, without the remainder.
LEMMA WrapCases ==
  ASSUME NEW size \in Nat \ {0}, NEW c \in 0 .. size - 1
  PROVE  /\ wrap_neighbor(c, size, TRUE) = IF c + 1 = size THEN 0 ELSE c + 1
         /\ wrap_neighbor(c, size, FALSE) = IF c = 0 THEN size - 1 ELSE c - 1
<1>1. (c + 1) % size = IF c + 1 = size THEN 0 ELSE c + 1
  <2>1. CASE c + 1 = size
    <3>1. (1 * size + 0) % size = 0
      BY DivisionUnique
    <3> QED
      BY <2>1, <3>1
  <2>2. CASE c + 1 # size
    <3>1. c + 1 \in 0 .. size - 1
      BY <2>2
    <3> QED
      BY <2>2, <3>1, RemainderOfSmall
  <2> QED
    BY <2>1, <2>2
<1>2. (c + size - 1) % size = IF c = 0 THEN size - 1 ELSE c - 1
  <2>1. CASE c = 0
    <3>1. (0 * size + (size - 1)) % size = size - 1
      BY DivisionUnique
    <3>2. 0 * size + (size - 1) = c + size - 1
      BY <2>1
    <3> QED
      BY <2>1, <3>1, <3>2
  <2>2. CASE c # 0
    <3>1. (1 * size + (c - 1)) % size = c - 1
      BY <2>2, DivisionUnique
    <3>2. 1 * size + (c - 1) = c + size - 1
      OBVIOUS
    <3> QED
      BY <2>2, <3>1, <3>2
  <2> QED
    BY <2>1, <2>2
<1> QED
  BY <1>1, <1>2 DEF wrap_neighbor

LEMMA WrapType ==
  ASSUME NEW size \in Nat \ {0}, NEW c \in 0 .. size - 1, NEW positive \in BOOLEAN
  PROVE  wrap_neighbor(c, size, positive) \in 0 .. size - 1
<1>1. CASE positive = TRUE
  <2>1. wrap_neighbor(c, size, positive) = IF c + 1 = size THEN 0 ELSE c + 1
    BY <1>1, WrapCases
  <2> QED
    BY <2>1
<1>2. CASE positive = FALSE
  <2>1. wrap_neighbor(c, size, positive) = IF c = 0 THEN size - 1 ELSE c - 1
    BY <1>2, WrapCases
  <2> QED
    BY <2>1
<1> QED
  BY <1>1, <1>2

LEMMA DistanceType ==
  ASSUME NEW size \in Nat \ {0}, NEW a \in 0 .. size - 1, NEW b \in 0 .. size - 1
  PROVE  torus_distance(a, b, size) \in Nat /\ (torus_distance(a, b, size) = 0 <=> a = b)
BY DEF torus_distance

\* A step along the axis takes no one further away by more than one hop.
LEMMA OneHop ==
  ASSUME NEW size \in Nat \ {0}, NEW a \in 0 .. size - 1, NEW b \in 0 .. size - 1,
         NEW positive \in BOOLEAN
  PROVE  torus_distance(a, wrap_neighbor(b, size, positive), size) <= torus_distance(a, b, size) + 1
<1>1. CASE positive = TRUE
  <2>1. wrap_neighbor(b, size, positive) = IF b + 1 = size THEN 0 ELSE b + 1
    BY <1>1, WrapCases
  <2> QED
    BY <2>1 DEF torus_distance
<1>2. CASE positive = FALSE
  <2>1. wrap_neighbor(b, size, positive) = IF b = 0 THEN size - 1 ELSE b - 1
    BY <1>2, WrapCases
  <2> QED
    BY <2>1 DEF torus_distance
<1> QED
  BY <1>1, <1>2

\* From a place away from a, one of the two ways along the axis leads nearer.
LEMMA OneHopNearer ==
  ASSUME NEW size \in Nat \ {0}, NEW a \in 0 .. size - 1, NEW b \in 0 .. size - 1, a # b
  PROVE  \E positive \in BOOLEAN :
           torus_distance(a, wrap_neighbor(b, size, positive), size) = torus_distance(a, b, size) - 1
<1> DEFINE up == IF b + 1 = size THEN 0 ELSE b + 1
           down == IF b = 0 THEN size - 1 ELSE b - 1
<1>1. \/ torus_distance(a, up, size) = torus_distance(a, b, size) - 1
      \/ torus_distance(a, down, size) = torus_distance(a, b, size) - 1
  BY DEF torus_distance
<1>2. wrap_neighbor(b, size, TRUE) = up /\ wrap_neighbor(b, size, FALSE) = down
  BY WrapCases
<1> QED
  BY <1>1, <1>2
------------------------------------------------------------------------------
(* Places on a torus.                                                      *)

LEMMA SizeTypes ==
  ASSUME NEW d \in Dimensions
  PROVE  /\ Len(d) \in {2, 3}
         /\ d[1] \in Nat \ {0} /\ d[2] \in Nat \ {0}
         /\ Len(d) = 3 => d[3] \in Nat \ {0}
<1>1. d \in Seq(Nat) /\ IsTorus(d)
  BY TorusWalkAssumption
<1>2. \A i \in 1 .. Len(d) : d[i] \in Nat \ {0}
  BY <1>1 DEF IsTorus
<1> QED
  BY <1>1, <1>2 DEF IsTorus

LEMMA FlatPlace ==
  ASSUME NEW d \in Dimensions, Len(d) = 2, NEW c \in Coordinates(d)
  PROVE  /\ c[1] \in 0 .. d[1] - 1 /\ c[2] \in 0 .. d[2] - 1
         /\ c = <<c[1], c[2]>> /\ Len(c) = 2
BY DEF Coordinates

LEMMA DeepPlace ==
  ASSUME NEW d \in Dimensions, Len(d) = 3, NEW c \in Coordinates(d)
  PROVE  /\ c[1] \in 0 .. d[1] - 1 /\ c[2] \in 0 .. d[2] - 1 /\ c[3] \in 0 .. d[3] - 1
         /\ c = <<c[1], c[2], c[3]>> /\ Len(c) = 3
BY DEF Coordinates

\* A rank is below the number of nodes, and rank_to_coords undoes node_rank.
LEMMA FlatRank ==
  ASSUME NEW d \in Dimensions, Len(d) = 2, NEW c \in Coordinates(d)
  PROVE  /\ linear_index(c, d) \in 0 .. total_nodes(d) - 1
         /\ from_linear(linear_index(c, d), d) = c
<1>0. d[1] \in Nat \ {0} /\ d[2] \in Nat \ {0}
  BY SizeTypes
<1>1. /\ c[1] \in 0 .. d[1] - 1 /\ c[2] \in 0 .. d[2] - 1
      /\ c = <<c[1], c[2]>> /\ Len(c) = 2
  BY FlatPlace
<1> DEFINE n == c[2] * d[1] + c[1]
<1>2. n \in 0 .. d[2] * d[1] - 1
  BY <1>0, <1>1, MixedBound
<1>3. n \div d[1] = c[2] /\ n % d[1] = c[1]
  BY <1>0, <1>1, DivisionUnique
<1>4. linear_index(c, d) = n
  <2>1. linear_index(c, d) = 0 + c[2] * d[1] + c[1]
    BY <1>1 DEF linear_index
  <2> QED
    BY <1>0, <1>1, <2>1, ProductType
<1>5. total_nodes(d) = d[2] * d[1]
  <2>1. total_nodes(d) = d[1] * d[2] * 1
    BY DEF total_nodes
  <2> QED
    BY <1>0, <2>1
<1>6. from_linear(n, d) = <<n % d[1], n \div d[1]>>
  BY DEF from_linear
<1> HIDE DEF n
<1> QED
  BY <1>1, <1>2, <1>3, <1>4, <1>5, <1>6

LEMMA DeepRank ==
  ASSUME NEW d \in Dimensions, Len(d) = 3, NEW c \in Coordinates(d)
  PROVE  /\ linear_index(c, d) \in 0 .. total_nodes(d) - 1
         /\ from_linear(linear_index(c, d), d) = c
<1>0. d[1] \in Nat \ {0} /\ d[2] \in Nat \ {0} /\ d[3] \in Nat \ {0}
  BY SizeTypes
<1>1. /\ c[1] \in 0 .. d[1] - 1 /\ c[2] \in 0 .. d[2] - 1 /\ c[3] \in 0 .. d[3] - 1
      /\ c = <<c[1], c[2], c[3]>> /\ Len(c) = 3
  BY DeepPlace
<1> DEFINE plane == d[1] * d[2]
           rem == c[2] * d[1] + c[1]
           n == c[3] * plane + rem
<1>2. plane \in Nat \ {0} /\ plane = d[2] * d[1]
  BY <1>0, ProductPositive
<1>3. rem \in 0 .. plane - 1
  <2>1. rem \in 0 .. d[2] * d[1] - 1
    BY <1>0, <1>1, MixedBound
  <2> QED
    BY <1>2, <2>1
<1>4. rem \div d[1] = c[2] /\ rem % d[1] = c[1]
  BY <1>0, <1>1, DivisionUnique
<1>5. linear_index(c, d) = n
  <2>1. linear_index(c, d) = c[3] * d[1] * d[2] + c[2] * d[1] + c[1]
    BY <1>1 DEF linear_index
  <2>2. c[3] * d[1] * d[2] = c[3] * plane
    <3>1. c[3] \in Nat /\ d[1] \in Nat /\ d[2] \in Nat
      BY <1>0, <1>1
    <3> QED
      BY <3>1, ProductAssociates
  <2>3. c[3] * plane \in Nat /\ c[2] * d[1] \in Nat
    BY <1>0, <1>1, <1>2, ProductType
  <2> QED
    BY <1>1, <2>1, <2>2, <2>3
<1>6. total_nodes(d) = d[3] * plane
  <2>1. total_nodes(d) = d[1] * d[2] * d[3]
    BY DEF total_nodes
  <2> QED
    BY <1>0, <2>1
<1> HIDE DEF plane, rem
<1>7. n \in 0 .. d[3] * plane - 1
  BY <1>0, <1>1, <1>2, <1>3, MixedBound
<1>8. n \div plane = c[3] /\ n % plane = rem
  BY <1>0, <1>1, <1>2, <1>3, DivisionUnique
<1> HIDE DEF n
<1>9. c[3] % d[3] = c[3]
  BY <1>0, <1>1, RemainderOfSmall
<1>10. from_linear(n, d)
         = <<(n % plane) % d[1], (n % plane) \div d[1], (n \div plane) % d[3]>>
  BY DEF from_linear, plane
<1>11. from_linear(n, d) = <<c[1], c[2], c[3]>>
  BY <1>4, <1>8, <1>9, <1>10
<1> QED
  BY <1>1, <1>5, <1>6, <1>7, <1>11

LEMMA RankUndone ==
  ASSUME NEW d \in Dimensions, NEW c \in Coordinates(d)
  PROVE  /\ linear_index(c, d) \in 0 .. total_nodes(d) - 1
         /\ from_linear(linear_index(c, d), d) = c
<1>1. Len(d) \in {2, 3}
  BY SizeTypes
<1> QED
  BY <1>1, FlatRank, DeepRank

\* neighbor moves one coordinate one place around its axis.
LEMMA FlatNeighbor ==
  ASSUME NEW d \in Dimensions, Len(d) = 2, NEW c \in Coordinates(d), NEW positive \in BOOLEAN
  PROVE  /\ neighbor(c, d, 0, positive) = <<wrap_neighbor(c[1], d[1], positive), c[2]>>
         /\ neighbor(c, d, 1, positive) = <<c[1], wrap_neighbor(c[2], d[2], positive)>>
<1>1. c = <<c[1], c[2]>> /\ Len(c) = 2
  BY FlatPlace
<1> DEFINE w(i) == wrap_neighbor(c[i], d[i], positive)
<1>2. neighbor(c, d, 0, positive) = [c EXCEPT ![1] = w(1)]
  BY <1>1 DEF neighbor
<1>3. neighbor(c, d, 1, positive) = [c EXCEPT ![2] = w(2)]
  BY <1>1 DEF neighbor
<1> HIDE DEF w
<1>4. [c EXCEPT ![1] = w(1)] = <<w(1), c[2]>> /\ [c EXCEPT ![2] = w(2)] = <<c[1], w(2)>>
  BY <1>1
<1> QED
  BY <1>2, <1>3, <1>4 DEF w

LEMMA DeepNeighbor ==
  ASSUME NEW d \in Dimensions, Len(d) = 3, NEW c \in Coordinates(d), NEW positive \in BOOLEAN
  PROVE  /\ neighbor(c, d, 0, positive) = <<wrap_neighbor(c[1], d[1], positive), c[2], c[3]>>
         /\ neighbor(c, d, 1, positive) = <<c[1], wrap_neighbor(c[2], d[2], positive), c[3]>>
         /\ neighbor(c, d, 2, positive) = <<c[1], c[2], wrap_neighbor(c[3], d[3], positive)>>
<1>1. c = <<c[1], c[2], c[3]>> /\ Len(c) = 3
  BY DeepPlace
<1> DEFINE w(i) == wrap_neighbor(c[i], d[i], positive)
<1>2. neighbor(c, d, 0, positive) = [c EXCEPT ![1] = w(1)]
  BY <1>1 DEF neighbor
<1>3. neighbor(c, d, 1, positive) = [c EXCEPT ![2] = w(2)]
  BY <1>1 DEF neighbor
<1>4. neighbor(c, d, 2, positive) = [c EXCEPT ![3] = w(3)]
  BY <1>1 DEF neighbor
<1> HIDE DEF w
<1>5. /\ [c EXCEPT ![1] = w(1)] = <<w(1), c[2], c[3]>>
      /\ [c EXCEPT ![2] = w(2)] = <<c[1], w(2), c[3]>>
      /\ [c EXCEPT ![3] = w(3)] = <<c[1], c[2], w(3)>>
  BY <1>1
<1> QED
  BY <1>2, <1>3, <1>4, <1>5 DEF w

\* A distance is the sum of those along the axes, before and after a step.
LEMMA FlatDistances ==
  ASSUME NEW d \in Dimensions, Len(d) = 2, NEW a \in Coordinates(d), NEW c \in Coordinates(d),
         NEW positive \in BOOLEAN
  PROVE  LET D(i) == torus_distance(a[i], c[i], d[i])
             E(i) == torus_distance(a[i], wrap_neighbor(c[i], d[i], positive), d[i])
         IN  /\ \A i \in 1 .. 2 : D(i) \in Nat /\ E(i) \in Nat
             /\ compute_hop_distance(a, c, d) = D(1) + D(2)
             /\ compute_hop_distance(a, neighbor(c, d, 0, positive), d) = E(1) + D(2)
             /\ compute_hop_distance(a, neighbor(c, d, 1, positive), d) = D(1) + E(2)
<1> DEFINE D(i) == torus_distance(a[i], c[i], d[i])
           w(i) == wrap_neighbor(c[i], d[i], positive)
           E(i) == torus_distance(a[i], w(i), d[i])
<1>0. d[1] \in Nat \ {0} /\ d[2] \in Nat \ {0}
  BY SizeTypes
<1>1. /\ a[1] \in 0 .. d[1] - 1 /\ a[2] \in 0 .. d[2] - 1
      /\ c[1] \in 0 .. d[1] - 1 /\ c[2] \in 0 .. d[2] - 1
  BY FlatPlace
<1>2. w(1) \in 0 .. d[1] - 1 /\ w(2) \in 0 .. d[2] - 1
  BY <1>0, <1>1, WrapType
<1>3. D(1) \in Nat /\ D(2) \in Nat
  BY <1>0, <1>1, DistanceType
<1>4. E(1) \in Nat /\ E(2) \in Nat
  BY <1>0, <1>1, <1>2, DistanceType
<1>5. compute_hop_distance(a, c, d) = D(1) + D(2)
  BY <1>3 DEF compute_hop_distance
<1>6. compute_hop_distance(a, neighbor(c, d, 0, positive), d) = E(1) + D(2)
  <2>1. neighbor(c, d, 0, positive) = <<w(1), c[2]>>
    BY FlatNeighbor
  <2>2. compute_hop_distance(a, <<w(1), c[2]>>, d) = E(1) + D(2)
    BY <1>3, <1>4 DEF compute_hop_distance
  <2> QED
    BY <2>1, <2>2
<1>7. compute_hop_distance(a, neighbor(c, d, 1, positive), d) = D(1) + E(2)
  <2>1. neighbor(c, d, 1, positive) = <<c[1], w(2)>>
    BY FlatNeighbor
  <2>2. compute_hop_distance(a, <<c[1], w(2)>>, d) = D(1) + E(2)
    BY <1>3, <1>4 DEF compute_hop_distance
  <2> QED
    BY <2>1, <2>2
<1>8. \A i \in 1 .. 2 : D(i) \in Nat /\ E(i) \in Nat
  <2>1. \A i \in 1 .. 2 : i = 1 \/ i = 2
    OBVIOUS
  <2> QED
    BY <1>3, <1>4, <2>1
<1> QED
  BY <1>5, <1>6, <1>7, <1>8

LEMMA DeepDistances ==
  ASSUME NEW d \in Dimensions, Len(d) = 3, NEW a \in Coordinates(d), NEW c \in Coordinates(d),
         NEW positive \in BOOLEAN
  PROVE  LET D(i) == torus_distance(a[i], c[i], d[i])
             E(i) == torus_distance(a[i], wrap_neighbor(c[i], d[i], positive), d[i])
         IN  /\ \A i \in 1 .. 3 : D(i) \in Nat /\ E(i) \in Nat
             /\ compute_hop_distance(a, c, d) = D(1) + D(2) + D(3)
             /\ compute_hop_distance(a, neighbor(c, d, 0, positive), d) = E(1) + D(2) + D(3)
             /\ compute_hop_distance(a, neighbor(c, d, 1, positive), d) = D(1) + E(2) + D(3)
             /\ compute_hop_distance(a, neighbor(c, d, 2, positive), d) = D(1) + D(2) + E(3)
<1> DEFINE D(i) == torus_distance(a[i], c[i], d[i])
           w(i) == wrap_neighbor(c[i], d[i], positive)
           E(i) == torus_distance(a[i], w(i), d[i])
<1>0. d[1] \in Nat \ {0} /\ d[2] \in Nat \ {0} /\ d[3] \in Nat \ {0}
  BY SizeTypes
<1>1. /\ a[1] \in 0 .. d[1] - 1 /\ a[2] \in 0 .. d[2] - 1 /\ a[3] \in 0 .. d[3] - 1
      /\ c[1] \in 0 .. d[1] - 1 /\ c[2] \in 0 .. d[2] - 1 /\ c[3] \in 0 .. d[3] - 1
  BY DeepPlace
<1>2. w(1) \in 0 .. d[1] - 1 /\ w(2) \in 0 .. d[2] - 1 /\ w(3) \in 0 .. d[3] - 1
  BY <1>0, <1>1, WrapType
<1>3. D(1) \in Nat /\ D(2) \in Nat /\ D(3) \in Nat
  BY <1>0, <1>1, DistanceType
<1>4. E(1) \in Nat /\ E(2) \in Nat /\ E(3) \in Nat
  BY <1>0, <1>1, <1>2, DistanceType
<1>5. compute_hop_distance(a, c, d) = D(1) + D(2) + D(3)
  BY <1>3 DEF compute_hop_distance
<1>6. compute_hop_distance(a, neighbor(c, d, 0, positive), d) = E(1) + D(2) + D(3)
  <2>1. neighbor(c, d, 0, positive) = <<w(1), c[2], c[3]>>
    BY DeepNeighbor
  <2>2. compute_hop_distance(a, <<w(1), c[2], c[3]>>, d) = E(1) + D(2) + D(3)
    BY <1>3, <1>4 DEF compute_hop_distance
  <2> QED
    BY <2>1, <2>2
<1>7. compute_hop_distance(a, neighbor(c, d, 1, positive), d) = D(1) + E(2) + D(3)
  <2>1. neighbor(c, d, 1, positive) = <<c[1], w(2), c[3]>>
    BY DeepNeighbor
  <2>2. compute_hop_distance(a, <<c[1], w(2), c[3]>>, d) = D(1) + E(2) + D(3)
    BY <1>3, <1>4 DEF compute_hop_distance
  <2> QED
    BY <2>1, <2>2
<1>8. compute_hop_distance(a, neighbor(c, d, 2, positive), d) = D(1) + D(2) + E(3)
  <2>1. neighbor(c, d, 2, positive) = <<c[1], c[2], w(3)>>
    BY DeepNeighbor
  <2>2. compute_hop_distance(a, <<c[1], c[2], w(3)>>, d) = D(1) + D(2) + E(3)
    BY <1>3, <1>4 DEF compute_hop_distance
  <2> QED
    BY <2>1, <2>2
<1>9. \A i \in 1 .. 3 : D(i) \in Nat /\ E(i) \in Nat
  <2>1. \A i \in 1 .. 3 : i = 1 \/ i = 2 \/ i = 3
    OBVIOUS
  <2> QED
    BY <1>3, <1>4, <2>1
<1> QED
  BY <1>5, <1>6, <1>7, <1>8, <1>9

\* A neighbour is a place of the torus, and at most one hop further from anywhere.
LEMMA FlatStep ==
  ASSUME NEW d \in Dimensions, Len(d) = 2, NEW a \in Coordinates(d), NEW c \in Coordinates(d),
         NEW axis \in Axes(d), NEW positive \in BOOLEAN
  PROVE  /\ neighbor(c, d, axis, positive) \in Coordinates(d)
         /\ compute_hop_distance(a, neighbor(c, d, axis, positive), d)
              <= compute_hop_distance(a, c, d) + 1
<1> DEFINE D(i) == torus_distance(a[i], c[i], d[i])
           w(i) == wrap_neighbor(c[i], d[i], positive)
           E(i) == torus_distance(a[i], w(i), d[i])
<1>0. /\ d[1] \in Nat \ {0} /\ d[2] \in Nat \ {0}
      /\ axis \in {0, 1}
  BY SizeTypes DEF Axes
<1>1. /\ a[1] \in 0 .. d[1] - 1 /\ a[2] \in 0 .. d[2] - 1
      /\ c[1] \in 0 .. d[1] - 1 /\ c[2] \in 0 .. d[2] - 1
  BY FlatPlace
<1>2. neighbor(c, d, axis, positive) \in Coordinates(d)
  <2>1. w(1) \in 0 .. d[1] - 1 /\ w(2) \in 0 .. d[2] - 1
    BY <1>0, <1>1, WrapType
  <2>2. neighbor(c, d, axis, positive) \in {<<w(1), c[2]>>, <<c[1], w(2)>>}
    BY <1>0, FlatNeighbor
  <2> HIDE DEF w
  <2> QED
    BY <1>1, <2>1, <2>2 DEF Coordinates
<1>3. E(1) <= D(1) + 1 /\ E(2) <= D(2) + 1
  BY <1>0, <1>1, OneHop
<1>4. /\ \A i \in 1 .. 2 : D(i) \in Nat /\ E(i) \in Nat
      /\ compute_hop_distance(a, c, d) = D(1) + D(2)
      /\ compute_hop_distance(a, neighbor(c, d, 0, positive), d) = E(1) + D(2)
      /\ compute_hop_distance(a, neighbor(c, d, 1, positive), d) = D(1) + E(2)
  BY FlatDistances
<1> HIDE DEF D, E
<1> QED
  BY <1>0, <1>2, <1>3, <1>4

LEMMA DeepStep ==
  ASSUME NEW d \in Dimensions, Len(d) = 3, NEW a \in Coordinates(d), NEW c \in Coordinates(d),
         NEW axis \in Axes(d), NEW positive \in BOOLEAN
  PROVE  /\ neighbor(c, d, axis, positive) \in Coordinates(d)
         /\ compute_hop_distance(a, neighbor(c, d, axis, positive), d)
              <= compute_hop_distance(a, c, d) + 1
<1> DEFINE D(i) == torus_distance(a[i], c[i], d[i])
           w(i) == wrap_neighbor(c[i], d[i], positive)
           E(i) == torus_distance(a[i], w(i), d[i])
<1>0. /\ d[1] \in Nat \ {0} /\ d[2] \in Nat \ {0} /\ d[3] \in Nat \ {0}
      /\ axis \in {0, 1, 2}
  BY SizeTypes DEF Axes
<1>1. /\ a[1] \in 0 .. d[1] - 1 /\ a[2] \in 0 .. d[2] - 1 /\ a[3] \in 0 .. d[3] - 1
      /\ c[1] \in 0 .. d[1] - 1 /\ c[2] \in 0 .. d[2] - 1 /\ c[3] \in 0 .. d[3] - 1
  BY DeepPlace
<1>2. neighbor(c, d, axis, positive) \in Coordinates(d)
  <2>1. w(1) \in 0 .. d[1] - 1 /\ w(2) \in 0 .. d[2] - 1 /\ w(3) \in 0 .. d[3] - 1
    BY <1>0, <1>1, WrapType
  <2>2. neighbor(c, d, axis, positive) \in {<<w(1), c[2], c[3]>>, <<c[1], w(2), c[3]>>, <<c[1], c[2], w(3)>>}
    BY <1>0, DeepNeighbor
  <2> HIDE DEF w
  <2> QED
    BY <1>1, <2>1, <2>2 DEF Coordinates
<1>3. E(1) <= D(1) + 1 /\ E(2) <= D(2) + 1 /\ E(3) <= D(3) + 1
  BY <1>0, <1>1, OneHop
<1>4. /\ \A i \in 1 .. 3 : D(i) \in Nat /\ E(i) \in Nat
      /\ compute_hop_distance(a, c, d) = D(1) + D(2) + D(3)
      /\ compute_hop_distance(a, neighbor(c, d, 0, positive), d) = E(1) + D(2) + D(3)
      /\ compute_hop_distance(a, neighbor(c, d, 1, positive), d) = D(1) + E(2) + D(3)
      /\ compute_hop_distance(a, neighbor(c, d, 2, positive), d) = D(1) + D(2) + E(3)
  BY DeepDistances
<1> HIDE DEF D, E
<1> QED
  BY <1>0, <1>2, <1>3, <1>4

LEMMA StepOnTorus ==
  ASSUME NEW d \in Dimensions, NEW a \in Coordinates(d), NEW c \in Coordinates(d),
         NEW axis \in Axes(d), NEW positive \in BOOLEAN
  PROVE  /\ neighbor(c, d, axis, positive) \in Coordinates(d)
         /\ compute_hop_distance(a, neighbor(c, d, axis, positive), d)
              <= compute_hop_distance(a, c, d) + 1
<1>1. Len(d) \in {2, 3}
  BY SizeTypes
<1> QED
  BY <1>1, FlatStep, DeepStep

\* From every place but a itself, some neighbour is one hop nearer to a.
LEMMA FlatNearer ==
  ASSUME NEW d \in Dimensions, Len(d) = 2, NEW a \in Coordinates(d), NEW c \in Coordinates(d), c # a
  PROVE  \E axis \in Axes(d), positive \in BOOLEAN :
           compute_hop_distance(a, neighbor(c, d, axis, positive), d)
             = compute_hop_distance(a, c, d) - 1
<1>0. d[1] \in Nat \ {0} /\ d[2] \in Nat \ {0} /\ Axes(d) = {0, 1}
  BY SizeTypes DEF Axes
<1>1. /\ a[1] \in 0 .. d[1] - 1 /\ a[2] \in 0 .. d[2] - 1
      /\ c[1] \in 0 .. d[1] - 1 /\ c[2] \in 0 .. d[2] - 1
      /\ a = <<a[1], a[2]>> /\ c = <<c[1], c[2]>>
  BY FlatPlace
<1>2. CASE a[1] # c[1]
  <2>1. PICK positive \in BOOLEAN :
          torus_distance(a[1], wrap_neighbor(c[1], d[1], positive), d[1])
            = torus_distance(a[1], c[1], d[1]) - 1
    BY <1>0, <1>1, <1>2, OneHopNearer
  <2> DEFINE D(i) == torus_distance(a[i], c[i], d[i])
             E(i) == torus_distance(a[i], wrap_neighbor(c[i], d[i], positive), d[i])
  <2>2. /\ \A i \in 1 .. 2 : D(i) \in Nat /\ E(i) \in Nat
        /\ compute_hop_distance(a, c, d) = D(1) + D(2)
        /\ compute_hop_distance(a, neighbor(c, d, 0, positive), d) = E(1) + D(2)
    BY FlatDistances
  <2>3. E(1) = D(1) - 1
    BY <2>1
  <2> HIDE DEF D, E
  <2>4. compute_hop_distance(a, neighbor(c, d, 0, positive), d) = compute_hop_distance(a, c, d) - 1
    BY <2>2, <2>3
  <2> QED
    BY <1>0, <2>4
<1>3. CASE a[2] # c[2]
  <2>1. PICK positive \in BOOLEAN :
          torus_distance(a[2], wrap_neighbor(c[2], d[2], positive), d[2])
            = torus_distance(a[2], c[2], d[2]) - 1
    BY <1>0, <1>1, <1>3, OneHopNearer
  <2> DEFINE D(i) == torus_distance(a[i], c[i], d[i])
             E(i) == torus_distance(a[i], wrap_neighbor(c[i], d[i], positive), d[i])
  <2>2. /\ \A i \in 1 .. 2 : D(i) \in Nat /\ E(i) \in Nat
        /\ compute_hop_distance(a, c, d) = D(1) + D(2)
        /\ compute_hop_distance(a, neighbor(c, d, 1, positive), d) = D(1) + E(2)
    BY FlatDistances
  <2>3. E(2) = D(2) - 1
    BY <2>1
  <2> HIDE DEF D, E
  <2>4. compute_hop_distance(a, neighbor(c, d, 1, positive), d) = compute_hop_distance(a, c, d) - 1
    BY <2>2, <2>3
  <2> QED
    BY <1>0, <2>4
<1>4. a[1] # c[1] \/ a[2] # c[2]
  BY <1>1
<1> QED
  BY <1>2, <1>3, <1>4

LEMMA DeepNearer ==
  ASSUME NEW d \in Dimensions, Len(d) = 3, NEW a \in Coordinates(d), NEW c \in Coordinates(d), c # a
  PROVE  \E axis \in Axes(d), positive \in BOOLEAN :
           compute_hop_distance(a, neighbor(c, d, axis, positive), d)
             = compute_hop_distance(a, c, d) - 1
<1>0. d[1] \in Nat \ {0} /\ d[2] \in Nat \ {0} /\ d[3] \in Nat \ {0} /\ Axes(d) = {0, 1, 2}
  BY SizeTypes DEF Axes
<1>1. /\ a[1] \in 0 .. d[1] - 1 /\ a[2] \in 0 .. d[2] - 1 /\ a[3] \in 0 .. d[3] - 1
      /\ c[1] \in 0 .. d[1] - 1 /\ c[2] \in 0 .. d[2] - 1 /\ c[3] \in 0 .. d[3] - 1
      /\ a = <<a[1], a[2], a[3]>> /\ c = <<c[1], c[2], c[3]>>
  BY DeepPlace
<1>2. CASE a[1] # c[1]
  <2>1. PICK positive \in BOOLEAN :
          torus_distance(a[1], wrap_neighbor(c[1], d[1], positive), d[1])
            = torus_distance(a[1], c[1], d[1]) - 1
    BY <1>0, <1>1, <1>2, OneHopNearer
  <2> DEFINE D(i) == torus_distance(a[i], c[i], d[i])
             E(i) == torus_distance(a[i], wrap_neighbor(c[i], d[i], positive), d[i])
  <2>2. /\ \A i \in 1 .. 3 : D(i) \in Nat /\ E(i) \in Nat
        /\ compute_hop_distance(a, c, d) = D(1) + D(2) + D(3)
        /\ compute_hop_distance(a, neighbor(c, d, 0, positive), d) = E(1) + D(2) + D(3)
    BY DeepDistances
  <2>3. E(1) = D(1) - 1
    BY <2>1
  <2> HIDE DEF D, E
  <2>4. compute_hop_distance(a, neighbor(c, d, 0, positive), d) = compute_hop_distance(a, c, d) - 1
    BY <2>2, <2>3
  <2> QED
    BY <1>0, <2>4
<1>3. CASE a[2] # c[2]
  <2>1. PICK positive \in BOOLEAN :
          torus_distance(a[2], wrap_neighbor(c[2], d[2], positive), d[2])
            = torus_distance(a[2], c[2], d[2]) - 1
    BY <1>0, <1>1, <1>3, OneHopNearer
  <2> DEFINE D(i) == torus_distance(a[i], c[i], d[i])
             E(i) == torus_distance(a[i], wrap_neighbor(c[i], d[i], positive), d[i])
  <2>2. /\ \A i \in 1 .. 3 : D(i) \in Nat /\ E(i) \in Nat
        /\ compute_hop_distance(a, c, d) = D(1) + D(2) + D(3)
        /\ compute_hop_distance(a, neighbor(c, d, 1, positive), d) = D(1) + E(2) + D(3)
    BY DeepDistances
  <2>3. E(2) = D(2) - 1
    BY <2>1
  <2> HIDE DEF D, E
  <2>4. compute_hop_distance(a, neighbor(c, d, 1, positive), d) = compute_hop_distance(a, c, d) - 1
    BY <2>2, <2>3
  <2> QED
    BY <1>0, <2>4
<1>4. CASE a[3] # c[3]
  <2>1. PICK positive \in BOOLEAN :
          torus_distance(a[3], wrap_neighbor(c[3], d[3], positive), d[3])
            = torus_distance(a[3], c[3], d[3]) - 1
    BY <1>0, <1>1, <1>4, OneHopNearer
  <2> DEFINE D(i) == torus_distance(a[i], c[i], d[i])
             E(i) == torus_distance(a[i], wrap_neighbor(c[i], d[i], positive), d[i])
  <2>2. /\ \A i \in 1 .. 3 : D(i) \in Nat /\ E(i) \in Nat
        /\ compute_hop_distance(a, c, d) = D(1) + D(2) + D(3)
        /\ compute_hop_distance(a, neighbor(c, d, 2, positive), d) = D(1) + D(2) + E(3)
    BY DeepDistances
  <2>3. E(3) = D(3) - 1
    BY <2>1
  <2> HIDE DEF D, E
  <2>4. compute_hop_distance(a, neighbor(c, d, 2, positive), d) = compute_hop_distance(a, c, d) - 1
    BY <2>2, <2>3
  <2> QED
    BY <1>0, <2>4
<1>5. a[1] # c[1] \/ a[2] # c[2] \/ a[3] # c[3]
  BY <1>1
<1> QED
  BY <1>2, <1>3, <1>4, <1>5

LEMMA NearerOnTorus ==
  ASSUME NEW d \in Dimensions, NEW a \in Coordinates(d), NEW c \in Coordinates(d), c # a
  PROVE  \E axis \in Axes(d), positive \in BOOLEAN :
           compute_hop_distance(a, neighbor(c, d, axis, positive), d)
             = compute_hop_distance(a, c, d) - 1
<1>1. Len(d) \in {2, 3}
  BY SizeTypes
<1> QED
  BY <1>1, FlatNearer, DeepNearer

LEMMA PlaceLength ==
  ASSUME NEW d \in Dimensions, NEW c \in Coordinates(d)
  PROVE  Len(c) = Len(d) /\ Len(c) \in {2, 3}
BY SizeTypes, FlatPlace, DeepPlace

\* neighbors lists both ways along every axis.
LEMMA NeighborListed ==
  ASSUME NEW d \in Dimensions, NEW c \in Coordinates(d), NEW axis \in Axes(d), NEW positive \in BOOLEAN
  PROVE  \E k \in 1 .. 2 * Len(c) : neighbors(c, d)[k] = neighbor(c, d, axis, positive)
<1>0. Len(c) \in {2, 3} /\ axis \in Nat /\ axis < Len(c)
  BY PlaceLength DEF Axes
<1> DEFINE k == IF positive THEN 2 * axis + 1 ELSE 2 * axis + 2
<1>1. k \in 1 .. 2 * Len(c)
  BY <1>0
<1>2. (k - 1) \div 2 = axis
  BY <1>0
<1>3. (k % 2 = 1) = positive
  <2>1. CASE positive = TRUE
    <3>1. (2 * axis + 1) % 2 = 1
      BY <1>0
    <3> QED
      BY <2>1, <3>1
  <2>2. CASE positive = FALSE
    <3>1. (2 * axis + 2) % 2 = 0
      BY <1>0
    <3> QED
      BY <2>2, <3>1
  <2> QED
    BY <2>1, <2>2
<1> HIDE DEF k
<1>4. neighbors(c, d)[k] = neighbor(c, d, (k - 1) \div 2, k % 2 = 1)
  BY <1>1 DEF neighbors
<1>5. neighbors(c, d)[k] = neighbor(c, d, axis, positive)
  BY <1>2, <1>3, <1>4, Zenon
<1> QED
  BY <1>1, <1>5
------------------------------------------------------------------------------
(* Walks.                                                                  *)

LEMMA MeshNotEmpty ==
  ASSUME NEW devices, Len(devices) \in Nat, NewMesh(devices) # <<>>
  PROVE  Len(NewMesh(devices)[1]) > 0
BY DEF NewMesh

LEMMA DiscoveredNotEmpty ==
  ASSUME NEW config \in DiscoveryConfigs, discover_mesh(config) # <<>>
  PROVE  Len(discover_mesh(config)[1]) > 0
<1> DEFINE count == unwrap_or(config.num_devices_override, 8)
           devices == discover_manual(config)
           full == [k \in DOMAIN devices |->
                     [devices[k] EXCEPT !.nvlink_peers = Others(devices[k].id, Len(devices))]]
<1>1. config.num_devices_override \in Seq(Nat)
  BY TorusWalkAssumption
<1>2. count \in Nat
  BY <1>1 DEF unwrap_or
<1>3. DOMAIN devices = 1 .. count
  BY DEF discover_manual
<1>4. Len(devices) = count
  <2>1. PICK f : devices = [k \in 1 .. count |-> f[k]]
    <3>1. devices = [k \in 1 .. count |-> devices[k]]
      BY DEF discover_manual
    <3> QED
      BY <3>1
  <2> HIDE DEF devices, count
  <2> QED
    BY <1>2, <2>1
<1>5. Len(full) = count
  <2> HIDE DEF devices, count
  <2> QED
    BY <1>2, <1>3
<1>6. discover_mesh(config) = NewMesh(IF config.assume_full_mesh THEN full ELSE devices)
  BY DEF discover_mesh
<1> HIDE DEF devices, full, count
<1>7. Len(IF config.assume_full_mesh THEN full ELSE devices) \in Nat
  BY <1>2, <1>4, <1>5
<1> QED
  BY <1>6, <1>7, MeshNotEmpty

LEMMA HybridTypes ==
  ASSUME NEW d \in Dimensions, NEW per_node \in DevicesPerNode
  PROVE  /\ DOMAIN NewHybrid(d, per_node)[1] = 0 .. total_nodes(d) - 1
         /\ \A rank \in 0 .. total_nodes(d) - 1 : Len(NewHybrid(d, per_node)[1][rank]) > 0
<1>1. IsTorus(d) /\ per_node \in Nat /\ per_node > 0
  BY TorusWalkAssumption
<1>2. NewHybrid(d, per_node)[1] = [rank \in 0 .. total_nodes(d) - 1 |-> full_mesh(per_node)[1]]
  BY <1>1 DEF NewHybrid
<1>3. full_mesh(per_node)[1] = [k \in 1 .. per_node |-> simple(k - 1, per_node)]
  BY <1>1 DEF full_mesh
<1>4. Len(full_mesh(per_node)[1]) > 0
  BY <1>1, <1>3
<1> QED
  BY <1>2, <1>4

LEMMA InitTypes == Init => TypeOK
<1> SUFFICES ASSUME Init PROVE TypeOK
  OBVIOUS
<1>1. PICK per_node \in DevicesPerNode : nodes = NewHybrid(dims, per_node)[1]
  BY DEF Init
<1>2. dims \in Dimensions
  BY DEF Init
<1>3. /\ DOMAIN nodes = 0 .. total_nodes(dims) - 1
      /\ \A rank \in DOMAIN nodes : Len(nodes[rank]) > 0
  BY <1>1, <1>2, HybridTypes
<1>4. 0 \in 0 .. MaxHops
  BY TorusWalkAssumption
<1> QED
  BY <1>2, <1>3, <1>4 DEF Init, TypeOK

LEMMA EquipTypes == TypeOK /\ Equip => TypeOK'
<1> SUFFICES ASSUME TypeOK, Equip PROVE TypeOK'
  OBVIOUS
<1>1. PICK mesh \in {NewMesh(devices) : devices \in DeviceLists} \cup
                   {discover_mesh(config) : config \in DiscoveryConfigs} :
        mesh # <<>> /\ nodes' = [nodes EXCEPT ![linear_index(at, dims)] = mesh[1]]
  BY DEF Equip
<1>2. Len(mesh[1]) > 0
  <2>1. CASE mesh \in {NewMesh(devices) : devices \in DeviceLists}
    <3>1. PICK devices \in DeviceLists : mesh = NewMesh(devices)
      BY <2>1
    <3>2. devices \in Seq(Device)
      BY TorusWalkAssumption
    <3>3. Len(devices) \in Nat
      BY <3>2
    <3> QED
      BY <1>1, <3>1, <3>3, MeshNotEmpty
  <2>2. CASE mesh \in {discover_mesh(config) : config \in DiscoveryConfigs}
    BY <1>1, <2>2, DiscoveredNotEmpty
  <2> QED
    BY <2>1, <2>2
<1>3. dims' = dims /\ origin' = origin /\ at' = at /\ hops' = hops
  BY DEF Equip
<1>4. /\ DOMAIN nodes' = DOMAIN nodes
      /\ \A rank \in DOMAIN nodes' : Len(nodes'[rank]) > 0
  BY <1>1, <1>2 DEF TypeOK
<1> QED
  BY <1>3, <1>4 DEF TypeOK

LEMMA StepTypes ==
  ASSUME TypeOK, NEW axis \in Axes(dims), NEW positive \in BOOLEAN, Step(axis, positive)
  PROVE  TypeOK'
<1>1. neighbor(at, dims, axis, positive) \in Coordinates(dims)
  BY StepOnTorus DEF TypeOK
<1>2. hops + 1 \in 0 .. MaxHops
  BY TorusWalkAssumption DEF TypeOK, Step
<1> QED
  BY <1>1, <1>2 DEF TypeOK, Step

LEMMA NextTypes == TypeOK /\ [Next]_vars => TypeOK'
<1> SUFFICES ASSUME TypeOK, [Next]_vars PROVE TypeOK'
  OBVIOUS
<1>1. CASE Equip
  BY <1>1, EquipTypes
<1>2. ASSUME NEW axis \in Axes(dims), NEW positive \in BOOLEAN, Step(axis, positive)
      PROVE  TypeOK'
  BY <1>2, StepTypes
<1>3. CASE UNCHANGED vars
  BY <1>3 DEF TypeOK, vars
<1> QED
  BY <1>1, <1>2, <1>3 DEF Next

\* The types of the walk, on every torus: the place reached is always a node of
\* the torus (torus.rs: neighbor wraps around), and every node keeps a device.
THEOREM TypeCorrect == Spec => []TypeOK
<1>1. Init => TypeOK
  BY InitTypes
<1>2. TypeOK /\ [Next]_vars => TypeOK'
  BY NextTypes
<1> QED
  BY <1>1, <1>2, PTL DEF Spec

\* Ranks number the nodes, and rank_to_coords undoes node_rank, on every torus
\* (torus.rs: linear_index, from_linear).
THEOREM RanksNumber == Spec => []RanksNumberNodes
<1>1. TypeOK => RanksNumberNodes
  <2> SUFFICES ASSUME TypeOK PROVE RanksNumberNodes
    OBVIOUS
  <2>1. /\ linear_index(at, dims) \in 0 .. total_nodes(dims) - 1
        /\ from_linear(linear_index(at, dims), dims) = at
        /\ from_linear(linear_index(origin, dims), dims) = origin
    BY RankUndone DEF TypeOK
  <2> QED
    BY <2>1 DEF RanksNumberNodes
<1> QED
  BY <1>1, TypeCorrect, PTL

\* No walk is shorter than the distance between its ends.
NoShorterWalk == compute_hop_distance(origin, at, dims) <= hops

LEMMA InitDistance == Init => NoShorterWalk
<1> SUFFICES ASSUME Init PROVE compute_hop_distance(origin, at, dims) = 0 /\ hops = 0
  BY DEF NoShorterWalk
<1>1. dims \in Dimensions /\ origin \in Coordinates(dims) /\ at = origin /\ hops = 0
  BY DEF Init
<1>2. Len(dims) \in {2, 3} /\ dims[1] \in Nat \ {0} /\ dims[2] \in Nat \ {0}
      /\ (Len(dims) = 3 => dims[3] \in Nat \ {0})
  BY <1>1, SizeTypes
<1> DEFINE D(i) == torus_distance(origin[i], origin[i], dims[i])
<1>3. CASE Len(dims) = 2
  <2>1. D(1) = 0 /\ D(2) = 0
    BY <1>1, <1>2, <1>3, FlatPlace, DistanceType
  <2>2. compute_hop_distance(origin, origin, dims) = D(1) + D(2) + 0
    BY <1>3, <2>1 DEF compute_hop_distance
  <2> QED
    BY <1>1, <2>1, <2>2
<1>4. CASE Len(dims) = 3
  <2>1. D(1) = 0 /\ D(2) = 0 /\ D(3) = 0
    BY <1>1, <1>2, <1>4, DeepPlace, DistanceType
  <2>2. compute_hop_distance(origin, origin, dims) = D(1) + D(2) + D(3)
    BY <1>4, <2>1 DEF compute_hop_distance
  <2> QED
    BY <1>1, <2>1, <2>2
<1> QED
  BY <1>2, <1>3, <1>4

LEMMA DistanceIsNumber ==
  ASSUME NEW d \in Dimensions, NEW a \in Coordinates(d), NEW c \in Coordinates(d)
  PROVE  compute_hop_distance(a, c, d) \in Nat
<1> DEFINE D(i) == torus_distance(a[i], c[i], d[i])
<1>1. CASE Len(d) = 2
  <2>1. D(1) \in Nat /\ D(2) \in Nat
    BY <1>1, SizeTypes, FlatPlace, DistanceType
  <2> QED
    BY <1>1, <2>1 DEF compute_hop_distance
<1>2. CASE Len(d) = 3
  <2>1. D(1) \in Nat /\ D(2) \in Nat /\ D(3) \in Nat
    BY <1>2, SizeTypes, DeepPlace, DistanceType
  <2> QED
    BY <1>2, <2>1 DEF compute_hop_distance
<1> QED
  BY <1>1, <1>2, SizeTypes

LEMMA NextDistance == TypeOK /\ NoShorterWalk /\ [Next]_vars => NoShorterWalk'
<1> SUFFICES ASSUME TypeOK, NoShorterWalk, [Next]_vars PROVE NoShorterWalk'
  OBVIOUS
<1>1. CASE Equip
  BY <1>1 DEF Equip, NoShorterWalk
<1>2. ASSUME NEW axis \in Axes(dims), NEW positive \in BOOLEAN, Step(axis, positive)
      PROVE  NoShorterWalk'
  <2>1. /\ at' = neighbor(at, dims, axis, positive)
        /\ hops' = hops + 1 /\ dims' = dims /\ origin' = origin
    BY <1>2 DEF Step
  <2>2. neighbor(at, dims, axis, positive) \in Coordinates(dims)
        /\ compute_hop_distance(origin, neighbor(at, dims, axis, positive), dims)
              <= compute_hop_distance(origin, at, dims) + 1
    BY StepOnTorus DEF TypeOK
  <2>3. /\ compute_hop_distance(origin, at, dims) \in Nat
        /\ compute_hop_distance(origin, neighbor(at, dims, axis, positive), dims) \in Nat
        /\ hops \in Nat
    BY <2>2, DistanceIsNumber DEF TypeOK
  <2> QED
    BY <2>1, <2>2, <2>3 DEF NoShorterWalk
<1>3. CASE UNCHANGED vars
  BY <1>3 DEF vars, NoShorterWalk
<1> QED
  BY <1>1, <1>2, <1>3 DEF Next

\* From everywhere but the origin, node_neighbors finds a node one hop nearer.
LEMMA NearerFound ==
  ASSUME TypeOK, at # origin
  PROVE  \E found \in node_neighbors(nodes, at, dims) :
           compute_hop_distance(origin, found[1], dims) = compute_hop_distance(origin, at, dims) - 1
<1>1. PICK axis \in Axes(dims), positive \in BOOLEAN :
        compute_hop_distance(origin, neighbor(at, dims, axis, positive), dims)
          = compute_hop_distance(origin, at, dims) - 1
  BY NearerOnTorus DEF TypeOK
<1> DEFINE n == neighbor(at, dims, axis, positive)
<1>2. n \in Coordinates(dims)
  BY StepOnTorus DEF TypeOK
<1>3. linear_index(n, dims) \in DOMAIN nodes
  BY <1>2, RankUndone DEF TypeOK
<1>4. node_at(nodes, n, dims) # <<>>
  <2>1. node_at(nodes, n, dims) = <<nodes[linear_index(n, dims)]>>
    BY <1>3 DEF node_at
  <2> QED
    BY <2>1
<1>5. \E k \in 1 .. 2 * Len(at) : neighbors(at, dims)[k] = n
  BY NeighborListed DEF TypeOK
<1> HIDE DEF n
<1>6. <<n, node_at(nodes, n, dims)[1]>> \in node_neighbors(nodes, at, dims)
  BY <1>4, <1>5 DEF node_neighbors
<1>7. compute_hop_distance(origin, n, dims) = compute_hop_distance(origin, at, dims) - 1
  BY <1>1 DEF n
<1> QED
  BY <1>6, <1>7

\* compute_hop_distance (placement.rs) is the length of a shortest walk, on every
\* torus: no walk is shorter, and some neighbour always leads on.
THEOREM DistanceIsShortest == Spec => []HopDistanceIsShortest
<1>1. Init => NoShorterWalk
  BY InitDistance
<1>2. TypeOK /\ NoShorterWalk /\ [Next]_vars => NoShorterWalk'
  BY NextDistance
<1>3. TypeOK /\ NoShorterWalk => HopDistanceIsShortest
  BY NearerFound DEF NoShorterWalk, HopDistanceIsShortest
<1> QED
  BY <1>1, <1>2, <1>3, TypeCorrect, PTL DEF Spec
------------------------------------------------------------------------------
(* The numbers of the devices.                                             *)

\* Induction over the natural numbers, stated of a set: the least number left out
\* is neither 0 nor comes after another.
LEMMA SetInduction ==
  ASSUME NEW S, 0 \in S, \A n \in Nat : n \in S => n + 1 \in S
  PROVE  Nat \subseteq S
<1> DEFINE Less == OpToRel(<, Nat)
           Left == Nat \ S
<1>1. \A m, n \in Nat : m < n => <<m, n>> \in Less
  BY Zenon DEF OpToRel
<1>2. IsWellFoundedOn(Less, Nat)
  BY NatLessThanWellFounded, Zenon
<1> HIDE DEF Less
<1>3. SUFFICES ASSUME Left # {} PROVE FALSE
  OBVIOUS
<1>4. PICK n \in Left : \A m \in Left : <<m, n>> \notin Less
  BY <1>2, <1>3, WFMin
<1>5. n - 1 \in Left /\ n - 1 < n
  OBVIOUS
<1> QED
  BY <1>1, <1>4, <1>5

\* The sum over the nodes, by its equation: it is any function of the sets of
\* nodes that grows by the devices of a node when the node joins the set.
Sums(g, ns) ==
  /\ g = [s \in SUBSET DOMAIN ns |-> g[s]]
  /\ g[{}] = 0
  /\ \A s \in SUBSET DOMAIN ns : \A rank \in s : g[s] = Len(ns[rank]) + g[s \ {rank}]

LEMMA SumFound ==
  ASSUME NEW ns, IsFiniteSet(DOMAIN ns), NEW g, Sums(g, ns)
  PROVE  total_devices(ns) = g[DOMAIN ns]
<1> DEFINE D == DOMAIN ns
           One(s) == CHOOSE rank \in s : TRUE
           Is(h) == h = [s \in SUBSET D |->
                           IF s = {} THEN 0 ELSE Len(ns[One(s)]) + h[s \ {One(s)}]]
           iter == CHOOSE h : Is(h)
<1>1. total_devices(ns) = iter[D]
  BY DEF total_devices, MapThenSumSet, MapThenFoldSet
<1>2. \A s \in SUBSET D : s # {} => One(s) \in s
  OBVIOUS
<1> HIDE DEF One
<1>3. Is(g)
  <2>1. ASSUME NEW s \in SUBSET D
        PROVE  g[s] = IF s = {} THEN 0 ELSE Len(ns[One(s)]) + g[s \ {One(s)}]
    BY <1>2 DEF Sums
  <2>2. g = [s \in SUBSET D |-> g[s]]
    BY DEF Sums
  <2> QED
    BY <2>1, <2>2
<1>4. Is(iter)
  BY <1>3
<1> HIDE DEF iter
<1>5. \A s \in SUBSET D : iter[s] = IF s = {} THEN 0 ELSE Len(ns[One(s)]) + iter[s \ {One(s)}]
  BY <1>4
<1> DEFINE Good == {n \in Nat : \A s \in SUBSET D : Cardinality(s) = n => iter[s] = g[s]}
<1>6. \A s \in SUBSET D : IsFiniteSet(s) /\ Cardinality(s) \in Nat
  BY FS_Subset, FS_CardinalityType
<1>7. 0 \in Good
  <2> SUFFICES ASSUME NEW s \in SUBSET D, Cardinality(s) = 0 PROVE iter[s] = g[s]
    OBVIOUS
  <2>1. s = {}
    BY <1>6, FS_EmptySet
  <2> QED
    BY <1>5, <2>1 DEF Sums
<1>8. ASSUME NEW n \in Nat, n \in Good PROVE n + 1 \in Good
  <2> SUFFICES ASSUME NEW s \in SUBSET D, Cardinality(s) = n + 1 PROVE iter[s] = g[s]
    OBVIOUS
  <2>1. s # {}
    BY <1>6, FS_EmptySet
  <2> DEFINE rest == s \ {One(s)}
  <2>2. One(s) \in s /\ rest \in SUBSET D
    BY <1>2, <2>1
  <2>3. Cardinality(rest) = Cardinality(s) - 1
    BY <1>6, <2>2, FS_RemoveElement
  <2>4. Cardinality(rest) = n
    BY <2>3
  <2>5. iter[rest] = g[rest]
    BY <1>8, <2>2, <2>4
  <2>6. iter[s] = Len(ns[One(s)]) + iter[rest]
    BY <1>5, <2>1
  <2>7. g[s] = Len(ns[One(s)]) + g[rest]
    BY <2>2 DEF Sums
  <2> QED
    BY <2>5, <2>6, <2>7
<1> HIDE DEF Good
<1>9. Nat \subseteq Good
  BY <1>7, <1>8, SetInduction
<1>10. Cardinality(D) \in Nat /\ D \in SUBSET D
  BY <1>6
<1> QED
  BY <1>1, <1>9, <1>10 DEF Good
------------------------------------------------------------------------------
LEMMA QuotientBound ==
  ASSUME NEW m \in Nat \ {0}, NEW d \in Nat \ {0}, NEW n \in 0 .. m * d - 1
  PROVE  n \div d \in 0 .. m - 1
<1> DEFINE q == n \div d
           r == n % d
<1>1. m * d \in Nat /\ n \in Nat
  BY ProductType
<1>2. r \in 0 .. d - 1 /\ q \in Nat /\ n = q * d + r
  BY <1>1, Remainder
<1> HIDE DEF q, r
<1>3. q * d \in Nat
  BY <1>2, ProductType
<1>4. ~ m <= q
  <2> SUFFICES ASSUME m <= q PROVE FALSE
    OBVIOUS
  <2>1. m * d <= q * d
    BY <1>2, ProductMonotone
  <2> QED
    BY <1>1, <1>2, <1>3, <2>1
<1>5. q \in 0 .. m - 1
  BY <1>2, <1>4
<1> QED
  BY <1>5 DEF q

\* The place from_linear names is on the torus, and has that rank.
LEMMA FlatPlaceOf ==
  ASSUME NEW d \in Dimensions, Len(d) = 2, NEW r \in 0 .. total_nodes(d) - 1
  PROVE  from_linear(r, d) \in Coordinates(d) /\ linear_index(from_linear(r, d), d) = r
<1>0. d[1] \in Nat \ {0} /\ d[2] \in Nat \ {0}
  BY SizeTypes
<1>1. total_nodes(d) = d[2] * d[1]
  <2>1. total_nodes(d) = d[1] * d[2] * 1
    BY DEF total_nodes
  <2> QED
    BY <1>0, <2>1
<1>2. r \in Nat /\ r \in 0 .. d[2] * d[1] - 1
  BY <1>0, <1>1, ProductType
<1> DEFINE x == r % d[1]
           y == r \div d[1]
<1>3. x \in 0 .. d[1] - 1 /\ r = y * d[1] + x
  BY <1>0, <1>2, Remainder
<1>4. y \in 0 .. d[2] - 1
  BY <1>0, <1>2, QuotientBound
<1>5. from_linear(r, d) = <<x, y>>
  BY DEF from_linear
<1> HIDE DEF x, y
<1>6. <<x, y>> \in Coordinates(d)
  BY <1>3, <1>4 DEF Coordinates
<1>7. linear_index(<<x, y>>, d) = r
  <2>1. linear_index(<<x, y>>, d) = 0 + y * d[1] + x
    BY DEF linear_index
  <2>2. y * d[1] \in Nat
    BY <1>0, <1>4, ProductType
  <2> QED
    BY <1>3, <2>1, <2>2
<1> QED
  BY <1>5, <1>6, <1>7

LEMMA DeepPlaceOf ==
  ASSUME NEW d \in Dimensions, Len(d) = 3, NEW r \in 0 .. total_nodes(d) - 1
  PROVE  from_linear(r, d) \in Coordinates(d) /\ linear_index(from_linear(r, d), d) = r
<1>0. d[1] \in Nat \ {0} /\ d[2] \in Nat \ {0} /\ d[3] \in Nat \ {0}
  BY SizeTypes
<1> DEFINE plane == d[1] * d[2]
<1>1. plane \in Nat \ {0} /\ plane = d[2] * d[1]
  BY <1>0, ProductPositive
<1>2. total_nodes(d) = d[3] * plane
  <2>1. total_nodes(d) = d[1] * d[2] * d[3]
    BY DEF total_nodes
  <2> QED
    BY <1>0, <2>1
<1> DEFINE rem == r % plane
           x == rem % d[1]
           y == rem \div d[1]
           z == r \div plane
<1>10. from_linear(r, d) = <<x, y, z % d[3]>>
  BY DEF from_linear
<1> HIDE DEF plane
<1>3. r \in Nat /\ r \in 0 .. d[3] * plane - 1
  BY <1>0, <1>1, <1>2, ProductType
<1>4. rem \in 0 .. plane - 1 /\ r = z * plane + rem
  BY <1>1, <1>3, Remainder
<1>5. z \in 0 .. d[3] - 1
  BY <1>0, <1>1, <1>3, QuotientBound
<1> HIDE DEF rem, z
<1>6. rem \in Nat /\ x \in 0 .. d[1] - 1 /\ rem = y * d[1] + x
  <2>1. rem \in Nat
    BY <1>1, <1>4
  <2> QED
    BY <1>0, <2>1, Remainder
<1>7. y \in 0 .. d[2] - 1
  <2>1. rem \in 0 .. d[2] * d[1] - 1
    BY <1>1, <1>4
  <2> QED
    BY <1>0, <2>1, QuotientBound
<1>8. z % d[3] = z
  BY <1>0, <1>5, RemainderOfSmall
<1> HIDE DEF x, y
<1>9. <<x, y, z>> \in Coordinates(d)
  BY <1>5, <1>6, <1>7 DEF Coordinates
<1>11. linear_index(<<x, y, z>>, d) = r
  <2>1. linear_index(<<x, y, z>>, d) = z * d[1] * d[2] + y * d[1] + x
    BY DEF linear_index
  <2>2. z * d[1] * d[2] = z * plane
    <3>1. z \in Nat /\ d[1] \in Nat /\ d[2] \in Nat
      BY <1>0, <1>5
    <3> QED
      BY <3>1, ProductAssociates DEF plane
  <2>3. z * plane \in Nat /\ y * d[1] \in Nat
    BY <1>0, <1>1, <1>5, <1>7, ProductType
  <2> QED
    BY <1>4, <1>6, <2>1, <2>2, <2>3
<1> QED
  BY <1>8, <1>9, <1>10, <1>11

LEMMA PlaceOf ==
  ASSUME NEW d \in Dimensions, NEW r \in 0 .. total_nodes(d) - 1
  PROVE  from_linear(r, d) \in Coordinates(d) /\ linear_index(from_linear(r, d), d) = r
<1>1. Len(d) \in {2, 3}
  BY SizeTypes
<1> QED
  BY <1>1, FlatPlaceOf, DeepPlaceOf
------------------------------------------------------------------------------
(* Neighbours, and the stages of a pipeline.                               *)

\* On every axis the way back leads back, also on one of one or two nodes.
LEMMA WrapUndone ==
  ASSUME NEW size \in Nat \ {0}, NEW c \in 0 .. size - 1
  PROVE  /\ wrap_neighbor(wrap_neighbor(c, size, TRUE), size, FALSE) = c
         /\ wrap_neighbor(wrap_neighbor(c, size, FALSE), size, TRUE) = c
<1> DEFINE up == wrap_neighbor(c, size, TRUE)
           down == wrap_neighbor(c, size, FALSE)
<1>1. up \in 0 .. size - 1 /\ down \in 0 .. size - 1
  BY WrapType
<1>2. up = (IF c + 1 = size THEN 0 ELSE c + 1) /\ down = (IF c = 0 THEN size - 1 ELSE c - 1)
  BY WrapCases
<1> HIDE DEF up, down
<1>3. wrap_neighbor(up, size, FALSE) = (IF up = 0 THEN size - 1 ELSE up - 1)
  BY <1>1, WrapCases
<1>4. wrap_neighbor(down, size, TRUE) = (IF down + 1 = size THEN 0 ELSE down + 1)
  BY <1>1, WrapCases
<1>5. (IF up = 0 THEN size - 1 ELSE up - 1) = c
  BY <1>2
<1>6. (IF down + 1 = size THEN 0 ELSE down + 1) = c
  BY <1>2
<1> QED
  BY <1>3, <1>4, <1>5, <1>6 DEF up, down

LEMMA WayBack ==
  ASSUME NEW d \in Dimensions, NEW c \in Coordinates(d), NEW axis \in Axes(d), NEW positive \in BOOLEAN
  PROVE  /\ neighbor(c, d, axis, positive) \in Coordinates(d)
         /\ neighbor(neighbor(c, d, axis, positive), d, axis, ~positive) = c
<1>0. /\ Len(d) \in {2, 3} /\ d[1] \in Nat \ {0} /\ d[2] \in Nat \ {0}
      /\ Len(d) = 3 => d[3] \in Nat \ {0}
  BY SizeTypes
<1> DEFINE w(a, i) == wrap_neighbor(a, d[i], positive)
<1>1. ASSUME NEW i \in 1 .. Len(d), NEW a \in 0 .. d[i] - 1
      PROVE  w(a, i) \in 0 .. d[i] - 1 /\ wrap_neighbor(w(a, i), d[i], ~positive) = a
  <2>1. d[i] \in Nat \ {0}
    BY <1>0
  <2>2. CASE positive = TRUE
    BY <2>1, <2>2, WrapType, WrapUndone
  <2>3. CASE positive = FALSE
    BY <2>1, <2>3, WrapType, WrapUndone
  <2> QED
    BY <2>2, <2>3
<1> HIDE DEF w
<1>2. CASE Len(d) = 2
  <2>1. c[1] \in 0 .. d[1] - 1 /\ c[2] \in 0 .. d[2] - 1 /\ c = <<c[1], c[2]>>
    BY <1>2, FlatPlace
  <2>2. axis \in {0, 1}
    BY <1>2 DEF Axes
  <2>3. /\ w(c[1], 1) \in 0 .. d[1] - 1 /\ w(c[2], 2) \in 0 .. d[2] - 1
        /\ wrap_neighbor(w(c[1], 1), d[1], ~positive) = c[1]
        /\ wrap_neighbor(w(c[2], 2), d[2], ~positive) = c[2]
    BY <1>1, <1>2, <2>1
  <2> DEFINE n == neighbor(c, d, axis, positive)
  <2>4. n = IF axis = 0 THEN <<w(c[1], 1), c[2]>> ELSE <<c[1], w(c[2], 2)>>
    BY <1>2, <2>2, FlatNeighbor DEF w
  <2> HIDE DEF n
  <2>5. n \in Coordinates(d)
    BY <1>2, <2>1, <2>3, <2>4 DEF Coordinates
  <2>6. neighbor(n, d, axis, ~positive)
          = IF axis = 0 THEN <<wrap_neighbor(n[1], d[1], ~positive), n[2]>>
            ELSE <<n[1], wrap_neighbor(n[2], d[2], ~positive)>>
    BY <1>2, <2>2, <2>5, FlatNeighbor
  <2>7. neighbor(n, d, axis, ~positive) = c
    BY <2>1, <2>3, <2>4, <2>6
  <2> QED
    BY <2>5, <2>7 DEF n
<1>3. CASE Len(d) = 3
  <2>1. /\ c[1] \in 0 .. d[1] - 1 /\ c[2] \in 0 .. d[2] - 1 /\ c[3] \in 0 .. d[3] - 1
        /\ c = <<c[1], c[2], c[3]>>
    BY <1>3, DeepPlace
  <2>2. axis \in {0, 1, 2}
    BY <1>3 DEF Axes
  <2>3. /\ w(c[1], 1) \in 0 .. d[1] - 1 /\ w(c[2], 2) \in 0 .. d[2] - 1 /\ w(c[3], 3) \in 0 .. d[3] - 1
        /\ wrap_neighbor(w(c[1], 1), d[1], ~positive) = c[1]
        /\ wrap_neighbor(w(c[2], 2), d[2], ~positive) = c[2]
        /\ wrap_neighbor(w(c[3], 3), d[3], ~positive) = c[3]
    BY <1>1, <1>3, <2>1
  <2> DEFINE n == neighbor(c, d, axis, positive)
  <2>4. n = IF axis = 0 THEN <<w(c[1], 1), c[2], c[3]>>
            ELSE IF axis = 1 THEN <<c[1], w(c[2], 2), c[3]>> ELSE <<c[1], c[2], w(c[3], 3)>>
    BY <1>3, <2>2, DeepNeighbor DEF w
  <2> HIDE DEF n
  <2>5. n \in Coordinates(d)
    BY <1>3, <2>1, <2>3, <2>4 DEF Coordinates
  <2>6. neighbor(n, d, axis, ~positive)
          = IF axis = 0 THEN <<wrap_neighbor(n[1], d[1], ~positive), n[2], n[3]>>
            ELSE IF axis = 1 THEN <<n[1], wrap_neighbor(n[2], d[2], ~positive), n[3]>>
            ELSE <<n[1], n[2], wrap_neighbor(n[3], d[3], ~positive)>>
    BY <1>3, <2>2, <2>5, DeepNeighbor
  <2>7. neighbor(n, d, axis, ~positive) = c
    BY <2>1, <2>3, <2>4, <2>6
  <2> QED
    BY <2>5, <2>7 DEF n
<1> QED
  BY <1>0, <1>2, <1>3

\* On every torus a node is a neighbour of each of its neighbours, also where an
\* axis is so short that both ways along it lead to the same node: what one rank
\* sends in exchange_with_neighbors is what the other looks for.
THEOREM NeighborsAreMutual ==
  \A d \in Dimensions : \A c \in Coordinates(d) : \A k \in 1 .. 2 * Len(c) :
    LET n == neighbors(c, d)[k]
    IN  n \in Coordinates(d) /\ \E j \in 1 .. 2 * Len(n) : neighbors(n, d)[j] = c
<1> SUFFICES ASSUME NEW d \in Dimensions, NEW c \in Coordinates(d), NEW k \in 1 .. 2 * Len(c)
             PROVE  /\ neighbors(c, d)[k] \in Coordinates(d)
                    /\ \E j \in 1 .. 2 * Len(neighbors(c, d)[k]) : neighbors(neighbors(c, d)[k], d)[j] = c
  OBVIOUS
<1> DEFINE axis == (k - 1) \div 2
           positive == k % 2 = 1
           n == neighbors(c, d)[k]
<1>1. Len(c) = Len(d) /\ Len(c) \in {2, 3}
  BY PlaceLength
<1>2. axis \in Axes(d) /\ positive \in BOOLEAN /\ (~positive) \in BOOLEAN
  <2>1. axis \in 0 .. Len(d) - 1
    BY <1>1
  <2> QED
    BY <2>1 DEF Axes
<1>3. n = neighbor(c, d, axis, positive)
  BY DEF neighbors
<1> HIDE DEF axis, positive, n
<1>4. n \in Coordinates(d) /\ neighbor(n, d, axis, ~positive) = c
  BY <1>2, <1>3, WayBack
<1>5. \E j \in 1 .. 2 * Len(n) : neighbors(n, d)[j] = neighbor(n, d, axis, ~positive)
  BY <1>2, <1>4, NeighborListed
<1> QED
  BY <1>4, <1>5 DEF n

LEMMA TotalType ==
  ASSUME NEW d \in Dimensions
  PROVE  total_nodes(d) \in Nat
<1>1. /\ d[1] \in Nat /\ d[2] \in Nat /\ (IF Len(d) = 3 THEN d[3] ELSE 1) \in Nat
  BY SizeTypes
<1>2. d[1] * d[2] \in Nat
  BY <1>1, ProductType
<1> QED
  BY <1>1, <1>2, ProductType DEF total_nodes

\* A pipeline that is not longer than the torus gets a node of its own for each
\* stage, and one as long gets them all.
THEOREM StagesGetNodes ==
  \A d \in Dimensions : \A num_stages \in 0 .. total_nodes(d) :
    LET placed == topology_aware_placement(num_stages, d)
    IN  /\ \A s \in 0 .. num_stages - 1 : placed[s] \in Coordinates(d)
        /\ \A s, t \in 0 .. num_stages - 1 : placed[s] = placed[t] => s = t
        /\ num_stages = total_nodes(d) =>
             \A c \in Coordinates(d) : \E s \in 0 .. num_stages - 1 : placed[s] = c
<1> SUFFICES ASSUME NEW d \in Dimensions, NEW num_stages \in 0 .. total_nodes(d)
             PROVE  LET placed == topology_aware_placement(num_stages, d)
                    IN  /\ \A s \in 0 .. num_stages - 1 : placed[s] \in Coordinates(d)
                        /\ \A s, t \in 0 .. num_stages - 1 : placed[s] = placed[t] => s = t
                        /\ num_stages = total_nodes(d) =>
                             \A c \in Coordinates(d) : \E s \in 0 .. num_stages - 1 : placed[s] = c
  OBVIOUS
<1>1. ASSUME NEW s \in 0 .. num_stages - 1
      PROVE  /\ topology_aware_placement(num_stages, d)[s] = from_linear(s, d)
             /\ from_linear(s, d) \in Coordinates(d) /\ linear_index(from_linear(s, d), d) = s
  <2>1. s \in 0 .. total_nodes(d) - 1
    BY TotalType
  <2> QED
    BY <2>1, PlaceOf DEF topology_aware_placement
<1>2. \A s, t \in 0 .. num_stages - 1 : from_linear(s, d) = from_linear(t, d) => s = t
  BY <1>1, Zenon
<1>3. num_stages = total_nodes(d) =>
        \A c \in Coordinates(d) : linear_index(c, d) \in 0 .. num_stages - 1 /\ from_linear(linear_index(c, d), d) = c
  BY RankUndone
<1> QED
  BY <1>1, <1>2, <1>3
------------------------------------------------------------------------------
\* What IntraNodeMesh::new lets through: the ids are below the number of devices.
IsMesh(mesh) ==
  /\ Len(mesh) \in Nat \ {0} /\ DOMAIN mesh = 1 .. Len(mesh)
  /\ \A k \in DOMAIN mesh : mesh[k].id \in 0 .. Len(mesh) - 1

\* The numbers of the devices of a node, and of some nodes.
NumbersAt(ns, rank) == {rank * devices_per_node(ns) + ns[rank][k].id : k \in DOMAIN ns[rank]}
NumbersOf(ns, s) == UNION {NumbersAt(ns, rank) : rank \in s}

\* No node has more devices than the first, and none has two of one id.
Numberable(ns) ==
  /\ devices_per_node(ns) \in Nat \ {0}
  /\ \A rank \in DOMAIN ns :
       rank \in Nat /\ IsMesh(ns[rank]) /\ Distinct(ns[rank]) /\ Len(ns[rank]) <= devices_per_node(ns)

LEMMA MeshNumbers ==
  ASSUME NEW ns, Numberable(ns), NEW rank \in DOMAIN ns
  PROVE  /\ IsFiniteSet(NumbersAt(ns, rank)) /\ Cardinality(NumbersAt(ns, rank)) = Len(ns[rank])
         /\ \A n \in NumbersAt(ns, rank) : n \div devices_per_node(ns) = rank
<1> DEFINE per == devices_per_node(ns)
           mesh == ns[rank]
           number == [k \in 1 .. Len(mesh) |-> rank * per + mesh[k].id]
<1>0. /\ per \in Nat \ {0} /\ rank \in Nat
      /\ Len(mesh) \in Nat \ {0} /\ DOMAIN mesh = 1 .. Len(mesh)
      /\ \A k \in 1 .. Len(mesh) : mesh[k].id \in 0 .. per - 1
      /\ \A k, l \in 1 .. Len(mesh) : k # l => mesh[k].id # mesh[l].id
  BY DEF Numberable, IsMesh, Distinct
<1>1. rank * per \in Nat
  BY <1>0, ProductType
<1>2. NumbersAt(ns, rank) = {number[k] : k \in 1 .. Len(mesh)}
  BY <1>0 DEF NumbersAt
<1>3. \A k, l \in 1 .. Len(mesh) : k # l => number[k] # number[l]
  BY <1>0, <1>1
<1>4. \A k \in 1 .. Len(mesh) : number[k] \div per = rank
  <2> SUFFICES ASSUME NEW k \in 1 .. Len(mesh) PROVE (rank * per + mesh[k].id) \div per = rank
    OBVIOUS
  <2> QED
    BY <1>0, DivisionUnique
<1>5. number \in Bijection(1 .. Len(mesh), NumbersAt(ns, rank))
  BY <1>2, <1>3 DEF Bijection, Injection, Surjection, IsInjective
<1>6. IsFiniteSet(1 .. Len(mesh)) /\ Cardinality(1 .. Len(mesh)) = Len(mesh)
  <2>1. 1 \in Int /\ Len(mesh) \in Int
    BY <1>0
  <2>2. Cardinality(1 .. Len(mesh)) = IF 1 > Len(mesh) THEN 0 ELSE Len(mesh) - 1 + 1
    BY <2>1, FS_Interval
  <2> QED
    BY <1>0, <2>1, <2>2, FS_Interval
<1>7. IsFiniteSet(NumbersAt(ns, rank)) /\ Cardinality(NumbersAt(ns, rank)) = Len(mesh)
  BY <1>5, <1>6, FS_Bijection DEF ExistsBijection
<1> QED
  BY <1>2, <1>4, <1>7

\* Nodes share no number, so the numbers are as many as the devices.
LEMMA NumbersCounted ==
  ASSUME NEW ns, Numberable(ns), IsFiniteSet(DOMAIN ns)
  PROVE  /\ IsFiniteSet(NumbersOf(ns, DOMAIN ns))
         /\ Cardinality(NumbersOf(ns, DOMAIN ns)) = total_devices(ns)
<1> DEFINE D == DOMAIN ns
           g == [s \in SUBSET D |-> Cardinality(NumbersOf(ns, s))]
<1>1. ASSUME NEW s \in SUBSET D PROVE IsFiniteSet(NumbersOf(ns, s))
  <2> DEFINE all == {NumbersAt(ns, rank) : rank \in s}
  <2>1. IsFiniteSet(s)
    BY FS_Subset
  <2>2. [rank \in s |-> NumbersAt(ns, rank)] \in Surjection(s, all)
    BY DEF Surjection
  <2>3. IsFiniteSet(all)
    BY <2>1, <2>2, FS_Surjection
  <2>4. \A T \in all : IsFiniteSet(T)
    BY MeshNumbers
  <2> QED
    BY <2>3, <2>4, FS_UNION DEF NumbersOf
<1>2. g[{}] = 0
  <2>1. NumbersOf(ns, {}) = {}
    BY DEF NumbersOf
  <2> QED
    BY <2>1, FS_EmptySet
<1>3. ASSUME NEW s \in SUBSET D, NEW rank \in s
      PROVE  g[s] = Len(ns[rank]) + g[s \ {rank}]
  <2> DEFINE rest == s \ {rank}
             here == NumbersAt(ns, rank)
             there == NumbersOf(ns, rest)
  <2>1. rest \in SUBSET D /\ rank \in D
    OBVIOUS
  <2>2. NumbersOf(ns, s) = here \cup there
    BY DEF NumbersOf
  <2>3. here \cap there = {}
    <3> SUFFICES ASSUME NEW n \in here, n \in there PROVE FALSE
      OBVIOUS
    <3>1. PICK other \in rest : n \in NumbersAt(ns, other)
      BY DEF NumbersOf
    <3>2. n \div devices_per_node(ns) = rank /\ n \div devices_per_node(ns) = other
      BY <2>1, <3>1, MeshNumbers
    <3> QED
      BY <3>2
  <2>4. IsFiniteSet(here) /\ Cardinality(here) = Len(ns[rank]) /\ IsFiniteSet(there)
    BY <1>1, <2>1, MeshNumbers
  <2>5. Len(ns[rank]) \in Nat
    BY <2>1 DEF Numberable, IsMesh
  <2> HIDE DEF rest, here, there
  <2>6. Cardinality(here \cup there) = Cardinality(here) + Cardinality(there) - Cardinality(here \cap there)
    BY <2>4, FS_Union
  <2>7. Cardinality(here \cap there) = 0 /\ Cardinality(there) \in Nat
    BY <2>3, <2>4, FS_EmptySet, FS_CardinalityType
  <2>8. Cardinality(NumbersOf(ns, s)) = Len(ns[rank]) + Cardinality(there)
    BY <2>2, <2>4, <2>5, <2>6, <2>7
  <2> QED
    BY <2>1, <2>8 DEF rest, there
<1>4. Sums(g, ns)
  <2>1. g = [s \in SUBSET D |-> g[s]]
    OBVIOUS
  <2> HIDE DEF g
  <2> QED
    BY <1>2, <1>3, <2>1 DEF Sums
<1>5. total_devices(ns) = g[D]
  <2> HIDE DEF g
  <2> QED
    BY <1>4, SumFound
<1> QED
  BY <1>1, <1>5

\* With as many devices at every node the numbers leave none out.
LEMMA NumbersWhole ==
  ASSUME NEW ns, Numberable(ns), NEW count \in Nat \ {0}, DOMAIN ns = 0 .. count - 1,
         \A rank \in DOMAIN ns : Len(ns[rank]) = devices_per_node(ns)
  PROVE  NumbersOf(ns, DOMAIN ns) = 0 .. count * devices_per_node(ns) - 1
<1> DEFINE per == devices_per_node(ns)
<1>0. per \in Nat \ {0} /\ count * per \in Nat
  BY ProductType DEF Numberable
<1>1. ASSUME NEW rank \in DOMAIN ns
      PROVE  /\ rank \in 0 .. count - 1 /\ DOMAIN ns[rank] = 1 .. per
             /\ \A k \in 1 .. per : ns[rank][k].id \in 0 .. per - 1
             /\ \A id \in 0 .. per - 1 : \E k \in 1 .. per : ns[rank][k].id = id
  <2> DEFINE mesh == ns[rank]
             ids == [k \in 1 .. per |-> mesh[k].id]
  <2>1. /\ rank \in 0 .. count - 1 /\ DOMAIN mesh = 1 .. per
        /\ \A k \in 1 .. per : mesh[k].id \in 0 .. per - 1
        /\ \A k, l \in 1 .. per : k # l => mesh[k].id # mesh[l].id
    BY DEF Numberable, IsMesh, Distinct
  <2>2. ids \in Injection(1 .. per, 0 .. per - 1)
    BY <2>1 DEF Injection, IsInjective
  <2>3. /\ IsFiniteSet(1 .. per) /\ IsFiniteSet(0 .. per - 1)
        /\ Cardinality(1 .. per) = per /\ Cardinality(0 .. per - 1) = per
    <3>1. 1 \in Int /\ 0 \in Int /\ per \in Int /\ per - 1 \in Int
      BY <1>0
    <3>2. /\ Cardinality(1 .. per) = IF 1 > per THEN 0 ELSE per - 1 + 1
          /\ Cardinality(0 .. per - 1) = IF 0 > per - 1 THEN 0 ELSE per - 1 - 0 + 1
      BY <3>1, FS_Interval
    <3>3. IsFiniteSet(1 .. per) /\ IsFiniteSet(0 .. per - 1)
      BY <3>1, FS_Interval
    <3> HIDE DEF per
    <3> QED
      BY ONLY <1>0, <3>2, <3>3
  <2>4. ids \in Surjection(1 .. per, 0 .. per - 1)
    BY <2>2, <2>3, FS_Injection
  <2>5. \A id \in 0 .. per - 1 : \E k \in 1 .. per : mesh[k].id = id
    BY <2>4 DEF Surjection
  <2> QED
    BY <2>1, <2>5
<1>2. ASSUME NEW n \in NumbersOf(ns, DOMAIN ns) PROVE n \in 0 .. count * per - 1
  <2>1. PICK rank \in DOMAIN ns : \E k \in DOMAIN ns[rank] : n = rank * per + ns[rank][k].id
    BY DEF NumbersOf, NumbersAt
  <2>2. PICK k \in 1 .. per : n = rank * per + ns[rank][k].id
    BY <1>1, <2>1
  <2>3. rank \in 0 .. count - 1 /\ ns[rank][k].id \in 0 .. per - 1
    BY <1>1
  <2> HIDE DEF per
  <2> QED
    BY <1>0, <2>2, <2>3, MixedBound
<1>3. ASSUME NEW n \in 0 .. count * per - 1 PROVE n \in NumbersOf(ns, DOMAIN ns)
  <2> DEFINE rank == n \div per
             id == n % per
  <2>1. n \in Nat /\ rank \in 0 .. count - 1 /\ id \in 0 .. per - 1 /\ n = rank * per + id
    <3>1. n \in Nat
      BY <1>0
    <3> HIDE DEF per
    <3> QED
      BY <1>0, <3>1, Remainder, QuotientBound
  <2> HIDE DEF rank, id
  <2>2. PICK k \in 1 .. per : ns[rank][k].id = id
    BY <1>1, <2>1
  <2>3. rank \in DOMAIN ns /\ k \in DOMAIN ns[rank] /\ n = rank * per + ns[rank][k].id
    BY <1>1, <2>1, <2>2
  <2> QED
    BY <2>3 DEF NumbersOf, NumbersAt
<1> QED
  BY <1>2, <1>3

\* Every node keeps a mesh that IntraNodeMesh::new lets through.
Meshes == \A rank \in DOMAIN nodes : IsMesh(nodes[rank])

LEMMA NewIsMesh ==
  ASSUME NEW devices, Len(devices) \in Nat, DOMAIN devices = 1 .. Len(devices),
         \A k \in DOMAIN devices : devices[k].id \in Nat, NewMesh(devices) # <<>>
  PROVE  IsMesh(NewMesh(devices)[1])
<1>1. Len(devices) # 0 /\ \A k \in DOMAIN devices : ~ devices[k].id >= Len(devices)
  BY DEF NewMesh
<1>2. NewMesh(devices)[1] = devices
  BY <1>1 DEF NewMesh
<1>3. \A k \in DOMAIN devices : devices[k].id \in 0 .. Len(devices) - 1
  BY <1>1
<1> QED
  BY <1>1, <1>2, <1>3 DEF IsMesh

LEMMA DiscoveredIsMesh ==
  ASSUME NEW config \in DiscoveryConfigs, discover_mesh(config) # <<>>
  PROVE  IsMesh(discover_mesh(config)[1])
<1> DEFINE count == unwrap_or(config.num_devices_override, 8)
           half == IF count \div 2 > 1 THEN count \div 2 ELSE 1
           devices == discover_manual(config)
           full == [k \in DOMAIN devices |->
                     [devices[k] EXCEPT !.nvlink_peers = Others(devices[k].id, Len(devices))]]
           found == IF config.assume_full_mesh THEN full ELSE devices
<1>1. config.num_devices_override \in Seq(Nat)
  BY TorusWalkAssumption
<1>2. count \in Nat
  BY <1>1 DEF unwrap_or
<1>3. /\ devices = [k \in 1 .. count |-> devices[k]]
      /\ \A k \in 1 .. count : devices[k] = GPUDevice(k - 1, <<(k - 1) \div half>>, Others(k - 1, count))
  BY DEF discover_manual
<1>4. discover_mesh(config) = NewMesh(found)
  BY DEF discover_mesh
<1> HIDE DEF count, half, devices
<1>5. \A k \in 1 .. count : devices[k].id = k - 1
  BY <1>3 DEF GPUDevice
<1>6. DOMAIN devices = 1 .. count
  BY <1>3
<1>7. \A k \in 1 .. count : full[k].id = k - 1
  <2> SUFFICES ASSUME NEW k \in 1 .. count PROVE full[k].id = k - 1
    OBVIOUS
  <2>1. DOMAIN devices[k] = {"id", "numa_node", "nvlink_peers"}
    BY <1>3 DEF GPUDevice
  <2>2. full[k].id = devices[k].id
    BY <1>6, <2>1
  <2> QED
    BY <1>5, <2>2
<1>8. full = [k \in 1 .. count |-> full[k]]
  BY <1>6
<1> HIDE DEF full
<1>9. /\ found = [k \in 1 .. count |-> found[k]]
      /\ \A k \in 1 .. count : found[k].id = k - 1
  BY <1>3, <1>5, <1>7, <1>8
<1> HIDE DEF found
<1>10. Len(found) = count /\ DOMAIN found = 1 .. count
  BY <1>2, <1>9
<1>11. \A k \in DOMAIN found : found[k].id \in Nat
  BY <1>2, <1>9, <1>10
<1> QED
  BY <1>2, <1>4, <1>10, <1>11, NewIsMesh

LEMMA InitMeshes == Init => Meshes
<1> SUFFICES ASSUME Init PROVE Meshes
  OBVIOUS
<1>1. PICK per_node \in DevicesPerNode : nodes = NewHybrid(dims, per_node)[1]
  BY DEF Init
<1>2. IsTorus(dims) /\ per_node \in Nat /\ per_node > 0
  BY TorusWalkAssumption DEF Init
<1>3. nodes = [rank \in 0 .. total_nodes(dims) - 1 |-> full_mesh(per_node)[1]]
  BY <1>1, <1>2 DEF NewHybrid
<1>4. full_mesh(per_node)[1] = [k \in 1 .. per_node |-> simple(k - 1, per_node)]
  BY <1>2 DEF full_mesh
<1>5. \A k \in 1 .. per_node : full_mesh(per_node)[1][k].id = k - 1
  BY <1>4 DEF simple, GPUDevice
<1>6. Len(full_mesh(per_node)[1]) = per_node /\ DOMAIN full_mesh(per_node)[1] = 1 .. per_node
  BY <1>2, <1>4
<1>7. IsMesh(full_mesh(per_node)[1])
  BY <1>2, <1>5, <1>6 DEF IsMesh
<1> QED
  BY <1>3, <1>7 DEF Meshes

LEMMA NextMeshes == TypeOK /\ Meshes /\ [Next]_vars => Meshes'
<1> SUFFICES ASSUME TypeOK, Meshes, [Next]_vars PROVE Meshes'
  OBVIOUS
<1>1. CASE Equip
  <2>1. PICK mesh \in {NewMesh(devices) : devices \in DeviceLists} \cup
                      {discover_mesh(config) : config \in DiscoveryConfigs} :
           mesh # <<>> /\ nodes' = [nodes EXCEPT ![linear_index(at, dims)] = mesh[1]]
    BY <1>1 DEF Equip
  <2>2. IsMesh(mesh[1])
    <3>1. CASE mesh \in {NewMesh(devices) : devices \in DeviceLists}
      <4>1. PICK devices \in DeviceLists : mesh = NewMesh(devices)
        BY <3>1
      <4>2. devices \in Seq(Device)
        BY TorusWalkAssumption
      <4>3. Len(devices) \in Nat /\ DOMAIN devices = 1 .. Len(devices)
            /\ \A k \in DOMAIN devices : devices[k] \in Device
        BY <4>2
      <4>4. \A k \in DOMAIN devices : devices[k].id \in Nat
        BY <4>3 DEF Device
      <4> QED
        BY <2>1, <4>1, <4>3, <4>4, NewIsMesh
    <3>2. CASE mesh \in {discover_mesh(config) : config \in DiscoveryConfigs}
      BY <2>1, <3>2, DiscoveredIsMesh
    <3> QED
      BY <3>1, <3>2
  <2> QED
    BY <2>1, <2>2 DEF Meshes
<1>2. ASSUME NEW axis \in Axes(dims), NEW positive \in BOOLEAN, Step(axis, positive)
      PROVE  Meshes'
  BY <1>2 DEF Step, Meshes
<1>3. CASE UNCHANGED vars
  BY <1>3 DEF vars, Meshes
<1> QED
  BY <1>1, <1>2, <1>3 DEF Next

LEMMA Numbered == TypeOK /\ Meshes => DevicesNumbered
<1> DEFINE mesh_at(c) == nodes[linear_index(c, dims)]
           ids == UNION {{global_device_id(nodes, c, mesh_at(c)[k].id, dims) : k \in DOMAIN mesh_at(c)} :
                           c \in Coordinates(dims)}
<1> SUFFICES ASSUME TypeOK, Meshes,
                    \A rank \in DOMAIN nodes :
                      Distinct(nodes[rank]) /\ Len(nodes[rank]) <= devices_per_node(nodes)
             PROVE  /\ Cardinality(ids) = total_devices(nodes)
                    /\ (\A rank \in DOMAIN nodes : Len(nodes[rank]) = devices_per_node(nodes)) =>
                         ids = 0 .. total_devices(nodes) - 1
  BY DEF DevicesNumbered
<1> DEFINE count == total_nodes(dims)
<1>0. dims \in Dimensions /\ DOMAIN nodes = 0 .. count - 1
  BY DEF TypeOK
<1>1. count \in Nat \ {0}
  <2>1. /\ linear_index(at, dims) \in 0 .. count - 1
    BY RankUndone DEF TypeOK
  <2>2. count \in Int
    <3>1. /\ dims[1] \in Nat /\ dims[2] \in Nat /\ (Len(dims) = 3 => dims[3] \in Nat)
      BY <1>0, SizeTypes
    <3>2. dims[1] * dims[2] \in Nat
      BY <3>1, ProductType
    <3>3. (IF Len(dims) = 3 THEN dims[3] ELSE 1) \in Nat
      BY <3>1
    <3> QED
      BY <3>2, <3>3, ProductType DEF total_nodes
  <2> QED
    BY <2>1, <2>2
<1> HIDE DEF count
<1>2. IsFiniteSet(DOMAIN nodes) /\ 0 \in DOMAIN nodes
  <2>1. 0 \in Int /\ count - 1 \in Int
    BY <1>1
  <2> QED
    BY <1>0, <1>1, <2>1, FS_Interval
<1>3. Numberable(nodes)
  <2>1. \A rank \in DOMAIN nodes : rank \in Nat
    BY <1>0
  <2> QED
    BY <1>2, <2>1 DEF Numberable, Meshes, IsMesh, devices_per_node
<1>4. ids = NumbersOf(nodes, DOMAIN nodes)
  <2>1. ASSUME NEW c \in Coordinates(dims), NEW k \in DOMAIN mesh_at(c)
        PROVE  /\ linear_index(c, dims) \in DOMAIN nodes
               /\ global_device_id(nodes, c, mesh_at(c)[k].id, dims)
                    \in NumbersAt(nodes, linear_index(c, dims))
    BY <1>0, RankUndone DEF NumbersAt, global_device_id, count
  <2>2. ASSUME NEW rank \in DOMAIN nodes, NEW k \in DOMAIN nodes[rank]
        PROVE  rank * devices_per_node(nodes) + nodes[rank][k].id \in ids
    <3>1. PICK c \in Coordinates(dims) : linear_index(c, dims) = rank
      BY <1>0, PlaceOf DEF count
    <3>2. /\ k \in DOMAIN mesh_at(c)
          /\ global_device_id(nodes, c, mesh_at(c)[k].id, dims)
               = rank * devices_per_node(nodes) + nodes[rank][k].id
      BY <3>1 DEF global_device_id
    <3> QED
      BY <3>2
  <2>3. ids \subseteq NumbersOf(nodes, DOMAIN nodes)
    BY <2>1 DEF NumbersOf
  <2>4. NumbersOf(nodes, DOMAIN nodes) \subseteq ids
    BY <2>2 DEF NumbersOf, NumbersAt
  <2> QED
    BY <2>3, <2>4
<1> HIDE DEF ids, mesh_at
<1>5. Cardinality(ids) = total_devices(nodes)
  BY <1>2, <1>3, <1>4, NumbersCounted
<1>6. ASSUME \A rank \in DOMAIN nodes : Len(nodes[rank]) = devices_per_node(nodes)
      PROVE  ids = 0 .. total_devices(nodes) - 1
  <2> DEFINE all == count * devices_per_node(nodes)
  <2>1. ids = 0 .. all - 1
    BY <1>0, <1>1, <1>3, <1>4, <1>6, NumbersWhole
  <2>2. all \in Nat
    BY <1>1, <1>3, ProductType DEF Numberable
  <2> HIDE DEF all
  <2>3. Cardinality(0 .. all - 1) = all
    <3>1. Cardinality(0 .. all - 1) = IF 0 > all - 1 THEN 0 ELSE all - 1 - 0 + 1
      BY <2>2, FS_Interval
    <3> QED
      BY <2>2, <3>1
  <2> QED
    BY <1>5, <2>1, <2>3
<1> QED
  BY <1>5, <1>6

\* hybrid.rs: global_device_id tells all devices apart, as many as total_devices
\* counts, if no node has more than the first, and numbers them without a gap
\* if all have as many; on every torus, whatever meshes its nodes were given.
THEOREM DevicesAreNumbered == Spec => []DevicesNumbered
<1>1. Spec => []Meshes
  BY InitMeshes, NextMeshes, TypeCorrect, PTL DEF Spec
<1> QED
  BY <1>1, Numbered, TypeCorrect, PTL
==============================================================================
