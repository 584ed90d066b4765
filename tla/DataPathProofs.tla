---------------------------- MODULE DataPathProofs ----------------------------
(***************************************************************************)
(* Theorems about what happens to the data: DelayedScaling and Fp8, for    *)
(* histories, slices and blocks of every length; Checkpoint, for stages of *)
(* any number of layers and callers that feed any number of micro-batches; *)
(* and GptExample, for tensors of every shape.                             *)
(*                                                                         *)
(* DelayedScaling needs the invariant TypeOK alone.  Its refinement rests  *)
(* on one observation: SlotOf maps the ages of the entries one to one to   *)
(* the slots of the ring, and an update moves each entry one age on,       *)
(* except the one whose slot it takes.                                     *)
(*                                                                         *)
(* Fp8 needs HowCast, which keeps with a tensor how it was made of the     *)
(* slice at hand; the rest is what is true of every slice: BlocksJoin, the *)
(* blocks put one after the other are the slice, and DivisorOwn, from_fp8  *)
(* looks in the right one of them for a scale.                             *)
(*                                                                         *)
(* GptExample needs Past, which follows what the elements have seen        *)
(* through the blocks.  It rests on HeadPlaces: reshape finds the places   *)
(* of an element in a row and in its head in one and the same number.      *)
(***************************************************************************)
EXTENDS Fp8, Checkpoint, GptExample, SequenceTheorems, FiniteSetTheorems, WellFoundedInduction, TLAPS

\* The arithmetic of a ring of n places: the place after the last is the first.
LEMMA NextPlace ==
  ASSUME NEW n \in Nat \ {0}, NEW c \in 0 .. n - 1
  PROVE  (c + 1) % n = IF c = n - 1 THEN 0 ELSE c + 1
  OBVIOUS

LEMMA HistoryInit == Init => TypeOK
<1> SUFFICES ASSUME Init PROVE TypeOK
  OBVIOUS
<1>1. history_length \in Nat
  BY DelayedScalingAssumption DEF Init
<1>2. amax_history \in [Slots -> Amaxes \cup {0}]
  BY DEF Init
<1>3. history_length > 0 => cursor \in Slots
  BY <1>1 DEF Init, Slots
<1>4. /\ history_length \in HistoryLengths
      /\ cursor = 0
      /\ panicked = FALSE
  BY DEF Init
<1> QED
  BY <1>2, <1>3, <1>4 DEF TypeOK

LEMMA HistoryTypes == TypeOK /\ [Next]_vars => TypeOK'
<1> SUFFICES ASSUME TypeOK, [Next]_vars PROVE TypeOK'
  OBVIOUS
<1>1. ASSUME NEW entry \in Amaxes, Update(entry) PROVE TypeOK'
  <2>1. history_length \in Nat \ {0} /\ cursor \in 0 .. history_length - 1
    BY <1>1, DelayedScalingAssumption DEF TypeOK, Update, Slots
  <2>2. cursor' \in Slots'
    BY <1>1, <2>1, NextPlace DEF Update, Slots
  <2> QED
    BY <1>1, <2>1, <2>2 DEF TypeOK, Update, Slots
<1>2. CASE UpdatePanics
  BY <1>2 DEF TypeOK, UpdatePanics, Slots
<1>3. CASE UNCHANGED vars
  BY <1>3 DEF TypeOK, vars, Slots
<1> QED
  BY <1>1, <1>2, <1>3 DEF Next

\* DelayedScaling::new and ::update keep the types, and update panics only on
\* a history of no entries.
THEOREM TypeCorrect == Spec => []TypeOK
BY HistoryInit, HistoryTypes, PTL DEF Spec

\* Every slot holds the entry of one age, and every age has its slot.
LEMMA AgesAreSlots ==
  ASSUME TypeOK, history_length > 0
  PROVE  /\ \A age \in Slots : SlotOf(age) \in Slots
         /\ \A slot \in Slots : \E age \in Slots : SlotOf(age) = slot
<1>1. history_length \in Nat \ {0} /\ cursor \in 0 .. history_length - 1
  BY DelayedScalingAssumption DEF TypeOK, Slots
<1>2. \A age \in Slots : SlotOf(age) \in Slots
  BY <1>1 DEF SlotOf, Slots
<1>3. ASSUME NEW slot \in Slots PROVE \E age \in Slots : SlotOf(age) = slot
  <2>1. CASE slot < cursor
    <3>1. cursor - 1 - slot \in Slots /\ SlotOf(cursor - 1 - slot) = slot
      BY <1>1, <2>1 DEF SlotOf, Slots
    <3> QED
      BY <3>1
  <2>2. CASE slot >= cursor
    <3>1. /\ cursor + history_length - 1 - slot \in Slots
          /\ SlotOf(cursor + history_length - 1 - slot) = slot
      BY <1>1, <2>2 DEF SlotOf, Slots
    <3> QED
      BY <3>1
  <2> QED
    BY <1>1, <2>1, <2>2 DEF Slots
<1> QED
  BY <1>2, <1>3

\* So the ring and the entries by age have the same largest value.
LEMMA PeakOfRecent == TypeOK => current_amax = Window!PeakOf(Recent)
<1> SUFFICES ASSUME TypeOK PROVE current_amax = Window!PeakOf(Recent)
  OBVIOUS
<1>1. DOMAIN Recent = Slots
  BY DEF Recent
<1>2. {amax_history[slot] : slot \in Slots} = {Recent[age] : age \in DOMAIN Recent}
  <2>1. CASE history_length = 0
    BY <2>1 DEF Recent, Slots
  <2>2. CASE history_length > 0
    BY <1>1, <2>2, AgesAreSlots DEF Recent
  <2> QED
    <3>1. history_length \in Nat
      BY DelayedScalingAssumption DEF TypeOK
    <3> QED
      BY <2>1, <2>2, <3>1
<1>3. current_amax = Window!Max({0} \cup {amax_history[slot] : slot \in Slots})
  BY DEF current_amax, Max, Window!Max
<1> QED
  BY <1>2, <1>3 DEF Window!PeakOf

\* compute_scale covers the last history_length tensors and no other, for every
\* history length and every sequence of updates.
THEOREM Refinement == Spec => ImplementsWindow
<1>1. Init => Window!Init
  <2> SUFFICES ASSUME Init PROVE Window!Init
    OBVIOUS
  <2>1. Recent = [age \in 0 .. history_length - 1 |-> 0]
    <3>1. history_length \in Nat
      BY DelayedScalingAssumption DEF Init
    <3> QED
      BY <3>1 DEF Init, Recent, SlotOf, Slots
  <2>2. {0} \cup {amax_history[slot] : slot \in Slots} = {0}
    BY DEF Init
  <2>3. current_amax = 0
    BY <2>2 DEF current_amax, Max
  <2> QED
    BY <2>1, <2>3 DEF Init, Window!Init
<1>2. (TypeOK => current_amax = Window!PeakOf(Recent))'
  BY PeakOfRecent, PTL
<1>3. TypeOK /\ TypeOK' /\ [Next]_vars => [Window!Next]_<<Recent, current_amax>>
  <2> SUFFICES ASSUME TypeOK, TypeOK', [Next]_vars
               PROVE  [Window!Next]_<<Recent, current_amax>>
    OBVIOUS
  <2>1. ASSUME NEW entry \in Amaxes, Update(entry) PROVE Window!Update(entry)
    <3>1. history_length \in Nat \ {0} /\ cursor \in 0 .. history_length - 1
      BY <2>1, DelayedScalingAssumption DEF TypeOK, Update, Slots
    <3>2. history_length' = history_length /\ Slots' = Slots
      BY <2>1 DEF Update, Slots
    <3>3. cursor' = IF cursor = history_length - 1 THEN 0 ELSE cursor + 1
      BY <2>1, <3>1, NextPlace DEF Update
    <3>4. ASSUME NEW age \in Slots
          PROVE  amax_history'[SlotOf(age)'] = IF age = 0 THEN entry ELSE Recent[age - 1]
      <4>1. CASE age = 0
        <5>1. SlotOf(age)' = cursor
          BY <3>1, <3>2, <3>3, <4>1 DEF SlotOf
        <5> QED
          BY <2>1, <3>1, <4>1, <5>1 DEF Update, TypeOK, Slots
      <4>2. CASE age > 0
        <5>1. /\ SlotOf(age)' = SlotOf(age - 1)
              /\ age - 1 \in Slots
              /\ SlotOf(age - 1) \in Slots
              /\ SlotOf(age - 1) # cursor
          BY <3>1, <3>2, <3>3, <4>2 DEF SlotOf, Slots
        <5> QED
          BY <2>1, <3>1, <4>2, <5>1 DEF Update, TypeOK, Recent
      <4> QED
        BY <3>1, <4>1, <4>2 DEF Slots
    <3>5. Recent' = [age \in DOMAIN Recent |-> IF age = 0 THEN entry ELSE Recent[age - 1]]
      <4>1. Recent' = [age \in Slots |-> amax_history'[SlotOf(age)']]
        BY <3>2 DEF Recent
      <4>2. DOMAIN Recent = Slots
        BY DEF Recent
      <4> QED
        BY <3>4, <4>1, <4>2
    <3> QED
      BY <1>2, <3>5 DEF Window!Update, Window!PeakOf
  <2>2. CASE UpdatePanics
    BY <2>2 DEF UpdatePanics, Recent, SlotOf, Slots, current_amax
  <2>3. CASE UNCHANGED vars
    BY <2>3 DEF vars, Recent, SlotOf, Slots, current_amax
  <2> QED
    BY <2>1, <2>2, <2>3 DEF Next, Window!Next
<1>4. Spec => []TypeOK
  BY TypeCorrect
<1> QED
  BY <1>1, <1>3, <1>4, PTL DEF Spec, ImplementsWindow, Window!Spec
------------------------------------------------------------------------------
(* What the proofs about FP8 rest on: induction, folds and division.        *)

\* Induction over the natural numbers, stated of a set: the least number left out
\* is neither 0 nor comes after another.
LEMMA SetInduction ==
  ASSUME NEW S, 0 \in S, \A n \in Nat : n \in S => n + 1 \in S
  PROVE  Nat \subseteq S
<1> DEFINE Less == OpToRel(<, Nat)
           Left == Nat \ S
<1>1. \A m, n \in Nat : m < n => <<m, n>> \in Less
  BY Zenon DEF OpToRel
<1>2. IsWellFoundedOn(Less, Nat)
  BY NatLessThanWellFounded, Zenon
<1> HIDE DEF Less
<1>3. SUFFICES ASSUME Left # {} PROVE FALSE
  OBVIOUS
<1>4. PICK n \in Left : \A m \in Left : <<m, n>> \notin Less
  BY <1>2, <1>3, WFMin
<1>5. n - 1 \in Left /\ n - 1 < n
  OBVIOUS
<1> QED
  BY <1>1, <1>4, <1>5

\* What FlattenSeq makes of the first n sequences, for every n.
Joined(s, t) == s \o t
Flattens(f, seqs, n) ==
  /\ n # 0 => f[1] = seqs[1]
  /\ \A i \in 1 .. n - 1 : f[i + 1] = Joined(f[i], seqs[i + 1])
SameUpTo(f, g, n) == \A i \in 1 .. n : f[i] = g[i]

LEMMA FlattensUnique ==
  ASSUME NEW seqs, NEW n \in Nat, NEW f, NEW g,
         Flattens(f, seqs, n), Flattens(g, seqs, n)
  PROVE  SameUpTo(f, g, n)
<1> DEFINE Good == {k \in Nat : k \in 1 .. n => f[k] = g[k]}
<1>1. 0 \in Good
  OBVIOUS
<1>2. ASSUME NEW k \in Nat, k \in Good PROVE k + 1 \in Good
  <2> SUFFICES ASSUME k + 1 \in 1 .. n PROVE f[k + 1] = g[k + 1]
    OBVIOUS
  <2>1. CASE k = 0
    BY <2>1 DEF Flattens
  <2>2. CASE k # 0
    <3>1. f[k] = g[k] /\ k \in 1 .. n - 1
      BY <1>2, <2>2
    <3>2. f[k + 1] = Joined(f[k], seqs[k + 1]) /\ g[k + 1] = Joined(g[k], seqs[k + 1])
      BY <3>1 DEF Flattens
    <3> QED
      BY <3>1, <3>2
  <2> QED
    BY <2>1, <2>2
<1> HIDE DEF Good
<1>3. Nat \subseteq Good
  BY <1>1, <1>2, SetInduction
<1> QED
  BY <1>3 DEF Good, SameUpTo

\* FlattenSeq does what can be said of the first sequences, one by one.
LEMMA FlattenedAs ==
  ASSUME NEW n \in Nat \ {0}, NEW seqs, Len(seqs) = n, NEW S, NEW f \in [1 .. n -> S],
         Flattens(f, seqs, n)
  PROVE  FlattenSeq(seqs) = f[n]
<1> DEFINE Is(g) == g = [i \in 1 .. n |-> IF i = 1 THEN seqs[i] ELSE Joined(g[i - 1], seqs[i])]
           flatten == CHOOSE g : Is(g)
<1>1. FlattenSeq(seqs) = flatten[n]
  BY DEF FlattenSeq, Joined
<1>2. Is(f)
  <2>1. ASSUME NEW i \in 1 .. n PROVE f[i] = IF i = 1 THEN seqs[i] ELSE Joined(f[i - 1], seqs[i])
    <3>1. CASE i = 1
      BY <3>1 DEF Flattens
    <3>2. CASE i # 1
      <4>1. i - 1 \in 1 .. n - 1 /\ i - 1 + 1 = i
        BY <3>2
      <4> QED
        BY <3>2, <4>1 DEF Flattens
    <3> QED
      BY <3>1, <3>2
  <2> QED
    BY <2>1
<1>3. Is(flatten)
  BY <1>2
<1> HIDE DEF flatten
<1>4. Flattens(flatten, seqs, n)
  <2>1. flatten[1] = seqs[1]
    BY <1>3
  <2>2. \A i \in 1 .. n - 1 : flatten[i + 1] = Joined(flatten[i], seqs[i + 1])
    BY <1>3
  <2> QED
    BY <2>1, <2>2 DEF Flattens
<1>5. SameUpTo(flatten, f, n)
  BY <1>4, FlattensUnique
<1>6. n \in 1 .. n
  OBVIOUS
<1> QED
  BY <1>1, <1>5, <1>6 DEF SameUpTo

\* A finite set of integers has a largest element, and Max finds it.
LEMMA MaxFound ==
  ASSUME NEW T \in SUBSET Int, IsFiniteSet(T), T # {}
  PROVE  Max(T) \in T /\ \A y \in T : y <= Max(T)
<1> DEFINE Tops(U) == \E x \in U : \A y \in U : x >= y
           Good == {n \in Nat : \A U \in SUBSET Int :
                      IsFiniteSet(U) /\ Cardinality(U) = n /\ U # {} => Tops(U)}
<1>1. 0 \in Good
  BY FS_EmptySet
<1>2. ASSUME NEW n \in Nat, n \in Good PROVE n + 1 \in Good
  <2> SUFFICES ASSUME NEW U \in SUBSET Int, IsFiniteSet(U), Cardinality(U) = n + 1, U # {}
               PROVE  Tops(U)
    OBVIOUS
  <2>1. PICK a \in U : TRUE
    OBVIOUS
  <2>2. IsFiniteSet(U \ {a}) /\ Cardinality(U \ {a}) = n /\ U \ {a} \in SUBSET Int
    <3>1. IsFiniteSet(U \ {a}) /\ Cardinality(U \ {a}) = Cardinality(U) - 1
      BY <2>1, FS_RemoveElement
    <3>2. Cardinality(U) - 1 = n
      OBVIOUS
    <3> QED
      BY <3>1, <3>2
  <2>3. CASE U \ {a} = {}
    BY <2>1, <2>3
  <2>4. CASE U \ {a} # {}
    <3>1. PICK b \in U \ {a} : \A y \in U \ {a} : b >= y
      BY <1>2, <2>2, <2>4
    <3> QED
      BY <2>1, <3>1
  <2> QED
    BY <2>3, <2>4
<1> HIDE DEF Good
<1>3. Nat \subseteq Good
  BY <1>1, <1>2, SetInduction
<1>4. Cardinality(T) \in Nat
  BY FS_CardinalityType
<1>5. Tops(T)
  BY <1>3, <1>4 DEF Good
<1> QED
  BY <1>5 DEF Max

LEMMA LeastOfTwo ==
  ASSUME NEW m \in Int, NEW n \in Int
  PROVE  Min({m, n}) = IF m <= n THEN m ELSE n
BY DEF Min

------------------------------------------------------------------------------
LEMMA Remainder ==
  ASSUME NEW n \in Nat, NEW d \in Nat \ {0}
  PROVE  n % d \in 0 .. d - 1 /\ n \div d \in Nat /\ n = (n \div d) * d + (n % d)
OBVIOUS

LEMMA ProductType ==
  ASSUME NEW m \in Nat, NEW n \in Nat
  PROVE  m * n \in Nat
OBVIOUS

LEMMA ProductMonotone ==
  ASSUME NEW m \in Nat, NEW n \in Nat, NEW d \in Nat, m <= n
  PROVE  m * d <= n * d
OBVIOUS

LEMMA ProductNext ==
  ASSUME NEW m \in Nat, NEW d \in Nat
  PROVE  (m + 1) * d = m * d + d
OBVIOUS

\* A number lies in one block: the one its quotient names.
LEMMA InBlock ==
  ASSUME NEW x \in Nat, NEW q \in Nat, NEW d \in Nat \ {0}, q * d <= x, x < q * d + d
  PROVE  x \div d = q
<1> DEFINE p == x \div d
           s == x % d
<1>1. s \in 0 .. d - 1 /\ p \in Nat /\ x = p * d + s
  BY Remainder
<1> HIDE DEF p, s
<1>2. p * d \in Nat /\ q * d \in Nat
  BY <1>1, ProductType
<1>3. ~ p + 1 <= q
  <2> SUFFICES ASSUME p + 1 <= q PROVE FALSE
    OBVIOUS
  <2>1. (p + 1) * d <= q * d /\ (p + 1) * d = p * d + d
    BY <1>1, ProductMonotone, ProductNext
  <2> QED
    BY <1>1, <1>2, <2>1
<1>4. ~ q + 1 <= p
  <2> SUFFICES ASSUME q + 1 <= p PROVE FALSE
    OBVIOUS
  <2>1. (q + 1) * d <= p * d /\ (q + 1) * d = q * d + d
    BY <1>1, ProductMonotone, ProductNext
  <2> QED
    BY <1>1, <1>2, <2>1
<1>5. p = q
  BY <1>1, <1>3, <1>4
<1> QED
  BY <1>5 DEF p

\* div_ceil is the number of blocks of size d that cover n values.
LEMMA CeilCovers ==
  ASSUME NEW n \in Nat, NEW d \in Nat \ {0}
  PROVE  /\ div_ceil(n, d) \in Nat
         /\ div_ceil(n, d) * d \in Nat
         /\ n <= div_ceil(n, d) * d
         /\ div_ceil(n, d) * d < n + d
         /\ n # 0 => div_ceil(n, d) # 0
         /\ n = 0 => div_ceil(n, d) = 0
<1> DEFINE k == (n + d - 1) \div d
           s == (n + d - 1) % d
<1>1. n + d - 1 \in Nat
  OBVIOUS
<1>2. s \in 0 .. d - 1 /\ k \in Nat /\ n + d - 1 = k * d + s
  BY <1>1, Remainder
<1>3. div_ceil(n, d) = k
  BY DEF div_ceil
<1> HIDE DEF k, s
<1>4. k * d \in Nat
  BY <1>2, ProductType
<1>5. n <= k * d /\ k * d < n + d
  BY <1>2, <1>4
<1>6. k = 0 => k * d = 0
  BY <1>2
<1>7. k >= 1 => k * d >= d
  <2> SUFFICES ASSUME k >= 1 PROVE k * d >= d
    OBVIOUS
  <2>1. 1 * d <= k * d /\ 1 * d = d
    BY <1>2, ProductMonotone
  <2> QED
    BY <2>1
<1> QED
  BY <1>2, <1>3, <1>4, <1>5, <1>6, <1>7

\* All blocks but the last are full.
LEMMA FullBefore ==
  ASSUME NEW n \in Nat, NEW d \in Nat \ {0}, NEW b \in Nat, b < div_ceil(n, d)
  PROVE  b * d \in Nat /\ b * d < n
<1>1. div_ceil(n, d) \in Nat /\ div_ceil(n, d) * d \in Nat /\ div_ceil(n, d) * d < n + d
  BY CeilCovers
<1>2. (b + 1) * d <= div_ceil(n, d) * d /\ (b + 1) * d = b * d + d
  BY <1>1, ProductMonotone, ProductNext
<1>3. b * d \in Nat
  BY ProductType
<1> QED
  BY <1>1, <1>2, <1>3

\* The largest magnitude of a slice is one of its values or 0, and none of its
\* values is above it.
LEMMA AmaxCovers ==
  ASSUME NEW slice \in Seq(Int)
  PROVE  /\ amax(slice) \in Nat
         /\ amax(slice) = 0 \/ \E i \in DOMAIN slice : amax(slice) = slice[i]
         /\ \A i \in DOMAIN slice : slice[i] <= amax(slice)
<1> DEFINE heights == {0} \cup {slice[i] : i \in DOMAIN slice}
<1>1. Len(slice) \in Nat /\ DOMAIN slice = 1 .. Len(slice) /\ \A i \in DOMAIN slice : slice[i] \in Int
  OBVIOUS
<1>2. heights \in SUBSET Int /\ heights # {}
  BY <1>1
<1>3. IsFiniteSet(heights)
  <2>1. IsFiniteSet(DOMAIN slice)
    <3>1. 1 \in Int /\ Len(slice) \in Int
      BY <1>1
    <3> QED
      BY <1>1, <3>1, FS_Interval
  <2>2. IsFiniteSet({slice[i] : i \in DOMAIN slice})
    <3>1. [i \in DOMAIN slice |-> slice[i]] \in Surjection(DOMAIN slice, {slice[i] : i \in DOMAIN slice})
      BY DEF Surjection
    <3> QED
      BY <2>1, <3>1, FS_Surjection
  <2>3. IsFiniteSet({0})
    BY FS_Singleton
  <2> QED
    BY <2>2, <2>3, FS_Union
<1>4. amax(slice) = Max(heights)
  BY DEF amax
<1>5. 0 \in heights /\ \A i \in DOMAIN slice : slice[i] \in heights
  OBVIOUS
<1>6. \A h \in heights : h = 0 \/ \E i \in DOMAIN slice : h = slice[i]
  OBVIOUS
<1> HIDE DEF heights
<1>7. Max(heights) \in heights /\ \A h \in heights : h <= Max(heights)
  BY <1>2, <1>3, MaxFound
<1>8. Max(heights) \in Int /\ 0 <= Max(heights)
  BY <1>2, <1>5, <1>7
<1> QED
  BY <1>4, <1>5, <1>6, <1>7, <1>8

LEMMA Concatenated ==
  ASSUME NEW S, NEW s \in Seq(S), NEW t \in Seq(S), NEW u \in Seq(S),
         Len(u) = Len(s) + Len(t),
         \A j \in 1 .. Len(u) : u[j] = IF j <= Len(s) THEN s[j] ELSE t[j - Len(s)]
  PROVE  u = s \o t
<1>1. /\ s \o t \in Seq(S) /\ Len(s \o t) = Len(s) + Len(t)
      /\ \A j \in 1 .. Len(s) + Len(t) :
           (s \o t)[j] = IF j <= Len(s) THEN s[j] ELSE t[j - Len(s)]
  BY ConcatProperties
<1>2. Len(u) = Len(s \o t) /\ \A j \in 1 .. Len(u) : u[j] = (s \o t)[j]
  BY <1>1
<1> QED
  BY <1>1, <1>2, SeqEqual

\* Where the first b blocks of size d end in a slice of n values.
EndOf(b, d, n) == IF b * d < n THEN b * d ELSE n

\* The values of a block.
LEMMA BlockValues ==
  ASSUME NEW slice \in Seq(Int), NEW d \in Nat \ {0}, NEW b \in Nat, b < div_ceil(Len(slice), d)
  PROVE  LET start == b * d
             end == EndOf(b + 1, d, Len(slice))
         IN  /\ start \in Nat /\ end \in Nat /\ start < end /\ end <= start + d
             /\ end <= Len(slice)
             /\ Block(slice, d, b) \in Seq(Int)
             /\ Len(Block(slice, d, b)) = end - start
             /\ DOMAIN Block(slice, d, b) = 1 .. end - start
             /\ \A j \in 1 .. end - start : Block(slice, d, b)[j] = slice[start + j]
<1> DEFINE n == Len(slice)
           start == b * d
           end == EndOf(b + 1, d, n)
<1>1. n \in Nat /\ \A i \in 1 .. n : slice[i] \in Int
  OBVIOUS
<1>2. start \in Nat /\ start < n /\ (b + 1) * d = start + d
  BY <1>1, FullBefore, ProductNext
<1>3. end = IF start + d < n THEN start + d ELSE n
  BY <1>2 DEF EndOf
<1>4. Min({start + d, n}) = end
  BY <1>1, <1>2, <1>3, LeastOfTwo
<1>5. Block(slice, d, b) = SubSeq(slice, start + 1, end)
  BY <1>4 DEF Block
<1> HIDE DEF start, end, n
<1>6. start < end /\ end <= start + d /\ end <= n /\ end \in Nat
  BY <1>1, <1>2, <1>3
<1>7. start + 1 \in Int /\ end \in Int /\ \A i \in start + 1 .. end : slice[i] \in Int
  BY <1>1, <1>2, <1>6
<1>8. /\ SubSeq(slice, start + 1, end) \in Seq(Int)
      /\ Len(SubSeq(slice, start + 1, end)) = IF start + 1 <= end THEN end - (start + 1) + 1 ELSE 0
      /\ \A j \in 1 .. end - (start + 1) + 1 : SubSeq(slice, start + 1, end)[j] = slice[start + 1 + j - 1]
  BY <1>7, SubSeqProperties
<1>9. end - (start + 1) + 1 = end - start /\ \A j \in 1 .. end - start : start + 1 + j - 1 = start + j
  BY <1>2, <1>6
<1>10. /\ Block(slice, d, b) \in Seq(Int)
       /\ Len(Block(slice, d, b)) = end - start
       /\ \A j \in 1 .. end - start : Block(slice, d, b)[j] = slice[start + j]
  BY <1>2, <1>5, <1>6, <1>8, <1>9
<1>11. DOMAIN Block(slice, d, b) = 1 .. end - start
  BY <1>10
<1> QED
  BY <1>2, <1>6, <1>10, <1>11 DEF n, start, end

\* What a value is cast to: it keeps the scale of its block.
CastTo(v, scale, format) == [value |-> v, scale |-> scale, format |-> format]
CastValue(slice, d, format, i) ==
  CastTo(slice[i], scale_for(amax(Block(slice, d, (i - 1) \div d)), format), format)

\* The blocks partition the slice.
LEMMA BlocksJoin ==
  ASSUME NEW slice \in Seq(Int), NEW d \in Nat \ {0}, NEW format
  PROVE  to_fp8_per_block(slice, format, d).data
           = [i \in 1 .. Len(slice) |-> CastValue(slice, d, format, i)]
<1> DEFINE n == Len(slice)
           k == div_ceil(n, d)
           S == {CastValue(slice, d, format, i) : i \in 1 .. n}
           blocks == [b \in 1 .. k |-> Block(slice, d, b - 1)]
           scales == [b \in DOMAIN blocks |-> scale_for(amax(blocks[b]), format)]
           parts == [b \in DOMAIN blocks |-> quantize_bytes(blocks[b], format, scales[b])]
           f == [b \in 1 .. k |-> [i \in 1 .. EndOf(b, d, n) |-> CastValue(slice, d, format, i)]]
<1>1. n \in Nat /\ k \in Nat /\ (n # 0 => k # 0) /\ (n = 0 => k = 0)
      /\ k * d \in Nat /\ n <= k * d
  <2>1. n \in Nat
    OBVIOUS
  <2> QED
    BY <2>1, CeilCovers
<1>2. to_fp8_per_block(slice, format, d).data = FlattenSeq(parts)
  BY DEF to_fp8_per_block, Tensor
<1>3. CASE n = 0
  <2>1. 1 .. k = {} /\ 1 .. n = {}
    BY <1>1, <1>3
  <2>2. parts = <<>>
    BY <2>1
  <2>3. FlattenSeq(parts) = <<>>
    BY <2>2 DEF FlattenSeq
  <2>4. [i \in 1 .. Len(slice) |-> CastValue(slice, d, format, i)] = <<>>
    BY <2>1
  <2> QED
    BY <1>2, <2>3, <2>4
<1>4. CASE n # 0
  <2>1. \A b \in 0 .. k : EndOf(b, d, n) \in 0 .. n
    <3> SUFFICES ASSUME NEW b \in 0 .. k PROVE EndOf(b, d, n) \in 0 .. n
      OBVIOUS
    <3>1. b * d \in Nat
      BY <1>1, ProductType
    <3> QED
      BY <1>1, <3>1 DEF EndOf
  <2>2. \A b \in 1 .. k : f[b] \in Seq(S)
    <3> SUFFICES ASSUME NEW b \in 1 .. k PROVE f[b] \in Seq(S)
      OBVIOUS
    <3>1. EndOf(b, d, n) \in 0 .. n
      BY <1>1, <2>1
    <3>2. \A i \in 1 .. EndOf(b, d, n) : CastValue(slice, d, format, i) \in S
      BY <1>1, <3>1
    <3> HIDE DEF S
    <3>3. f[b] = [i \in 1 .. EndOf(b, d, n) |-> CastValue(slice, d, format, i)]
      OBVIOUS
    <3> QED
      BY <3>1, <3>2, <3>3
  <2>3. ASSUME NEW b \in 0 .. k - 1
        PROVE  /\ parts[b + 1] \in Seq(S)
               /\ Len(parts[b + 1]) = EndOf(b + 1, d, n) - b * d
               /\ \A j \in 1 .. EndOf(b + 1, d, n) - b * d :
                    parts[b + 1][j] = CastValue(slice, d, format, b * d + j)
    <3> DEFINE start == b * d
               len == EndOf(b + 1, d, n) - start
               own_values == Block(slice, d, b)
               own_scale == scale_for(amax(own_values), format)
    <3>1. b \in Nat /\ b < k /\ b + 1 \in 1 .. k /\ b + 1 - 1 = b
      BY <1>1
    <3>2. /\ start \in Nat /\ EndOf(b + 1, d, n) \in Nat /\ start < EndOf(b + 1, d, n)
          /\ EndOf(b + 1, d, n) <= start + d /\ EndOf(b + 1, d, n) <= n
          /\ DOMAIN own_values = 1 .. len
          /\ \A j \in 1 .. len : own_values[j] = slice[start + j]
      BY <3>1, BlockValues
    <3>3. parts[b + 1] = [j \in DOMAIN own_values |-> CastTo(own_values[j], own_scale, format)]
      <4>1. blocks[b + 1] = own_values /\ scales[b + 1] = own_scale
        BY <3>1
      <4>2. parts[b + 1] = quantize_bytes(own_values, format, own_scale)
        BY <3>1, <4>1
      <4> QED
        BY <4>2 DEF quantize_bytes, CastTo
    <3> HIDE DEF own_values, own_scale, start, parts, S
    <3>4. len \in Nat
      BY <3>2
    <3>5. ASSUME NEW j \in 1 .. len
          PROVE  /\ parts[b + 1][j] = CastValue(slice, d, format, start + j)
                 /\ start + j \in 1 .. n
      <4>1. start + j \in 1 .. n /\ (start + j) - 1 \in Nat /\ start <= (start + j) - 1 /\ (start + j) - 1 < start + d
        BY <1>1, <3>2, <3>4
      <4>2. ((start + j) - 1) \div d = b
        BY <3>1, <4>1, InBlock DEF start
      <4>3. parts[b + 1][j] = CastTo(own_values[j], own_scale, format)
        BY <3>2, <3>3
      <4>4. parts[b + 1][j] = CastTo(slice[start + j], own_scale, format)
        BY <3>2, <4>3
      <4>5. CastValue(slice, d, format, start + j)
              = CastTo(slice[start + j], own_scale, format)
        BY <4>2 DEF CastValue, own_values, own_scale
      <4> QED
        BY <4>1, <4>4, <4>5
    <3>6. \A j \in 1 .. len : parts[b + 1][j] \in S
      BY <3>5 DEF S
    <3>7. DOMAIN parts[b + 1] = 1 .. len /\ parts[b + 1] = [j \in 1 .. len |-> parts[b + 1][j]]
      BY <3>2, <3>3
    <3> HIDE DEF len
    <3>8. parts[b + 1] \in Seq(S)
      BY <3>4, <3>6, <3>7
    <3>9. Len(parts[b + 1]) = len
      BY <3>4, <3>7, <3>8
    <3> QED
      BY <3>5, <3>8, <3>9 DEF len, start
  <2>4. f[1] = parts[1]
    <3>1. 0 \in 0 .. k - 1 /\ 0 + 1 = 1 /\ 0 * d = 0 /\ 1 \in 1 .. k
      BY <1>1, <1>4
    <3>2. EndOf(1, d, n) \in Nat
      BY <1>1, <2>1, <3>1
    <3>3. f[1] \in Seq(S) /\ f[1] = [i \in 1 .. EndOf(1, d, n) |-> CastValue(slice, d, format, i)]
      BY <2>2, <3>1
    <3>4. /\ parts[1] \in Seq(S)
          /\ Len(parts[1]) = EndOf(1, d, n)
          /\ \A j \in 1 .. EndOf(1, d, n) : parts[1][j] = CastValue(slice, d, format, j)
      <4>1. /\ parts[1] \in Seq(S) /\ Len(parts[1]) = EndOf(1, d, n) - 0
            /\ \A j \in 1 .. EndOf(1, d, n) - 0 : parts[1][j] = CastValue(slice, d, format, 0 + j)
        BY <2>3, <3>1
      <4> HIDE DEF parts, S
      <4> QED
        BY <3>2, <4>1
    <3> HIDE DEF parts, S, f
    <3>5. Len(f[1]) = EndOf(1, d, n) /\ \A j \in 1 .. EndOf(1, d, n) : f[1][j] = CastValue(slice, d, format, j)
      BY <3>2, <3>3
    <3> QED
      BY <3>2, <3>3, <3>4, <3>5, SeqEqual
  <2>5. ASSUME NEW b \in 1 .. k - 1 PROVE f[b + 1] = Joined(f[b], parts[b + 1])
    <3> DEFINE start == b * d
               end == EndOf(b + 1, d, n)
    <3>1. b \in 0 .. k - 1 /\ b \in 1 .. k /\ b + 1 \in 1 .. k /\ b \in Nat /\ b < k
      BY <1>1
    <3>2. start \in Nat /\ start < n /\ EndOf(b, d, n) = start
      BY <1>1, <3>1, FullBefore DEF EndOf
    <3>3. end \in Nat /\ start < end
      BY <3>1, BlockValues
    <3>4. f[b] \in Seq(S) /\ f[b] = [i \in 1 .. start |-> CastValue(slice, d, format, i)]
      BY <2>2, <3>1, <3>2
    <3>5. f[b + 1] \in Seq(S) /\ f[b + 1] = [i \in 1 .. end |-> CastValue(slice, d, format, i)]
      BY <2>2, <3>1
    <3>6. /\ parts[b + 1] \in Seq(S)
          /\ Len(parts[b + 1]) = end - start
          /\ \A j \in 1 .. end - start : parts[b + 1][j] = CastValue(slice, d, format, start + j)
      BY <2>3, <3>1
    <3> HIDE DEF parts, S, f, start, end
    <3>7. Len(f[b]) = start /\ \A j \in 1 .. start : f[b][j] = CastValue(slice, d, format, j)
      BY <3>2, <3>4
    <3>8. Len(f[b + 1]) = end /\ \A j \in 1 .. end : f[b + 1][j] = CastValue(slice, d, format, j)
      BY <3>3, <3>5
    <3>9. ASSUME NEW j \in 1 .. end
          PROVE  f[b + 1][j] = IF j <= start THEN f[b][j] ELSE parts[b + 1][j - start]
      <4>1. CASE j <= start
        BY <3>2, <3>3, <3>7, <3>8, <4>1
      <4>2. CASE ~ j <= start
        <5>1. j - start \in 1 .. end - start /\ start + (j - start) = j
          BY <3>2, <3>3, <4>2
        <5> QED
          BY <3>6, <3>8, <4>2, <5>1
      <4> QED
        BY <4>1, <4>2
    <3>10. /\ Len(f[b + 1]) = Len(f[b]) + Len(parts[b + 1])
           /\ \A j \in 1 .. Len(f[b + 1]) :
                f[b + 1][j] = IF j <= Len(f[b]) THEN f[b][j] ELSE parts[b + 1][j - Len(f[b])]
      BY <3>2, <3>3, <3>6, <3>7, <3>8, <3>9
    <3>11. f[b + 1] = f[b] \o parts[b + 1]
      BY <3>4, <3>5, <3>6, <3>10, Concatenated
    <3> QED
      BY <3>11 DEF Joined
  <2>6. Flattens(f, parts, k)
    BY <2>4, <2>5 DEF Flattens
  <2>7. f \in [1 .. k -> Seq(S)]
    BY <2>2
  <2>8. Len(parts) = k /\ k \in Nat \ {0}
    BY <1>1, <1>4
  <2>9. f[k] = [i \in 1 .. n |-> CastValue(slice, d, format, i)]
    <3>1. EndOf(k, d, n) = n /\ k \in 1 .. k
      BY <1>1, <2>8 DEF EndOf
    <3> QED
      BY <3>1
  <2> HIDE DEF f, parts, S
  <2>10. FlattenSeq(parts) = f[k]
    BY <2>6, <2>7, <2>8, FlattenedAs
  <2> QED
    BY <1>2, <2>9, <2>10
<1> QED
  BY <1>3, <1>4

\* The delayed scale is for one of the entries, and none of them is above it.
LEMMA PeakCovers ==
  ASSUME TypeOK
  PROVE  /\ current_amax \in Amaxes \cap Nat
         /\ \A slot \in Slots : amax_history[slot] <= current_amax
<1> DEFINE heights == {0} \cup {amax_history[slot] : slot \in Slots}
<1>1. history_length \in Nat /\ amax_history \in [Slots -> Amaxes \cup {0}] /\ Amaxes \subseteq Int
  BY DelayedScalingAssumption DEF TypeOK
<1>2. heights \subseteq Amaxes \cup {0}
  BY <1>1
<1>3. IsFiniteSet(heights)
  <2>1. IsFiniteSet(Slots)
    <3>1. 0 \in Int /\ history_length - 1 \in Int
      BY <1>1
    <3> QED
      BY <3>1, FS_Interval DEF Slots
  <2>2. IsFiniteSet({amax_history[slot] : slot \in Slots})
    <3>1. [slot \in Slots |-> amax_history[slot]] \in Surjection(Slots, {amax_history[slot] : slot \in Slots})
      BY DEF Surjection
    <3> QED
      BY <2>1, <3>1, FS_Surjection
  <2>3. IsFiniteSet({0})
    BY FS_Singleton
  <2> QED
    BY <2>2, <2>3, FS_Union
<1>4. 0 \in heights /\ \A slot \in Slots : amax_history[slot] \in heights
  OBVIOUS
<1>5. current_amax = Max(heights)
  BY DEF current_amax
<1> HIDE DEF heights
<1>6. heights \in SUBSET Int /\ heights # {}
  BY <1>1, <1>2, <1>4
<1>7. Max(heights) \in heights /\ \A h \in heights : h <= Max(heights)
  BY <1>3, <1>6, MaxFound
<1>8. Max(heights) \in Int /\ 0 <= Max(heights)
  BY <1>4, <1>6, <1>7
<1> QED
  BY <1>2, <1>4, <1>5, <1>7, <1>8, Fp8Assumption
------------------------------------------------------------------------------
\* The whole slice with one scale; over the wire the amax stays behind.
LEMMA WholeFacts ==
  ASSUME NEW slice, NEW format, NEW scale, NEW t, t = to_fp8_with_scale(slice, format, scale)
  PROVE  /\ t.data = [i \in DOMAIN slice |-> CastTo(slice[i], scale, format)]
         /\ t.format = format /\ t.scale = scale /\ t.block_scales = None
         /\ t.amaxes = <<amax(slice)>>
BY DEF to_fp8_with_scale, Tensor, quantize_bytes, CastTo

LEMMA WireFacts ==
  ASSUME NEW slice, NEW format \in Fp8Format, NEW t, t = Wire(to_fp8(slice, format))
  PROVE  /\ t.data = [i \in DOMAIN slice |-> CastTo(slice[i], t.scale, format)]
         /\ t.format = format /\ t.scale = scale_for(amax(slice), format) /\ t.block_scales = None
         /\ t.amaxes = <<>>
<1> DEFINE whole == to_fp8(slice, format)
           scale == scale_for(amax(slice), format)
<1>1. whole = to_fp8_with_scale(slice, format, scale)
  BY DEF to_fp8
<1> HIDE DEF whole
<1>2. /\ whole.data = [i \in DOMAIN slice |-> CastTo(slice[i], scale, format)]
      /\ whole.format = format /\ whole.scale = scale
  BY <1>1, WholeFacts
<1>3. t = Wire(whole)
  BY DEF whole
<1>4. t.data = whole.data /\ t.scale = whole.scale /\ t.block_scales = None /\ t.amaxes = <<>>
  BY <1>3 DEF Wire, Tensor
<1>5. t.format = format
  BY <1>2, <1>3 DEF Wire, Tensor, Fp8Format
<1> QED
  BY <1>2, <1>4, <1>5

\* The scales of the blocks, in order.
ScalesOf(slice, d, format) ==
  [b \in 1 .. div_ceil(Len(slice), d) |-> scale_for(amax(Block(slice, d, b - 1)), format)]

LEMMA BlockFacts ==
  ASSUME NEW slice \in Seq(Int), NEW format, NEW d \in Nat \ {0},
         NEW t, t = to_fp8_per_block(slice, format, d)
  PROVE  /\ t.data = [i \in 1 .. Len(slice) |-> CastValue(slice, d, format, i)]
         /\ t.format = format /\ t.block_scales = <<ScalesOf(slice, d, format)>>
         /\ t.amaxes = <<amax(slice)>>
<1>1. t.data = [i \in 1 .. Len(slice) |-> CastValue(slice, d, format, i)]
  BY BlocksJoin
<1>2. t.format = format /\ t.amaxes = <<amax(slice)>>
  BY DEF to_fp8_per_block, Tensor
<1>3. t.block_scales = <<ScalesOf(slice, d, format)>>
  <2> DEFINE blocks == [b \in 1 .. div_ceil(Len(slice), d) |-> Block(slice, d, b - 1)]
  <2>1. t.block_scales = <<[b \in DOMAIN blocks |-> scale_for(amax(blocks[b]), format)]>>
    BY DEF to_fp8_per_block, Tensor
  <2>2. [b \in DOMAIN blocks |-> scale_for(amax(blocks[b]), format)] = ScalesOf(slice, d, format)
    BY DEF ScalesOf
  <2> QED
    BY <2>1, <2>2
<1> QED
  BY <1>1, <1>2, <1>3

\* A tensor is what the slice at hand was cast to, in one of the four ways, and
\* what was decoded is that tensor.
HowCast ==
  /\ tensor # None =>
       \E format \in Fp8Format :
         \/ \E scale \in Nat : tensor = to_fp8_with_scale(values, format, scale)
         \/ tensor = to_fp8_per_block(values, format, block_size) /\ block_size \in BlockSizes
         \/ tensor = Wire(to_fp8(values, format))
  /\ decoded # None => tensor # None /\ decoded = <<from_fp8(tensor)>>

\* So much is known of any tensor.
InBlocks == tensor = to_fp8_per_block(values, tensor.format, block_size) /\ block_size \in BlockSizes

LEMMA SliceTypes ==
  ASSUME NEW slice \in Slices
  PROVE  /\ slice \in Seq(Int) /\ Len(slice) \in Nat /\ DOMAIN slice = 1 .. Len(slice)
         /\ amax(slice) \in Amaxes \cap Nat
         /\ \A i \in DOMAIN slice : slice[i] \in Int /\ slice[i] <= amax(slice)
<1>1. slice \in Seq(Int)
  BY Fp8Assumption
<1>2. /\ amax(slice) \in Nat
      /\ amax(slice) = 0 \/ \E i \in DOMAIN slice : amax(slice) = slice[i]
      /\ \A i \in DOMAIN slice : slice[i] <= amax(slice)
  BY <1>1, AmaxCovers
<1>3. 0 \in Amaxes /\ \A i \in DOMAIN slice : slice[i] \in Amaxes
  BY Fp8Assumption
<1> QED
  BY <1>1, <1>2, <1>3

LEMMA CastFacts ==
  ASSUME values \in Slices, HowCast, tensor # None
  PROVE  /\ tensor.format \in Fp8Format
         /\ DOMAIN tensor.data = 1 .. Len(values) /\ Len(tensor.data) = Len(values)
         /\ \A i \in 1 .. Len(values) : tensor.data[i].value = values[i]
         /\ \/ InBlocks /\ tensor.block_scales = <<ScalesOf(values, block_size, tensor.format)>>
            \/ /\ tensor.block_scales = None
               /\ tensor.data = [i \in 1 .. Len(values) |-> CastTo(values[i], tensor.scale, tensor.format)]
         /\ \/ tensor.amaxes = <<amax(values)>>
            \/ tensor.amaxes = <<>> /\ tensor.scale = scale_for(amax(values), tensor.format)
<1>1. values \in Seq(Int) /\ Len(values) \in Nat /\ DOMAIN values = 1 .. Len(values)
  BY SliceTypes
<1>2. PICK format \in Fp8Format :
         \/ \E scale \in Nat : tensor = to_fp8_with_scale(values, format, scale)
         \/ tensor = to_fp8_per_block(values, format, block_size) /\ block_size \in BlockSizes
         \/ tensor = Wire(to_fp8(values, format))
  BY DEF HowCast
<1>3. CASE \E scale \in Nat : tensor = to_fp8_with_scale(values, format, scale)
  <2>1. PICK scale \in Nat : tensor = to_fp8_with_scale(values, format, scale)
    BY <1>3
  <2>2. /\ tensor.data = [i \in DOMAIN values |-> CastTo(values[i], scale, format)]
        /\ tensor.format = format /\ tensor.scale = scale /\ tensor.block_scales = None
        /\ tensor.amaxes = <<amax(values)>>
    BY <2>1, WholeFacts
  <2>3. \A i \in 1 .. Len(values) : tensor.data[i].value = values[i]
    BY <1>1, <2>2 DEF CastTo
  <2>4. Len(tensor.data) = Len(values) /\ DOMAIN tensor.data = 1 .. Len(values)
    BY <1>1, <2>2
  <2>5. tensor.data = [i \in 1 .. Len(values) |-> CastTo(values[i], tensor.scale, tensor.format)]
    BY <1>1, <2>2
  <2> QED
    BY <2>2, <2>3, <2>4, <2>5
<1>4. CASE tensor = Wire(to_fp8(values, format))
  <2>1. /\ tensor.data = [i \in DOMAIN values |-> CastTo(values[i], tensor.scale, format)]
        /\ tensor.format = format /\ tensor.scale = scale_for(amax(values), format) /\ tensor.block_scales = None
        /\ tensor.amaxes = <<>>
    BY <1>4, WireFacts
  <2>2. \A i \in 1 .. Len(values) : tensor.data[i].value = values[i]
    BY <1>1, <2>1 DEF CastTo
  <2>3. Len(tensor.data) = Len(values) /\ DOMAIN tensor.data = 1 .. Len(values)
    BY <1>1, <2>1
  <2>4. tensor.data = [i \in 1 .. Len(values) |-> CastTo(values[i], tensor.scale, tensor.format)]
    BY <1>1, <2>1
  <2> QED
    BY <2>1, <2>2, <2>3, <2>4
<1>5. CASE tensor = to_fp8_per_block(values, format, block_size) /\ block_size \in BlockSizes
  <2>1. /\ tensor.data = [i \in 1 .. Len(values) |-> CastValue(values, block_size, format, i)]
        /\ tensor.format = format /\ tensor.block_scales = <<ScalesOf(values, block_size, format)>>
        /\ tensor.amaxes = <<amax(values)>>
    <3>1. block_size \in Nat \ {0}
      BY <1>5, Fp8Assumption
    <3> QED
      BY <1>1, <1>5, <3>1, BlockFacts
  <2>2. \A i \in 1 .. Len(values) : tensor.data[i].value = values[i]
    BY <1>1, <2>1 DEF CastTo, CastValue
  <2>3. Len(tensor.data) = Len(values) /\ DOMAIN tensor.data = 1 .. Len(values)
    BY <1>1, <2>1
  <2> QED
    BY <1>5, <2>1, <2>2, <2>3 DEF InBlocks
<1> QED
  BY <1>2, <1>3, <1>4, <1>5

LEMMA CastInitTypes == Fp8Init => Fp8TypeOK /\ HowCast
<1> SUFFICES ASSUME Fp8Init PROVE Fp8TypeOK /\ HowCast
  OBVIOUS
<1>1. TypeOK
  BY HistoryInit DEF Fp8Init
<1>2. values \in Slices /\ block_size \in Nat /\ tensor = None /\ decoded = None
  BY SliceTypes DEF Fp8Init
<1> QED
  BY <1>1, <1>2 DEF Fp8TypeOK, HowCast

LEMMA ScaleType ==
  ASSUME NEW peak \in Nat, NEW format
  PROVE  scale_for(peak, format) \in Nat
BY DEF scale_for, fp8_format_max

LEMMA SmallestType ==
  ASSUME NEW format \in Fp8Format
  PROVE  Smallest[format] \in 1 .. 416
<1>1. Smallest \in [Fp8Format -> 1 .. 416]
  BY Fp8Assumption
<1> QED
  BY <1>1

\* What delayed scaling is told of a tensor is the largest magnitude of its
\* slice, or, after the wire, the largest number of the format for 0, and 0 for
\* infinity and for what is too small to have a scale.
LEMMA Told ==
  ASSUME values \in Slices, HowCast, tensor # None
  PROVE  /\ amax_of(tensor) \in Amaxes
         /\ \/ amax_of(tensor) = amax(values)
            \/ amax_of(tensor) = fp8_format_max(tensor.format) /\ amax(values) = 0
            \/ amax_of(tensor) = 0 /\ amax(values) < Smallest[tensor.format]
            \/ amax_of(tensor) = 0 /\ LostOnTheWire
<1>1. amax(values) \in Amaxes \cap Nat /\ 0 \in Amaxes
  BY SliceTypes, Fp8Assumption
<1>2. fp8_format_max(tensor.format) \in Amaxes /\ tensor.format \in Fp8Format
  BY CastFacts, Fp8Assumption DEF fp8_format_max
<1>3. CASE tensor.amaxes = <<amax(values)>>
  <2>1. tensor.amaxes # <<>> /\ Len(tensor.amaxes) = 1 /\ tensor.amaxes[1] = amax(values)
    BY <1>3
  <2>2. Last(tensor.amaxes) = amax(values)
    BY <2>1 DEF Last
  <2>3. amax_of(tensor) = amax(values)
    BY <2>1, <2>2 DEF amax_of
  <2> QED
    BY <1>1, <2>3
<1>4. CASE tensor.amaxes = <<>> /\ tensor.scale = scale_for(amax(values), tensor.format)
  <2>1. amax_of(tensor) = IF tensor.scale = Infinity THEN 0 ELSE tensor.scale
    BY <1>4 DEF amax_of, amax_of_scale
  <2>2. CASE amax(values) = 0
    <3>1. tensor.scale = fp8_format_max(tensor.format)
      BY <1>4, <2>2 DEF scale_for
    <3>2. Smallest[tensor.format] \in 1 .. 416
      BY <1>2, SmallestType
    <3> QED
      BY <1>1, <1>2, <2>1, <2>2, <3>1, <3>2
  <2>3. CASE amax(values) # 0 /\ amax(values) < Smallest[tensor.format]
    <3>1. tensor.scale = 0
      BY <1>4, <2>3 DEF scale_for
    <3> QED
      BY <1>1, <2>1, <2>3, <3>1
  <2>4. CASE amax(values) # 0 /\ ~ amax(values) < Smallest[tensor.format]
    <3>1. tensor.scale = amax(values)
      BY <1>4, <2>4 DEF scale_for
    <3> QED
      BY <1>1, <1>4, <2>1, <3>1 DEF LostOnTheWire
  <2> QED
    BY <2>2, <2>3, <2>4
<1> QED
  BY <1>3, <1>4, CastFacts

LEMMA CastNextTypes == Fp8TypeOK /\ HowCast /\ [Fp8Next]_allVars => Fp8TypeOK' /\ HowCast'
<1> SUFFICES ASSUME Fp8TypeOK, HowCast, [Fp8Next]_allVars PROVE Fp8TypeOK' /\ HowCast'
  OBVIOUS
<1>0. TypeOK /\ values \in Slices /\ block_size \in Nat
  BY DEF Fp8TypeOK
<1>1. ASSUME NEW format \in Fp8Format, Cast(format) PROVE Fp8TypeOK' /\ HowCast'
  <2>1. /\ TypeOK' /\ values' = values /\ decoded' = decoded /\ decoded = None
    BY <1>0, <1>1 DEF Cast, HowCast, vars, TypeOK, Slots
  <2>2. HowCast'
    <3>1. CASE tensor' = to_fp8(values, format)
      <4>1. /\ scale_for(amax(values), format) \in Nat
            /\ tensor' = to_fp8_with_scale(values, format, scale_for(amax(values), format))
        BY <1>0, <3>1, SliceTypes, ScaleType DEF to_fp8
      <4> QED
        BY <2>1, <4>1 DEF HowCast
    <3>2. CASE tensor' = to_fp8_with_scale(values, format, compute_scale(format))
      <4>1. compute_scale(format) \in Nat
        BY <1>0, PeakCovers, ScaleType DEF compute_scale
      <4> QED
        BY <2>1, <3>2, <4>1 DEF HowCast
    <3>3. ASSUME NEW size \in BlockSizes,
                 tensor' = to_fp8_per_block(values, format, size), block_size' = size
          PROVE  HowCast'
      BY <2>1, <3>3 DEF HowCast
    <3>4. CASE tensor' = Wire(to_fp8(values, format))
      BY <2>1, <3>4 DEF HowCast
    <3> QED
      BY <1>1, <3>1, <3>2, <3>3, <3>4 DEF Cast
  <2>3. block_size' \in Nat
    BY <1>0, <1>1, Fp8Assumption DEF Cast
  <2>4. (values \in Slices /\ HowCast /\ tensor # None =>
           tensor.format \in Fp8Format /\ Len(tensor.data) = Len(values))'
    BY CastFacts, PTL
  <2>5. (tensor # None => tensor.format \in Fp8Format /\ Len(tensor.data) <= Len(values))'
    BY <1>0, <2>1, <2>2, <2>4, SliceTypes
  <2> QED
    BY <1>0, <2>1, <2>2, <2>3, <2>5 DEF Fp8TypeOK
<1>2. CASE Decode
  <2>1. /\ TypeOK' /\ values' = values /\ block_size' = block_size /\ tensor' = tensor
        /\ tensor # None /\ decoded' = <<from_fp8(tensor)>>
    BY <1>0, <1>2 DEF Decode, vars, TypeOK, Slots
  <2>2. Len(decoded'[1]) = Len(tensor.data)
    <3>1. DOMAIN tensor.data = 1 .. Len(values) /\ Len(tensor.data) = Len(values) /\ Len(values) \in Nat
      BY <1>0, <2>1, CastFacts, SliceTypes
    <3>2. decoded'[1] = from_fp8(tensor)
      BY <2>1
    <3>3. Len(from_fp8(tensor)) = Len(values)
      BY <3>1 DEF from_fp8
    <3> QED
      BY <3>1, <3>2, <3>3
  <2>3. HowCast'
    BY <2>1 DEF HowCast
  <2> QED
    BY <1>0, <2>1, <2>2, <2>3 DEF Fp8TypeOK
<1>3. ASSUME NEW slice \in Slices, Observe(slice) PROVE Fp8TypeOK' /\ HowCast'
  <2>1. /\ values' = slice /\ block_size' = Len(slice) /\ tensor' = None /\ decoded' = None
        /\ tensor # None /\ (Update(amax_of(tensor)) \/ UpdatePanics)
    BY <1>3 DEF Observe, HowCast
  <2>2. TypeOK'
    <3>1. Next
      BY <1>0, <2>1, Told DEF Next
    <3> QED
      BY <1>0, <3>1, HistoryTypes
  <2>3. block_size' \in Nat
    BY <2>1, SliceTypes
  <2> QED
    BY <2>1, <2>2, <2>3 DEF Fp8TypeOK, HowCast
<1>4. CASE UpdateAny
  <2>1. TypeOK'
    BY <1>0, <1>4, HistoryTypes DEF UpdateAny
  <2> QED
    BY <1>4, <2>1 DEF UpdateAny, fp8Vars, Fp8TypeOK, HowCast
<1>5. CASE UNCHANGED allVars
  <2>1. TypeOK' /\ UNCHANGED fp8Vars
    BY <1>0, <1>5, HistoryTypes DEF allVars, fp8Vars
  <2> QED
    BY <2>1 DEF fp8Vars, Fp8TypeOK, HowCast
<1> QED
  BY <1>1, <1>2, <1>3, <1>4, <1>5 DEF Fp8Next

\* quantize.rs: what is cast has a value for each of the slice, and so has what
\* is decoded; the types of the tensors hold however they were cast.
THEOREM CastTypeCorrect == Fp8Spec => []Fp8TypeOK
<1>1. Fp8Spec => [](Fp8TypeOK /\ HowCast)
  BY CastInitTypes, CastNextTypes, PTL DEF Fp8Spec
<1> QED
  BY <1>1, PTL
------------------------------------------------------------------------------
\* The values of the block of the i-th are those with the same quotient.
LEMMA OwnBlock ==
  ASSUME NEW slice \in Seq(Int), NEW d \in Nat \ {0}, NEW i \in 1 .. Len(slice)
  PROVE  amax(Block(slice, d, (i - 1) \div d))
           = Max({0} \cup {slice[j] : j \in {j \in 1 .. Len(slice) : (j - 1) \div d = (i - 1) \div d}})
<1> DEFINE n == Len(slice)
           b == (i - 1) \div d
           own == {j \in 1 .. n : (j - 1) \div d = b}
           start == b * d
           end == EndOf(b + 1, d, n)
           own_values == Block(slice, d, b)
<1>1. n \in Nat /\ i - 1 \in Nat
  OBVIOUS
<1>2. b \in Nat /\ start \in Nat /\ start <= i - 1 /\ i - 1 < start + d
  <2>1. (i - 1) % d \in 0 .. d - 1 /\ b \in Nat /\ i - 1 = b * d + ((i - 1) % d)
    BY <1>1, Remainder
  <2>2. b * d \in Nat
    BY <2>1, ProductType
  <2> QED
    BY <2>1, <2>2
<1>3. b < div_ceil(n, d)
  <2>1. div_ceil(n, d) \in Nat /\ div_ceil(n, d) * d \in Nat /\ n <= div_ceil(n, d) * d
    BY <1>1, CeilCovers
  <2>2. ~ div_ceil(n, d) <= b
    <3> SUFFICES ASSUME div_ceil(n, d) <= b PROVE FALSE
      OBVIOUS
    <3>1. div_ceil(n, d) * d <= b * d
      BY <1>2, <2>1, ProductMonotone
    <3> QED
      BY <1>1, <1>2, <2>1, <3>1
  <2> QED
    BY <1>2, <2>1, <2>2
<1>4. /\ end \in Nat /\ end <= n
      /\ DOMAIN own_values = 1 .. end - start
      /\ \A j \in 1 .. end - start : own_values[j] = slice[start + j]
  BY <1>2, <1>3, BlockValues
<1>5. end = IF start + d < n THEN start + d ELSE n
  <2>1. (b + 1) * d = start + d
    BY <1>2, ProductNext
  <2> QED
    BY <2>1 DEF EndOf
<1>6. ASSUME NEW j \in 1 .. n PROVE (j - 1) \div d = b <=> j \in start + 1 .. end
  <2>1. CASE j \in start + 1 .. end
    <3> HIDE DEF start, end, b
    <3>1. j - 1 \in Nat /\ start <= j - 1 /\ j - 1 < start + d
      BY <1>1, <1>2, <1>4, <1>5, <2>1
    <3>2. (j - 1) \div d = b
      BY <1>2, <3>1, InBlock DEF start
    <3> QED
      BY <2>1, <3>2
  <2>2. CASE (j - 1) \div d = b
    <3>1. j - 1 \in Nat
      BY <1>1
    <3> DEFINE rest == (j - 1) % d
    <3>2. rest \in 0 .. d - 1 /\ j - 1 = ((j - 1) \div d) * d + rest
      BY <3>1, Remainder
    <3>3. j - 1 = start + rest
      BY <2>2, <3>2
    <3> HIDE DEF start, rest
    <3>4. start <= j - 1 /\ j - 1 < start + d
      BY <1>2, <3>2, <3>3
    <3>5. j \in start + 1 .. end
      BY <1>1, <1>2, <1>4, <1>5, <3>4
    <3> QED
      BY <2>2, <3>5
  <2> QED
    BY <2>1, <2>2
<1>7. own = {j \in 1 .. n : j \in start + 1 .. end}
  BY <1>6
<1> HIDE DEF n, b, start, end, own_values, own
<1>8. {own_values[j] : j \in DOMAIN own_values} = {slice[j] : j \in own}
  <2>1. ASSUME NEW j \in DOMAIN own_values PROVE \E k \in own : own_values[j] = slice[k]
    <3>1. j \in 1 .. end - start
      BY <1>4
    <3>2. start + j \in 1 .. n /\ start + j \in start + 1 .. end
      BY <1>1, <1>2, <1>4, <3>1
    <3>3. start + j \in own /\ own_values[j] = slice[start + j]
      BY <1>4, <1>7, <3>1, <3>2
    <3> QED
      BY <3>3
  <2>2. ASSUME NEW k \in own PROVE \E j \in DOMAIN own_values : own_values[j] = slice[k]
    <3>1. k - start \in 1 .. end - start /\ start + (k - start) = k
      BY <1>1, <1>2, <1>4, <1>7
    <3>2. own_values[k - start] = slice[k]
      BY <1>4, <3>1
    <3> QED
      BY <1>4, <3>1, <3>2
  <2> QED
    BY <2>1, <2>2
<1>9. amax(own_values) = Max({0} \cup {slice[j] : j \in own})
  BY <1>8 DEF amax
<1> QED
  BY <1>9 DEF own_values, own, b, n

LEMMA CastScaled == Fp8TypeOK /\ HowCast => ScaledForOwnBlock
<1> SUFFICES ASSUME Fp8TypeOK, HowCast, tensor # None
             PROVE  /\ [i \in DOMAIN tensor.data |-> tensor.data[i].value] = values
                    /\ tensor.block_scales # None => \A i \in DOMAIN values :
                         tensor.data[i].scale
                           = scale_for(Max({0} \cup {values[j] : j \in
                                {j \in DOMAIN values : (j - 1) \div block_size = (i - 1) \div block_size}}),
                               tensor.format)
  BY DEF ScaledForOwnBlock
<1>0. values \in Slices
  BY DEF Fp8TypeOK
<1>1. values \in Seq(Int) /\ Len(values) \in Nat /\ DOMAIN values = 1 .. Len(values)
  BY <1>0, SliceTypes
<1>2. [i \in DOMAIN tensor.data |-> tensor.data[i].value] = values
  <2>1. DOMAIN tensor.data = 1 .. Len(values) /\ \A i \in 1 .. Len(values) : tensor.data[i].value = values[i]
    BY <1>0, CastFacts
  <2>2. values = [i \in 1 .. Len(values) |-> values[i]]
    BY <1>1
  <2> QED
    BY <2>1, <2>2
<1>3. ASSUME tensor.block_scales # None, NEW i \in DOMAIN values
      PROVE  tensor.data[i].scale
               = scale_for(Max({0} \cup {values[j] : j \in
                    {j \in DOMAIN values : (j - 1) \div block_size = (i - 1) \div block_size}}),
                   tensor.format)
  <2>1. InBlocks /\ block_size \in Nat \ {0}
    <3>1. InBlocks
      BY <1>0, <1>3, CastFacts
    <3> QED
      BY <3>1, Fp8Assumption DEF InBlocks
  <2>2. tensor.data = [k \in 1 .. Len(values) |-> CastValue(values, block_size, tensor.format, k)]
    BY <1>1, <2>1, BlockFacts DEF InBlocks
  <2>3. tensor.data[i].scale = scale_for(amax(Block(values, block_size, (i - 1) \div block_size)), tensor.format)
    BY <1>1, <1>3, <2>2 DEF CastValue, CastTo
  <2> QED
    BY <1>1, <1>3, <2>1, <2>3, OwnBlock
<1> QED
  BY <1>2, <1>3

\* to_fp8_per_block: the blocks partition the slice, whatever is left for the
\* last one, and each value is scaled for the largest of its own block; for
\* slices and blocks of every length.
THEOREM OwnBlockScaled == Fp8Spec => []ScaledForOwnBlock
<1>1. Fp8Spec => [](Fp8TypeOK /\ HowCast)
  BY CastInitTypes, CastNextTypes, PTL DEF Fp8Spec
<1> QED
  BY <1>1, CastScaled, PTL

\* When the last block lacks fewer values than there are blocks, as many blocks
\* of the same size are the shortest that cover the slice.
LEMMA SizeInferred ==
  ASSUME NEW n \in Nat, NEW d \in Nat \ {0}, div_ceil(n, d) > 1,
         div_ceil(n, d) * d - n < div_ceil(n, d)
  PROVE  div_ceil(n, div_ceil(n, d)) = d
<1> DEFINE k == div_ceil(n, d)
<1>1. k \in Nat \ {0} /\ k * d \in Nat /\ n <= k * d
  BY CeilCovers
<1> HIDE DEF k
<1>2. k * d - n < k
  BY DEF k
<1>3. d * k = k * d
  BY <1>1
<1>4. n + k - 1 \in Nat /\ d * k <= n + k - 1 /\ n + k - 1 < d * k + k
  BY <1>1, <1>2, <1>3
<1>5. (n + k - 1) \div k = d
  BY <1>1, <1>4, InBlock
<1> QED
  BY <1>5 DEF div_ceil, k

\* The block from_fp8 looks for the scale of a value in is the value's own.
LEMMA DivisorOwn ==
  ASSUME NEW slice \in Seq(Int), NEW d \in Nat \ {0}, NEW t, NEW format, NEW i \in 1 .. Len(slice),
         t.block_scales = <<ScalesOf(slice, d, format)>>, Len(t.data) = Len(slice),
         \/ div_ceil(Len(slice), d) <= 1
         \/ div_ceil(Len(slice), d) * d - Len(slice) < div_ceil(Len(slice), d)
  PROVE  divisor(t, i) = scale_for(amax(Block(slice, d, (i - 1) \div d)), format)
<1> DEFINE n == Len(slice)
           k == div_ceil(n, d)
           b == (i - 1) \div d
<1>1. n \in Nat \ {0} /\ i - 1 \in Nat /\ i - 1 < n
  OBVIOUS
<1>2. k \in Nat \ {0} /\ k * d \in Nat /\ n <= k * d
  BY <1>1, CeilCovers
<1>3. /\ t.block_scales # None /\ t.block_scales[1] = ScalesOf(slice, d, format)
      /\ Len(ScalesOf(slice, d, format)) = k /\ ScalesOf(slice, d, format) # <<>>
  <2>1. ScalesOf(slice, d, format) = [c \in 1 .. k |-> scale_for(amax(Block(slice, d, c - 1)), format)]
    BY DEF ScalesOf
  <2> HIDE DEF k
  <2>2. Len(ScalesOf(slice, d, format)) = k
    BY <1>2, <2>1
  <2>3. ScalesOf(slice, d, format) # <<>>
    BY <1>2, <2>2
  <2>4. t.block_scales # None /\ t.block_scales[1] = ScalesOf(slice, d, format)
    BY DEF None
  <2> QED
    BY <2>2, <2>3, <2>4
<1>4. inferred_block_size(t) = div_ceil(n, k)
  BY <1>3 DEF inferred_block_size
<1>5. b \in Nat /\ b * d \in Nat /\ b * d <= i - 1 /\ i - 1 < b * d + d
  <2>1. (i - 1) % d \in 0 .. d - 1 /\ b \in Nat /\ i - 1 = b * d + ((i - 1) % d)
    BY <1>1, Remainder
  <2>2. b * d \in Nat
    BY <2>1, ProductType
  <2> QED
    BY <2>1, <2>2
<1>6. b < k
  <2>1. ~ k <= b
    <3> SUFFICES ASSUME k <= b PROVE FALSE
      OBVIOUS
    <3>1. k * d <= b * d
      BY <1>2, <1>5, ProductMonotone
    <3> QED
      BY <1>1, <1>2, <1>5, <3>1
  <2> QED
    BY <1>2, <1>5, <2>1
<1>7. (i - 1) \div div_ceil(n, k) = b
  <2>1. CASE k = 1
    <3>1. b = 0
      BY <1>5, <1>6, <2>1
    <3>2. div_ceil(n, k) = n
      <4>1. n + 1 - 1 = n /\ n \div 1 = n
        BY <1>1
      <4> QED
        BY <2>1, <4>1 DEF div_ceil
    <3>3. (i - 1) \div n = 0
      <4>1. 0 * n = 0 /\ 0 * n <= i - 1 /\ i - 1 < 0 * n + n
        BY <1>1
      <4> QED
        BY <1>1, <4>1, InBlock
    <3> QED
      BY <3>1, <3>2, <3>3
  <2>2. CASE k # 1
    <3>1. k > 1 /\ k * d - n < k
      BY <1>2, <2>2
    <3>2. div_ceil(n, k) = d
      BY <1>1, <3>1, SizeInferred
    <3> QED
      BY <3>2
  <2> QED
    BY <2>1, <2>2
<1>8. (i - 1) \div inferred_block_size(t) = b
  BY <1>4, <1>7
<1> HIDE DEF n, k, b
<1>9. divisor(t, i) = ScalesOf(slice, d, format)[b + 1]
  BY <1>3, <1>6, <1>8 DEF divisor
<1>10. ScalesOf(slice, d, format)[b + 1] = scale_for(amax(Block(slice, d, b)), format)
  <2>1. b + 1 \in 1 .. k /\ (b + 1) - 1 = b
    BY <1>2, <1>5, <1>6
  <2> QED
    BY <2>1 DEF ScalesOf, k, n
<1> QED
  BY <1>9, <1>10 DEF b

LEMMA Returned == Fp8TypeOK /\ HowCast => RoundTripIfNearlyFull
<1> SUFFICES ASSUME Fp8TypeOK, HowCast, decoded # None, tensor.block_scales = None \/ NearlyFull
             PROVE  decoded[1] = tensor.data
  BY DEF RoundTripIfNearlyFull
<1>0. values \in Slices /\ tensor # None /\ decoded[1] = from_fp8(tensor)
  BY DEF Fp8TypeOK, HowCast
<1>1. values \in Seq(Int) /\ Len(values) \in Nat /\ DOMAIN values = 1 .. Len(values)
  BY <1>0, SliceTypes
<1>2. /\ DOMAIN tensor.data = 1 .. Len(values) /\ Len(tensor.data) = Len(values)
      /\ \A i \in 1 .. Len(values) : tensor.data[i].value = values[i]
  BY <1>0, CastFacts
<1>3. from_fp8(tensor)
        = [i \in 1 .. Len(values) |-> CastTo(values[i], divisor(tensor, i), tensor.format)]
  BY <1>2 DEF from_fp8, CastTo
<1>4. CASE InBlocks /\ tensor.block_scales = <<ScalesOf(values, block_size, tensor.format)>>
  <2>1. block_size \in Nat \ {0}
    BY <1>4, Fp8Assumption DEF InBlocks
  <2>2. tensor.data = [i \in 1 .. Len(values) |-> CastValue(values, block_size, tensor.format, i)]
    BY <1>1, <1>4, <2>1, BlockFacts DEF InBlocks
  <2>3. \/ div_ceil(Len(values), block_size) <= 1
        \/ div_ceil(Len(values), block_size) * block_size - Len(values) < div_ceil(Len(values), block_size)
    BY <1>4 DEF NearlyFull, None
  <2>4. \A i \in 1 .. Len(values) :
          divisor(tensor, i) = scale_for(amax(Block(values, block_size, (i - 1) \div block_size)), tensor.format)
    BY <1>1, <1>2, <1>4, <2>1, <2>3, DivisorOwn
  <2>5. \A i \in 1 .. Len(values) :
          CastTo(values[i], divisor(tensor, i), tensor.format) = CastValue(values, block_size, tensor.format, i)
    BY <2>4 DEF CastValue
  <2> QED
    BY <1>0, <1>3, <2>2, <2>5
<1>5. CASE /\ tensor.block_scales = None
           /\ tensor.data = [i \in 1 .. Len(values) |-> CastTo(values[i], tensor.scale, tensor.format)]
  <2>1. \A i \in 1 .. Len(values) : divisor(tensor, i) = tensor.scale
    BY <1>5 DEF divisor
  <2> QED
    BY <1>0, <1>3, <1>5, <2>1
<1> QED
  BY <1>0, <1>4, <1>5, CastFacts

\* from_fp8 finds the scale and the format each value was cast with, although it
\* has to infer the size of the blocks, if the last block lacks fewer values
\* than there are blocks.
THEOREM RoundTrip == Fp8Spec => []RoundTripIfNearlyFull
<1>1. Fp8Spec => [](Fp8TypeOK /\ HowCast)
  BY CastInitTypes, CastNextTypes, PTL DEF Fp8Spec
<1> QED
  BY <1>1, Returned, PTL

LEMMA ToldFits ==
  ASSUME Fp8TypeOK, Fp8TypeOK', HowCast, Fp8Next, decoded # None, decoded' = None, ~panicked',
         ~LostOnTheWire, current_amax' \notin 1 .. Smallest[tensor.format] - 1,
         NEW i \in DOMAIN values
  PROVE  values[i] <= scale_for(current_amax', tensor.format)
<1>1. PICK slice \in Slices : Observe(slice)
  <2>1. ~ \E format \in Fp8Format : Cast(format)
    BY DEF Cast
  <2>2. ~ Decode
    BY DEF Decode
  <2>3. ~ UpdateAny
    BY DEF UpdateAny, fp8Vars
  <2> QED
    BY <2>1, <2>2, <2>3 DEF Fp8Next
<1>2. tensor # None /\ Update(amax_of(tensor)) /\ values \in Slices /\ TypeOK /\ TypeOK'
  BY <1>1 DEF Observe, UpdatePanics, HowCast, Fp8TypeOK
<1>3. amax(values) \in Nat /\ values[i] \in Int /\ values[i] <= amax(values)
  BY <1>2, SliceTypes
<1>4. \/ amax_of(tensor) = amax(values)
      \/ amax_of(tensor) = fp8_format_max(tensor.format) /\ amax(values) = 0
      \/ amax_of(tensor) = 0 /\ amax(values) < Smallest[tensor.format]
  BY <1>2, Told
<1>5. amax_of(tensor) <= current_amax' /\ current_amax' \in Nat
  <2>1. /\ history_length \in Nat \ {0} /\ cursor \in Slots /\ Slots' = Slots
        /\ amax_history'[cursor] = amax_of(tensor)
    BY <1>2, DelayedScalingAssumption DEF Update, TypeOK, Slots
  <2>2. (TypeOK => /\ current_amax \in Amaxes \cap Nat
                   /\ \A slot \in Slots : amax_history[slot] <= current_amax)'
    BY PeakCovers, PTL
  <2> QED
    BY <1>2, <2>1, <2>2
<1>6. /\ fp8_format_max(tensor.format) \in Nat /\ 416 <= fp8_format_max(tensor.format)
      /\ Smallest[tensor.format] \in 1 .. 416
  <2>1. tensor.format \in Fp8Format
    BY <1>2, CastFacts
  <2> QED
    BY <2>1, SmallestType DEF fp8_format_max
<1>7. CASE current_amax' = 0
  <2>1. scale_for(current_amax', tensor.format) = fp8_format_max(tensor.format)
    BY <1>7 DEF scale_for
  <2>2. amax(values) <= 416
    BY <1>3, <1>4, <1>5, <1>6, <1>7
  <2> QED
    BY <1>3, <1>6, <2>1, <2>2
<1>8. CASE current_amax' # 0
  <2>1. Smallest[tensor.format] <= current_amax'
    BY <1>5, <1>6, <1>8
  <2>2. scale_for(current_amax', tensor.format) = current_amax'
    BY <1>5, <1>6, <1>8, <2>1 DEF scale_for
  <2>3. amax(values) <= current_amax'
    BY <1>3, <1>4, <1>5, <1>6, <2>1
  <2> QED
    BY <1>3, <1>5, <2>2, <2>3
<1> QED
  BY <1>7, <1>8

\* Once delayed scaling has been told of a tensor, also of one that came over
\* the wire and whose amax is worked out from its scale, the next scale it
\* computes is not too large for that slice: for every smallest amax that has
\* a finite scale, and with the two exceptions ObservedFits names, an infinity
\* lost on the wire and a history too small for a scale.
THEOREM ToldOnceFits == Fp8Spec => ObservedFits
<1>1. Fp8Spec => [](Fp8TypeOK /\ HowCast)
  BY CastInitTypes, CastNextTypes, PTL DEF Fp8Spec
<1>2. Fp8TypeOK /\ HowCast /\ Fp8TypeOK' /\ [Fp8Next]_allVars =>
        [decoded # None /\ decoded' = None /\ ~panicked'
           /\ ~LostOnTheWire /\ current_amax' \notin 1 .. Smallest[tensor.format] - 1 =>
           \A i \in DOMAIN values : values[i] <= scale_for(current_amax', tensor.format)]_allVars
  BY ToldFits
<1> QED
  BY <1>1, <1>2, PTL DEF Fp8Spec, ObservedFits

\* The caller of Fp8 uses one history like any other caller.
LEMMA CastUsesHistory == Fp8TypeOK /\ HowCast /\ [Fp8Next]_allVars => [Next]_vars
<1> SUFFICES ASSUME Fp8TypeOK, HowCast, [Fp8Next]_allVars PROVE [Next]_vars
  OBVIOUS
<1>1. ASSUME NEW slice \in Slices, Observe(slice) PROVE Next
  <2>1. tensor # None /\ values \in Slices
    BY <1>1 DEF Observe, HowCast, Fp8TypeOK
  <2>2. amax_of(tensor) \in Amaxes
    BY <2>1, Told
  <2> QED
    BY <1>1, <2>2 DEF Observe, Next
<1>2. ASSUME NEW format \in Fp8Format, Cast(format) PROVE UNCHANGED vars
  BY <1>2 DEF Cast
<1>3. CASE Decode
  BY <1>3 DEF Decode
<1>4. CASE UpdateAny
  BY <1>4 DEF UpdateAny
<1>5. CASE UNCHANGED allVars
  BY <1>5 DEF allVars
<1> QED
  BY <1>1, <1>2, <1>3, <1>4, <1>5 DEF Fp8Next

\* So the window it is promised is the one it gets: the last history_length
\* tensors it told delayed scaling of, and no other.
THEOREM CastRefinement == Fp8Spec => ImplementsWindow
<1>1. Fp8Spec => [](Fp8TypeOK /\ HowCast)
  BY CastInitTypes, CastNextTypes, PTL DEF Fp8Spec
<1>2. Fp8Init => Init
  BY DEF Fp8Init
<1>3. Fp8Spec => Spec
  BY <1>1, <1>2, CastUsesHistory, PTL DEF Fp8Spec, Spec
<1> QED
  BY <1>3, Refinement
------------------------------------------------------------------------------
\* The layers first .. last in the order of forward.
Run(first, last) == [k \in 1 .. last + 1 - first |-> first + k - 1]

\* The layers of a stage in the order of forward, and in that of backward.
Upwards == [k \in 1 .. num_layers |-> k]
Downwards == [k \in 1 .. num_layers |-> num_layers + 1 - k]

LEMMA FreshIsMatrix ==
  ASSUME NEW micro \in 1 .. MaxMicro
  PROVE  Fresh(micro) \in Matrix /\ Fresh(micro).through = <<>> /\ Fresh(micro).micro = micro
BY DEF Fresh, Matrix

LEMMA RunIsSeq ==
  ASSUME NEW first \in Nat, NEW last \in Nat, first <= last + 1
  PROVE  /\ Run(first, last) \in Seq(Nat)
         /\ Len(Run(first, last)) = last + 1 - first
         /\ \A k \in 1 .. last + 1 - first : Run(first, last)[k] = first + k - 1
<1>1. \A k \in 1 .. last + 1 - first : first + k - 1 \in Nat
  OBVIOUS
<1>2. last + 1 - first \in Nat
  OBVIOUS
<1> QED
  BY <1>1, <1>2 DEF Run

LEMMA RunOfAll ==
  ASSUME num_layers \in Nat
  PROVE  Run(1, num_layers) = Upwards
<1>1. num_layers + 1 - 1 = num_layers /\ \A k \in 1 .. num_layers : 1 + k - 1 = k
  OBVIOUS
<1> QED
  BY <1>1 DEF Run, Upwards

\* Two runs that meet are one.
LEMMA RunsChain ==
  ASSUME NEW m \in Nat, NEW n \in Nat, m <= n
  PROVE  Run(1, m) \o Run(m + 1, n) = Run(1, n)
<1>1. /\ Run(1, m) \in Seq(Nat) /\ Len(Run(1, m)) = m
      /\ \A k \in 1 .. m : Run(1, m)[k] = k
  <2>1. 1 <= m + 1 /\ m + 1 - 1 = m /\ \A k \in 1 .. m : 1 + k - 1 = k
    OBVIOUS
  <2> QED
    BY <2>1, RunIsSeq
<1>2. /\ Run(m + 1, n) \in Seq(Nat) /\ Len(Run(m + 1, n)) = n - m
      /\ \A k \in 1 .. n - m : Run(m + 1, n)[k] = m + k
  <2>1. /\ m + 1 \in Nat /\ m + 1 <= n + 1 /\ n + 1 - (m + 1) = n - m
        /\ \A k \in 1 .. n - m : (m + 1) + k - 1 = m + k
    OBVIOUS
  <2> QED
    BY <2>1, RunIsSeq
<1>3. /\ Run(1, n) \in Seq(Nat) /\ Len(Run(1, n)) = n
      /\ \A k \in 1 .. n : Run(1, n)[k] = k
  <2>1. 1 <= n + 1 /\ n + 1 - 1 = n /\ \A k \in 1 .. n : 1 + k - 1 = k
    OBVIOUS
  <2> QED
    BY <2>1, RunIsSeq
<1> DEFINE both == Run(1, m) \o Run(m + 1, n)
<1>4. /\ both \in Seq(Nat) /\ Len(both) = m + (n - m)
      /\ \A k \in 1 .. m + (n - m) :
           both[k] = IF k <= m THEN Run(1, m)[k] ELSE Run(m + 1, n)[k - m]
  <2> HIDE DEF both
  <2>1. both = Run(1, m) \o Run(m + 1, n)
    BY DEF both
  <2>2. /\ Run(1, m) \o Run(m + 1, n) \in Seq(Nat)
        /\ Len(Run(1, m) \o Run(m + 1, n)) = Len(Run(1, m)) + Len(Run(m + 1, n))
        /\ \A k \in 1 .. Len(Run(1, m)) + Len(Run(m + 1, n)) :
             (Run(1, m) \o Run(m + 1, n))[k] =
               IF k <= Len(Run(1, m)) THEN Run(1, m)[k] ELSE Run(m + 1, n)[k - Len(Run(1, m))]
    BY <1>1, <1>2, ConcatProperties
  <2> QED
    BY <1>1, <1>2, <2>1, <2>2
<1> HIDE DEF both
<1>5. m + (n - m) = n
  OBVIOUS
<1>6. \A k \in 1 .. n : both[k] = Run(1, n)[k]
  <2> TAKE k \in 1 .. n
  <2>1. CASE k <= m
    BY <1>1, <1>3, <1>4, <1>5, <2>1
  <2>2. CASE ~(k <= m)
    <3>1. k - m \in 1 .. n - m /\ m + (k - m) = k
      BY <2>2
    <3>2. Run(m + 1, n)[k - m] = k
      BY <1>2, <3>1
    <3> QED
      BY <1>3, <1>4, <1>5, <2>2, <3>2
  <2> QED
    BY <2>1, <2>2
<1>7. both = Run(1, n)
  BY <1>3, <1>4, <1>5, <1>6, SeqEqual
<1> QED
  BY <1>7 DEF both

\* What layers append to what a matrix has passed.
LEMMA LayersAppend ==
  ASSUME NEW data \in Matrix, NEW first \in Nat, NEW last \in Nat, first <= last + 1
  PROVE  /\ Layers(data, first, last) \in Matrix
         /\ Layers(data, first, last)
              = [micro |-> data.micro, through |-> data.through \o Run(first, last)]
<1>1. data.through \o Run(first, last) \in Seq(Nat)
  BY RunIsSeq, ConcatProperties DEF Matrix
<1>2. Layers(data, first, last) = [data EXCEPT !.through = @ \o Run(first, last)]
  BY DEF Layers, Run
<1> QED
  BY <1>1, <1>2 DEF Matrix

LEMMA FreshLayers ==
  ASSUME NEW micro \in 1 .. MaxMicro, NEW last \in Nat, 1 <= last + 1
  PROVE  /\ Layers(Fresh(micro), 1, last) \in Matrix
         /\ Layers(Fresh(micro), 1, last) = [micro |-> micro, through |-> <<>> \o Run(1, last)]
<1>1. Fresh(micro) \in Matrix /\ Fresh(micro).through = <<>> /\ Fresh(micro).micro = micro
  BY FreshIsMatrix
<1>2. 1 \in Nat
  OBVIOUS
<1>3. /\ Layers(Fresh(micro), 1, last) \in Matrix
      /\ Layers(Fresh(micro), 1, last)
           = [micro |-> Fresh(micro).micro, through |-> Fresh(micro).through \o Run(1, last)]
  BY <1>1, <1>2, LayersAppend
<1> QED
  BY <1>1, <1>3, Zenon

\* forward passes every layer once, first to last.
LEMMA ForwardPassesAll ==
  ASSUME num_layers \in Nat, NEW micro \in 1 .. MaxMicro
  PROVE  /\ forward(Fresh(micro)) \in Matrix
         /\ forward(Fresh(micro)) = [micro |-> micro, through |-> Upwards]
<1>1. forward(Fresh(micro)) = Layers(Fresh(micro), 1, num_layers)
  BY DEF forward
<1>2. 1 <= num_layers + 1
  OBVIOUS
<1>3. /\ Layers(Fresh(micro), 1, num_layers) \in Matrix
      /\ Layers(Fresh(micro), 1, num_layers) = [micro |-> micro, through |-> <<>> \o Upwards]
  BY <1>2, FreshLayers, RunOfAll
<1>4. Upwards \in Seq(Nat)
  BY <1>2, RunIsSeq, RunOfAll
<1>5. <<>> \o Upwards = Upwards
  BY <1>4, ConcatEmptySeq
<1> QED
  BY <1>1, <1>3, <1>5

\* So do the two halves of Selective, wherever the stage is cut.
LEMMA HalvesPassAll ==
  ASSUME num_layers \in Nat, NEW micro \in 1 .. MaxMicro
  PROVE  ForwardInHalves(Fresh(micro)) = forward(Fresh(micro))
<1> DEFINE split_point == num_layers \div 2
           half == Layers(Fresh(micro), 1, split_point)
           output == Layers(half, split_point + 1, num_layers)
<1>1. /\ split_point \in Nat /\ split_point <= num_layers /\ 1 <= split_point + 1
      /\ split_point + 1 \in Nat /\ split_point + 1 <= num_layers + 1
  OBVIOUS
<1>2. ForwardInHalves(Fresh(micro)) = output
  BY DEF ForwardInHalves
<1> HIDE DEF split_point
<1>3. half \in Matrix /\ half = [micro |-> micro, through |-> <<>> \o Run(1, split_point)]
  BY <1>1, FreshLayers
<1>4. <<>> \o Run(1, split_point) = Run(1, split_point)
  BY <1>1, RunIsSeq, ConcatEmptySeq
<1> HIDE DEF half
<1>5. output = [micro |-> micro, through |-> half.through \o Run(split_point + 1, num_layers)]
  BY <1>1, <1>3, LayersAppend
<1>6. half.through \o Run(split_point + 1, num_layers) = Upwards
  BY <1>1, <1>3, <1>4, RunsChain, RunOfAll
<1> QED
  BY <1>2, <1>5, <1>6, ForwardPassesAll

\* backward passes them last to first, whatever input it is given.
LEMMA BackwardPassesAll ==
  ASSUME num_layers \in Nat, NEW input, NEW micro \in 1 .. MaxMicro
  PROVE  /\ backward(input, Fresh(micro)) \in Matrix
         /\ backward(input, Fresh(micro)).through = Downwards
<1>1. Downwards \in Seq(Nat)
  <2>1. \A k \in 1 .. num_layers : num_layers + 1 - k \in Nat
    OBVIOUS
  <2> QED
    BY <2>1 DEF Downwards
<1>2. <<>> \o Downwards = Downwards
  BY <1>1, ConcatEmptySeq
<1>3. backward(input, Fresh(micro)) = [Fresh(micro) EXCEPT !.through = @ \o Downwards]
  BY DEF backward, Downwards
<1> QED
  BY <1>1, <1>2, <1>3, FreshIsMatrix DEF Matrix
------------------------------------------------------------------------------
\* Whatever the stage or a handle remembers is an input that no layer has seen.
FreshInputs ==
  /\ \A handle \in handles : \E micro \in 1 .. MaxMicro : handle = Fresh(micro)
  /\ input_cache # <<>> => \E micro \in 1 .. MaxMicro : input_cache = <<Fresh(micro)>>

\* What Feed hands to the stage.
LEMMA FedIsMicro ==
  ASSUME CheckpointTypeOK, Feed
  PROVE  fed' \in 1 .. MaxMicro
BY CheckpointAssumption DEF CheckpointTypeOK, Feed

LEMMA RecordTypes ==
  ASSUME CheckpointTypeOK, NEW call \in Calls, NEW input \in Matrix, NEW output \in Matrix,
         Record(call, input, output)
  PROVE  /\ log' \in Seq([call : Calls, input : Matrix, output : Matrix])
         /\ Len(log') = Len(log) + 1
         /\ \A i \in 1 .. Len(log) : log'[i] = log[i]
         /\ log'[Len(log) + 1] = [call |-> call, input |-> input, output |-> output]
<1> DEFINE entry == [call |-> call, input |-> input, output |-> output]
           Entries == [call : Calls, input : Matrix, output : Matrix]
<1>1. entry \in Entries
  OBVIOUS
<1>2. log \in Seq(Entries) /\ log' = Append(log, entry)
  BY DEF CheckpointTypeOK, Record
<1> HIDE DEF entry, Entries
<1>3. /\ log' \in Seq(Entries) /\ Len(log') = Len(log) + 1
      /\ \A i \in 1 .. Len(log) : log'[i] = log[i]
      /\ log'[Len(log) + 1] = entry
  BY <1>1, <1>2
<1> QED
  BY <1>3 DEF entry, Entries

\* Each call records one entry; the lemma says of each which one, and what it
\* leaves in the cache.
LEMMA Recorded ==
  ASSUME CheckpointTypeOK, FreshInputs, CheckpointNext
  PROVE  \/ log' = log /\ input_cache' = input_cache
         \/ \E call \in Calls, micro \in 1 .. MaxMicro, output \in Matrix :
              /\ Record(call, Fresh(micro), output)
              /\ CASE call = "panic" -> /\ input_cache = <<>>
                                        /\ input_cache' = <<>>
                   [] call = "recompute" -> /\ input_cache = <<Fresh(micro)>>
                                            /\ input_cache' = <<>>
                                            /\ output.through = Downwards
                   [] call \in {"handle", "None"} -> /\ input_cache' = input_cache
                                                     /\ output = forward(Fresh(micro))
                   [] OTHER -> /\ input_cache' = <<Fresh(micro)>>
                               /\ output = forward(Fresh(micro))
<1>0. num_layers \in Nat
  BY CheckpointAssumption DEF CheckpointTypeOK
<1>1. ASSUME NEW strategy \in Strategies, ApplyCheckpointForward(strategy)
      PROVE  \E call \in Strategies, micro \in 1 .. MaxMicro, output \in Matrix :
               /\ Record(call, Fresh(micro), output)
               /\ output = forward(Fresh(micro))
               /\ input_cache' = IF call = "None" THEN input_cache ELSE <<Fresh(micro)>>
  <2>1. fed' \in 1 .. MaxMicro
    BY <1>1, FedIsMicro DEF ApplyCheckpointForward
  <2>2. forward(Fresh(fed')) \in Matrix /\ ForwardInHalves(Fresh(fed')) = forward(Fresh(fed'))
    BY <1>0, <2>1, ForwardPassesAll, HalvesPassAll
  <2>3. /\ Record(strategy, Fresh(fed'), forward(Fresh(fed')))
        /\ input_cache' = IF strategy = "None" THEN input_cache ELSE <<Fresh(fed')>>
    BY <1>1, <2>2 DEF ApplyCheckpointForward
  <2> QED
    BY <2>1, <2>2, <2>3
<1>2. ASSUME NEW micro \in 1 .. fed, RecomputeAndBackward(micro)
      PROVE  \E m \in 1 .. MaxMicro, output \in Matrix :
               /\ Record("recompute", Fresh(m), output)
               /\ input_cache = <<Fresh(m)>> /\ input_cache' = <<>>
               /\ output.through = Downwards
  <2>1. micro \in 1 .. MaxMicro
    BY CheckpointAssumption DEF CheckpointTypeOK
  <2>2. PICK m \in 1 .. MaxMicro : input_cache = <<Fresh(m)>>
    BY <1>2 DEF RecomputeAndBackward, FreshInputs
  <2>3. input_cache[1] = Fresh(m)
    BY <2>2
  <2>4. /\ backward(Fresh(m), Fresh(micro)) \in Matrix
        /\ backward(Fresh(m), Fresh(micro)).through = Downwards
    BY <1>0, <2>1, BackwardPassesAll
  <2> QED
    BY <1>2, <2>2, <2>3, <2>4 DEF RecomputeAndBackward
<1>3. ASSUME NEW micro \in 1 .. fed, RecomputePanics(micro)
      PROVE  \E m \in 1 .. MaxMicro, output \in Matrix :
               /\ Record("panic", Fresh(m), output)
               /\ input_cache = <<>> /\ input_cache' = <<>>
  <2>1. micro \in 1 .. MaxMicro
    BY CheckpointAssumption DEF CheckpointTypeOK
  <2> QED
    BY <1>3, <2>1, FreshIsMatrix DEF RecomputePanics
<1>4. ASSUME NEW handle \in handles, RecomputeForward(handle)
      PROVE  \E m \in 1 .. MaxMicro, output \in Matrix :
               /\ Record("handle", Fresh(m), output)
               /\ output = forward(Fresh(m)) /\ input_cache' = input_cache
  <2>1. PICK m \in 1 .. MaxMicro : handle = Fresh(m)
    BY DEF FreshInputs
  <2>2. forward(Fresh(m)) \in Matrix
    BY <1>0, ForwardPassesAll
  <2> QED
    BY <1>4, <2>1, <2>2 DEF RecomputeForward
<1>5. CASE SaveInput
  BY <1>5 DEF SaveInput
<1>6. ASSUME NEW strategy \in Strategies, ApplyCheckpointForward(strategy)
      PROVE  \E call \in Calls, micro \in 1 .. MaxMicro, output \in Matrix :
               /\ Record(call, Fresh(micro), output)
               /\ call \in Strategies
               /\ output = forward(Fresh(micro))
               /\ input_cache' = IF call = "None" THEN input_cache ELSE <<Fresh(micro)>>
  BY <1>1, <1>6 DEF Calls
<1>7. "recompute" \in Calls /\ "panic" \in Calls /\ "handle" \in Calls
  BY DEF Calls
<1> QED
  BY <1>2, <1>3, <1>4, <1>5, <1>6, <1>7 DEF CheckpointNext, Strategies
------------------------------------------------------------------------------
LEMMA InitTypes == CheckpointInit => CheckpointTypeOK /\ FreshInputs
<1> SUFFICES ASSUME CheckpointInit PROVE CheckpointTypeOK /\ FreshInputs
  OBVIOUS
<1>1. <<>> \in Seq(Matrix) /\ Len(<<>>) = 0
  BY EmptySeq
<1>2. <<>> \in Seq([call : Calls, input : Matrix, output : Matrix])
  BY EmptySeq
<1>3. 0 \in 0 .. MaxMicro
  BY CheckpointAssumption
<1> QED
  BY <1>1, <1>2, <1>3 DEF CheckpointInit, CheckpointTypeOK, FreshInputs

LEMMA NextTypes == CheckpointTypeOK /\ FreshInputs /\ [CheckpointNext]_checkpointVars => CheckpointTypeOK' /\ FreshInputs'
<1> SUFFICES ASSUME CheckpointTypeOK, FreshInputs, [CheckpointNext]_checkpointVars PROVE CheckpointTypeOK' /\ FreshInputs'
  OBVIOUS
<1>1. CASE UNCHANGED checkpointVars
  BY <1>1 DEF CheckpointTypeOK, FreshInputs, checkpointVars
<1>2. CASE CheckpointNext
  <2>1. num_layers' = num_layers
    BY <1>2 DEF CheckpointNext, ApplyCheckpointForward, RecomputeAndBackward, RecomputePanics,
                SaveInput, RecomputeForward
  <2>2. fed' \in 0 .. MaxMicro
    <3>1. Feed => fed' \in 0 .. MaxMicro
      BY FedIsMicro
    <3>2. Feed \/ fed' = fed
      BY <1>2 DEF CheckpointNext, ApplyCheckpointForward, RecomputeAndBackward, RecomputePanics,
                  SaveInput, RecomputeForward
    <3> QED
      BY <3>1, <3>2 DEF CheckpointTypeOK
  <2>3. \A handle \in handles' : \E micro \in 1 .. MaxMicro : handle = Fresh(micro)
    <3>1. SaveInput => fed' \in 1 .. MaxMicro /\ handles' = handles \cup {Fresh(fed')}
      BY FedIsMicro DEF SaveInput
    <3>2. SaveInput \/ handles' \subseteq handles
      BY <1>2 DEF CheckpointNext, ApplyCheckpointForward, RecomputeAndBackward, RecomputePanics,
                  RecomputeForward
    <3> QED
      BY <3>1, <3>2 DEF FreshInputs
  <2>4. handles' \subseteq Matrix
    BY <2>3, FreshIsMatrix
  <2>5. log' \in Seq([call : Calls, input : Matrix, output : Matrix])
    BY <1>2, Recorded, RecordTypes, FreshIsMatrix DEF CheckpointTypeOK
  <2>6. \/ input_cache' = input_cache
        \/ input_cache' = <<>>
        \/ \E micro \in 1 .. MaxMicro : input_cache' = <<Fresh(micro)>>
    BY <1>2, Recorded
  <2>7. input_cache' # <<>> => \E micro \in 1 .. MaxMicro : input_cache' = <<Fresh(micro)>>
    BY <2>6 DEF FreshInputs
  <2>8. input_cache' \in Seq(Matrix) /\ Len(input_cache') <= 1
    <3>1. CASE input_cache' = <<>>
      BY <3>1, EmptySeq
    <3>2. CASE input_cache' # <<>>
      <4>1. PICK micro \in 1 .. MaxMicro : input_cache' = <<Fresh(micro)>>
        BY <2>7, <3>2
      <4>2. Fresh(micro) \in Matrix
        BY FreshIsMatrix
      <4> QED
        BY <4>1, <4>2
    <3> QED
      BY <3>1, <3>2
  <2> QED
    BY <2>1, <2>2, <2>3, <2>4, <2>5, <2>7, <2>8 DEF CheckpointTypeOK, FreshInputs
<1> QED
  BY <1>1, <1>2

\* PipelineStage keeps at most one input, whatever is called in whatever order.
THEOREM CheckpointTypeCorrect == CheckpointSpec => []CheckpointTypeOK
<1> QED
  BY InitTypes, NextTypes, PTL DEF CheckpointSpec

\* What is true of each entry of the log when it is written stays true.
LEMMA NextSameOutput ==
  CheckpointTypeOK /\ FreshInputs /\ SameOutput /\ [CheckpointNext]_checkpointVars => SameOutput'
<1> SUFFICES ASSUME CheckpointTypeOK, FreshInputs, SameOutput, [CheckpointNext]_checkpointVars PROVE SameOutput'
  OBVIOUS
<1>1. num_layers \in Nat /\ log \in Seq([call : Calls, input : Matrix, output : Matrix])
  BY CheckpointAssumption DEF CheckpointTypeOK
<1>2. num_layers' = num_layers
  BY DEF checkpointVars, CheckpointNext, ApplyCheckpointForward, RecomputeAndBackward, RecomputePanics,
         SaveInput, RecomputeForward
<1>3. CASE log' = log
  BY <1>2, <1>3 DEF SameOutput
<1>4. ASSUME NEW call \in Calls, NEW micro \in 1 .. MaxMicro, NEW output \in Matrix,
             Record(call, Fresh(micro), output),
             \/ call = "panic"
             \/ call = "recompute" /\ output.through = Downwards
             \/ call \notin {"panic", "recompute"} /\ output = forward(Fresh(micro))
      PROVE  SameOutput'
  <2>1. /\ log' \in Seq([call : Calls, input : Matrix, output : Matrix])
        /\ Len(log') = Len(log) + 1
        /\ \A i \in 1 .. Len(log) : log'[i] = log[i]
        /\ log'[Len(log) + 1] = [call |-> call, input |-> Fresh(micro), output |-> output]
    BY <1>4, FreshIsMatrix, RecordTypes
  <2>2. Len(log) \in Nat /\ DOMAIN log = 1 .. Len(log) /\ DOMAIN log' = 1 .. Len(log) + 1
    BY <1>1, <2>1
  <2> SUFFICES ASSUME NEW i \in DOMAIN log'
               PROVE  CASE log'[i].call = "panic" -> TRUE
                        [] log'[i].call = "recompute" -> log'[i].output.through = Downwards
                        [] OTHER -> log'[i].output
                                      = [micro |-> log'[i].input.micro, through |-> Upwards]
    BY <1>2 DEF SameOutput, Upwards, Downwards
  <2>3. CASE i \in 1 .. Len(log)
    BY <2>1, <2>2, <2>3 DEF SameOutput, Upwards, Downwards
  <2>4. CASE i = Len(log) + 1
    <3>1. /\ log'[i].call = call /\ log'[i].input.micro = micro
          /\ log'[i].output = output
      BY <2>1, <2>4, FreshIsMatrix
    <3>2. forward(Fresh(micro)) = [micro |-> micro, through |-> Upwards]
      BY <1>1, ForwardPassesAll
    <3> QED
      BY <1>4, <3>1, <3>2
  <2> QED
    BY <2>2, <2>3, <2>4
<1>5. CASE UNCHANGED checkpointVars
  BY <1>3, <1>5 DEF checkpointVars
<1>6. CASE CheckpointNext
  BY <1>3, <1>4, <1>6, Recorded
<1> QED
  BY <1>5, <1>6

\* Checkpointing, under any strategy and in any order of calls, changes what a
\* stage remembers and never what it computes.
THEOREM SameOutputs == CheckpointSpec => []SameOutput
<1>1. CheckpointInit => SameOutput
  BY DEF CheckpointInit, SameOutput
<1> QED
  BY <1>1, InitTypes, NextTypes, NextSameOutput, PTL DEF CheckpointSpec
------------------------------------------------------------------------------
\* The link between the cache and the calls: the cache holds the input of the
\* last call that touched it, if that was a checkpointed forward.
CacheIsLastSaved ==
  /\ input_cache = <<>> => \A k \in DOMAIN log : IsLastCacheCall(k, Len(log) + 1) => ~Saved(k)
  /\ input_cache # <<>> =>
       \E k \in DOMAIN log : /\ IsLastCacheCall(k, Len(log) + 1) /\ Saved(k)
                             /\ log[k].input = input_cache[1]

CacheCalls == {"Full", "Selective", "recompute"}

\* A new entry leaves the past of the entries before it alone.
LEMMA PastKept ==
  ASSUME CheckpointTypeOK, DOMAIN log' = 1 .. Len(log) + 1,
         \A i \in 1 .. Len(log) : log'[i] = log[i]
  PROVE  \A i \in 1 .. Len(log) + 1 : \A k : IsLastCacheCall(k, i)' <=> IsLastCacheCall(k, i)
<1>1. Len(log) \in Nat /\ DOMAIN log = 1 .. Len(log)
  BY DEF CheckpointTypeOK
<1> SUFFICES ASSUME NEW i \in 1 .. Len(log) + 1, NEW k
             PROVE  IsLastCacheCall(k, i)' <=> IsLastCacheCall(k, i)
  OBVIOUS
<1> DEFINE before == {l \in DOMAIN log : log[l].call \in CacheCalls /\ l < i}
           beforeNow == {l \in DOMAIN log' : log'[l].call \in CacheCalls /\ l < i}
<1>2. before = beforeNow
  BY <1>1
<1>3. IsLastCacheCall(k, i) <=> k \in before /\ \A l \in before : l <= k
  BY DEF IsLastCacheCall, Made, CacheCalls
<1>4. IsLastCacheCall(k, i)' <=> k \in beforeNow /\ \A l \in beforeNow : l <= k
  BY DEF IsLastCacheCall, Made, CacheCalls
<1> QED
  BY <1>2, <1>3, <1>4

\* Seen from behind it, the new entry is the last call if it touches the cache,
\* and else the last call is the one it was.
LEMMA LastMoves ==
  ASSUME CheckpointTypeOK, DOMAIN log' = 1 .. Len(log) + 1, Len(log') = Len(log) + 1,
         \A i \in 1 .. Len(log) : log'[i] = log[i]
  PROVE  \A k : IsLastCacheCall(k, Len(log) + 1)' <=>
                  IF log'[Len(log) + 1].call \in CacheCalls
                    THEN k = Len(log) + 1 ELSE IsLastCacheCall(k, Len(log) + 1)
<1>1. Len(log) \in Nat /\ DOMAIN log = 1 .. Len(log)
  BY DEF CheckpointTypeOK
<1> SUFFICES ASSUME NEW k
             PROVE  IsLastCacheCall(k, Len(log) + 1)' <=>
                      IF log'[Len(log) + 1].call \in CacheCalls
                        THEN k = Len(log) + 1 ELSE IsLastCacheCall(k, Len(log) + 1)
  OBVIOUS
<1> DEFINE before == {l \in DOMAIN log : log[l].call \in CacheCalls /\ l < Len(log) + 1}
           beforeNow == {l \in DOMAIN log' : log'[l].call \in CacheCalls /\ l < Len(log') + 1}
<1>2. IsLastCacheCall(k, Len(log) + 1) <=> k \in before /\ \A l \in before : l <= k
  BY DEF IsLastCacheCall, Made, CacheCalls
<1>3. IsLastCacheCall(k, Len(log) + 1)' <=> k \in beforeNow /\ \A l \in beforeNow : l <= k
  BY DEF IsLastCacheCall, Made, CacheCalls
<1>4. beforeNow = IF log'[Len(log) + 1].call \in CacheCalls
                    THEN before \cup {Len(log) + 1} ELSE before
  BY <1>1
<1>5. \A l \in before : l <= Len(log)
  BY <1>1
<1> QED
  BY <1>1, <1>2, <1>3, <1>4, <1>5

LEMMA NextCache ==
  /\ CheckpointTypeOK /\ FreshInputs /\ CacheIsLastSaved /\ RecomputesTheLastSaved
  /\ [CheckpointNext]_checkpointVars
  => CacheIsLastSaved' /\ RecomputesTheLastSaved'
<1> SUFFICES ASSUME CheckpointTypeOK, FreshInputs, CacheIsLastSaved, RecomputesTheLastSaved, [CheckpointNext]_checkpointVars
             PROVE  CacheIsLastSaved' /\ RecomputesTheLastSaved'
  OBVIOUS
<1>1. Len(log) \in Nat /\ DOMAIN log = 1 .. Len(log)
  BY DEF CheckpointTypeOK
<1>2. CASE log' = log /\ input_cache' = input_cache
  BY <1>2 DEF CacheIsLastSaved, RecomputesTheLastSaved, IsLastCacheCall, Saved, Made
<1>3. ASSUME NEW call \in Calls, NEW micro \in 1 .. MaxMicro, NEW output \in Matrix,
             Record(call, Fresh(micro), output),
             CASE call = "panic" -> input_cache = <<>> /\ input_cache' = <<>>
               [] call = "recompute" -> input_cache = <<Fresh(micro)>> /\ input_cache' = <<>>
               [] call \in {"handle", "None"} -> input_cache' = input_cache
               [] OTHER -> input_cache' = <<Fresh(micro)>>
      PROVE  CacheIsLastSaved' /\ RecomputesTheLastSaved'
  <2>0. PICK n \in Nat : n = Len(log) + 1
    BY <1>1
  <2>1. /\ Len(log') = n
        /\ \A i \in 1 .. Len(log) : log'[i] = log[i]
        /\ log'[n] = [call |-> call, input |-> Fresh(micro), output |-> output]
        /\ DOMAIN log' = 1 .. n
    <3>1. /\ log' \in Seq([call : Calls, input : Matrix, output : Matrix])
          /\ Len(log') = n
          /\ \A i \in 1 .. Len(log) : log'[i] = log[i]
          /\ log'[n] = [call |-> call, input |-> Fresh(micro), output |-> output]
      BY <1>3, <2>0, FreshIsMatrix, RecordTypes
    <3> QED
      BY <3>1
  <2>2. \A i \in 1 .. n : \A k : IsLastCacheCall(k, i)' <=> IsLastCacheCall(k, i)
    BY <2>0, <2>1, PastKept
  <2>3. \A k : IsLastCacheCall(k, Len(log) + 1)' <=>
                 IF call \in CacheCalls THEN k = n ELSE IsLastCacheCall(k, n)
    <3>1. log'[Len(log) + 1].call = call
      BY <2>0, <2>1
    <3> QED
      BY <2>0, <2>1, <3>1, LastMoves
  <2>4. /\ \A k \in 1 .. Len(log) : Saved(k)' <=> Saved(k)
        /\ Saved(n)' <=> call # "recompute"
    BY <1>1, <2>0, <2>1 DEF Saved
  <2>5. \A i, k : IsLastCacheCall(k, i) => k \in 1 .. Len(log)
    BY <1>1 DEF IsLastCacheCall, Made
  <2>6. CacheIsLastSaved'
    <3>1. CASE call \in {"panic", "handle", "None"}
      <4>1. input_cache' = input_cache /\ call \notin CacheCalls
        BY <1>3, <3>1 DEF CacheCalls
      <4>2. \A k : IsLastCacheCall(k, Len(log) + 1)' <=> IsLastCacheCall(k, Len(log) + 1)
        BY <2>0, <2>3, <4>1
      <4> QED
        BY <1>1, <2>0, <2>1, <2>4, <2>5, <4>1, <4>2 DEF CacheIsLastSaved
    <3>2. CASE call = "recompute"
      <4>1. input_cache' = <<>> /\ call \in CacheCalls
        BY <1>3, <3>2 DEF CacheCalls
      <4> QED
        BY <2>3, <2>4, <3>2, <4>1 DEF CacheIsLastSaved
    <3>3. CASE call \in {"Full", "Selective"}
      <4>1. input_cache' = <<Fresh(micro)>> /\ call \in CacheCalls
        BY <1>3, <3>3 DEF CacheCalls
      <4>2. input_cache'[1] = Fresh(micro) /\ input_cache' # <<>>
        BY <4>1
      <4>3. n \in DOMAIN log' /\ log'[n].input = Fresh(micro)
        BY <1>1, <2>0, <2>1
      <4>4. Saved(n)'
        BY <2>4, <3>3
      <4>5. IsLastCacheCall(n, Len(log) + 1)'
        BY <2>3, <4>1
      <4> QED
        BY <4>2, <4>3, <4>4, <4>5 DEF CacheIsLastSaved
    <3> QED
      BY <3>1, <3>2, <3>3 DEF Calls, Strategies
  <2>7. ASSUME NEW i \in Made({"recompute"})'
        PROVE  \E k \in 1 .. i - 1 :
                 IsLastCacheCall(k, i)' /\ Saved(k)' /\ log'[i].input = log'[k].input
    <3>1. i \in 1 .. n /\ log'[i].call = "recompute"
      BY <2>1, <2>7 DEF Made
    <3>2. CASE i \in 1 .. Len(log)
      <4>1. i \in Made({"recompute"})
        BY <1>1, <2>1, <3>1, <3>2 DEF Made
      <4>2. PICK k \in 1 .. i - 1 :
              IsLastCacheCall(k, i) /\ Saved(k) /\ log[i].input = log[k].input
        BY <4>1 DEF RecomputesTheLastSaved
      <4>3. k \in 1 .. Len(log)
        BY <2>5, <4>2
      <4> QED
        BY <2>1, <2>2, <2>4, <3>1, <3>2, <4>2, <4>3
    <3>3. CASE i = n
      <4>1. call = "recompute" /\ log'[i].input = Fresh(micro)
        BY <2>1, <3>1, <3>3
      <4>2. input_cache # <<>> /\ input_cache[1] = Fresh(micro)
        <5>1. input_cache = <<Fresh(micro)>>
          BY <1>3, <4>1
        <5> QED
          BY <5>1
      <4>3. PICK k \in DOMAIN log : IsLastCacheCall(k, n) /\ Saved(k) /\ log[k].input = Fresh(micro)
        BY <2>0, <4>2 DEF CacheIsLastSaved
      <4>4. k \in 1 .. Len(log) /\ k \in 1 .. i - 1
        BY <1>1, <2>0, <3>3
      <4> QED
        BY <1>1, <2>0, <2>1, <2>2, <2>4, <3>1, <3>3, <4>1, <4>3, <4>4
    <3> QED
      BY <1>1, <2>0, <3>1, <3>2, <3>3
  <2>8. ASSUME NEW i \in Made({"panic"})', NEW k \in 1 .. i - 1, IsLastCacheCall(k, i)'
        PROVE  ~Saved(k)'
    <3>1. i \in 1 .. n /\ log'[i].call = "panic"
      BY <2>1, <2>8 DEF Made
    <3>2. IsLastCacheCall(k, i) /\ k \in 1 .. Len(log)
      BY <2>2, <2>5, <2>8, <3>1
    <3>3. CASE i \in 1 .. Len(log)
      <4>1. i \in Made({"panic"})
        BY <1>1, <2>1, <3>1, <3>3 DEF Made
      <4> QED
        BY <2>4, <2>8, <3>2, <4>1 DEF RecomputesTheLastSaved
    <3>4. CASE i = n
      <4>1. call = "panic"
        BY <2>1, <3>1, <3>4
      <4>2. input_cache = <<>>
        BY <1>3, <4>1
      <4> QED
        BY <1>1, <2>0, <2>4, <3>2, <3>4, <4>2 DEF CacheIsLastSaved
    <3> QED
      BY <1>1, <2>0, <3>1, <3>3, <3>4
  <2>9. RecomputesTheLastSaved'
    BY <2>7, <2>8 DEF RecomputesTheLastSaved
  <2> QED
    BY <2>6, <2>9
<1>4. CASE UNCHANGED checkpointVars
  BY <1>2, <1>4 DEF checkpointVars
<1>5. CASE CheckpointNext
  BY <1>2, <1>3, <1>5, Recorded
<1> QED
  BY <1>4, <1>5

\* recompute_and_backward runs on the input of the last checkpointed forward,
\* at most once, and panics without one, for every caller.
THEOREM RecomputesLast == CheckpointSpec => []RecomputesTheLastSaved
<1>1. CheckpointInit => CacheIsLastSaved /\ RecomputesTheLastSaved
  <2> SUFFICES ASSUME CheckpointInit PROVE CacheIsLastSaved /\ RecomputesTheLastSaved
    OBVIOUS
  <2>1. log = <<>> /\ DOMAIN log = {} /\ input_cache = <<>>
    BY DEF CheckpointInit
  <2> QED
    BY <2>1 DEF CacheIsLastSaved, RecomputesTheLastSaved, Made
<1> QED
  BY <1>1, InitTypes, NextTypes, NextCache, PTL DEF CheckpointSpec
------------------------------------------------------------------------------
(* Shapes and indices.                                                     *)

LEMMA Box1 == \A a : Box(<<a>>) = {<<i>> : i \in 0 .. a - 1}
  BY DEF Box
LEMMA Box2 == \A a, b : Box(<<a, b>>) = (0 .. a - 1) \X (0 .. b - 1)
  BY DEF Box
LEMMA Box3 == \A a, b, c : Box(<<a, b, c>>) = (0 .. a - 1) \X (0 .. b - 1) \X (0 .. c - 1)
  BY DEF Box
LEMMA Box4 ==
  \A a, b, c, d : Box(<<a, b, c, d>>) = (0 .. a - 1) \X (0 .. b - 1) \X (0 .. c - 1) \X (0 .. d - 1)
  BY DEF Box

LEMMA Last3 == \A a, b, c, i : WithLast(<<a, b, c>>, i) = <<a, b, i>>
  BY DEF WithLast
LEMMA Last4 == \A a, b, c, d, i : WithLast(<<a, b, c, d>>, i) = <<a, b, c, i>>
  BY DEF WithLast

LEMMA Swaps ==
  ASSUME NEW a, NEW b, NEW c, NEW d
  PROVE  Swapped(<<a, b, c, d>>, 2, 3) = <<a, c, b, d>> /\ Swapped(<<a, b, c, d>>, 3, 4) = <<a, b, d, c>>
  BY DEF Swapped

\* The recursive functions of Offset and Index are those that satisfy their
\* equations.
LEMMA OffsetFound ==
  ASSUME NEW dims, NEW n \in 1 .. 4, Len(dims) = n, NEW index, NEW g,
         g = [k \in 0 .. n |-> IF k = 0 THEN 0 ELSE g[k - 1] * dims[k] + index[k]]
  PROVE  Offset(dims, index) = g[n]
<1> DEFINE Is(h) == h = [k \in 0 .. Len(dims) |-> IF k = 0 THEN 0 ELSE h[k - 1] * dims[k] + index[k]]
           upTo == CHOOSE h : Is(h)
<1>1. Is(upTo)
  OBVIOUS
<1>2. Offset(dims, index) = upTo[n]
  BY DEF Offset
<1> HIDE DEF upTo
<1>3. upTo[0] = g[0]
  BY <1>1
<1>4. \A k \in 1 .. n : upTo[k] = upTo[k - 1] * dims[k] + index[k]
  BY <1>1
<1>5. \A k \in 1 .. n : g[k] = g[k - 1] * dims[k] + index[k]
  OBVIOUS
<1>6. upTo[1] = g[1]
  BY <1>3, <1>4, <1>5
<1>7. n >= 2 => upTo[2] = g[2]
  BY <1>4, <1>5, <1>6
<1>8. n >= 3 => upTo[3] = g[3]
  BY <1>4, <1>5, <1>7
<1>9. n >= 4 => upTo[4] = g[4]
  BY <1>4, <1>5, <1>8
<1> QED
  BY <1>2, <1>6, <1>7, <1>8, <1>9

LEMMA Offset1 ==
  ASSUME NEW a \in Nat, NEW i \in Nat
  PROVE  Offset(<<a>>, <<i>>) = i
<1> DEFINE g == [k \in 0 .. 1 |-> IF k = 0 THEN 0 ELSE i]
<1>1. g = [k \in 0 .. 1 |-> IF k = 0 THEN 0 ELSE g[k - 1] * <<a>>[k] + <<i>>[k]]
  OBVIOUS
<1>2. Len(<<a>>) = 1 /\ g[1] = i
  OBVIOUS
<1> HIDE DEF g
<1> QED
  BY <1>1, <1>2, OffsetFound

LEMMA Offset2 ==
  ASSUME NEW a \in Nat, NEW b \in Nat, NEW i \in Nat, NEW j \in Nat
  PROVE  Offset(<<a, b>>, <<i, j>>) = i * b + j
<1> DEFINE g == [k \in 0 .. 2 |-> IF k = 0 THEN 0 ELSE IF k = 1 THEN i ELSE i * b + j]
<1>1. g = [k \in 0 .. 2 |-> IF k = 0 THEN 0 ELSE g[k - 1] * <<a, b>>[k] + <<i, j>>[k]]
  OBVIOUS
<1>2. Len(<<a, b>>) = 2 /\ g[2] = i * b + j
  OBVIOUS
<1> HIDE DEF g
<1> QED
  BY <1>1, <1>2, OffsetFound

LEMMA Offset3 ==
  ASSUME NEW a \in Nat, NEW b \in Nat, NEW c \in Nat, NEW i \in Nat, NEW j \in Nat, NEW k \in Nat
  PROVE  Offset(<<a, b, c>>, <<i, j, k>>) = (i * b + j) * c + k
<1> DEFINE g == [n \in 0 .. 3 |-> IF n = 0 THEN 0 ELSE IF n = 1 THEN i
                                  ELSE IF n = 2 THEN i * b + j ELSE (i * b + j) * c + k]
<1>1. g = [n \in 0 .. 3 |-> IF n = 0 THEN 0 ELSE g[n - 1] * <<a, b, c>>[n] + <<i, j, k>>[n]]
  OBVIOUS
<1>2. Len(<<a, b, c>>) = 3 /\ g[3] = (i * b + j) * c + k
  OBVIOUS
<1> HIDE DEF g
<1> QED
  BY <1>1, <1>2, OffsetFound

LEMMA Offset4 ==
  ASSUME NEW a \in Nat, NEW b \in Nat, NEW c \in Nat, NEW d \in Nat,
         NEW i \in Nat, NEW j \in Nat, NEW k \in Nat, NEW l \in Nat
  PROVE  Offset(<<a, b, c, d>>, <<i, j, k, l>>) = ((i * b + j) * c + k) * d + l
<1> DEFINE g == [n \in 0 .. 4 |-> IF n = 0 THEN 0 ELSE IF n = 1 THEN i
                                  ELSE IF n = 2 THEN i * b + j ELSE IF n = 3 THEN (i * b + j) * c + k
                                  ELSE ((i * b + j) * c + k) * d + l]
<1>1. g = [n \in 0 .. 4 |-> IF n = 0 THEN 0 ELSE g[n - 1] * <<a, b, c, d>>[n] + <<i, j, k, l>>[n]]
  OBVIOUS
<1>2. Len(<<a, b, c, d>>) = 4 /\ g[4] = ((i * b + j) * c + k) * d + l
  OBVIOUS
<1> HIDE DEF g
<1> QED
  BY <1>1, <1>2, OffsetFound

LEMMA DivisionUnique ==
  ASSUME NEW q \in Nat, NEW d \in Nat \ {0}, NEW r \in 0 .. d - 1
  PROVE  (q * d + r) \div d = q /\ (q * d + r) % d = r /\ q * d + r \in Nat
<1>1. q * d \in Nat
  BY ProductType
<1>2. (q * d + r) \div d = q
  BY <1>1, InBlock
<1>3. q * d + r \in Nat
  BY <1>1
<1>4. (q * d + r) % d \in Nat /\ q * d + r = ((q * d + r) \div d) * d + ((q * d + r) % d)
  BY <1>3, Remainder
<1> QED
  BY <1>1, <1>2, <1>3, <1>4

LEMMA RemainderOfSmall ==
  ASSUME NEW d \in Nat \ {0}, NEW r \in 0 .. d - 1
  PROVE  r % d = r
<1>1. 0 * d + r = r
  OBVIOUS
<1> QED
  BY <1>1, DivisionUnique

LEMMA QuotientBound ==
  ASSUME NEW m \in Nat \ {0}, NEW d \in Nat \ {0}, NEW n \in 0 .. m * d - 1
  PROVE  n \div d \in 0 .. m - 1
<1> DEFINE q == n \div d
           r == n % d
<1>1. m * d \in Nat /\ n \in Nat
  BY ProductType
<1>2. r \in 0 .. d - 1 /\ q \in Nat /\ n = q * d + r
  BY <1>1, Remainder
<1> HIDE DEF q, r
<1>3. q * d \in Nat
  BY <1>2, ProductType
<1>4. ~ m <= q
  <2> SUFFICES ASSUME m <= q PROVE FALSE
    OBVIOUS
  <2>1. m * d <= q * d
    BY <1>2, ProductMonotone
  <2> QED
    BY <1>1, <1>2, <1>3, <2>1
<1>5. q \in 0 .. m - 1
  BY <1>2, <1>4
<1> QED
  BY <1>5 DEF q

LEMMA MixedBound ==
  ASSUME NEW m \in Nat \ {0}, NEW d \in Nat \ {0}, NEW q \in 0 .. m - 1, NEW r \in 0 .. d - 1
  PROVE  q * d + r \in 0 .. m * d - 1
<1>1. (q + 1) * d <= m * d
  BY ProductMonotone
<1>2. (q + 1) * d = q * d + d
  BY ProductNext
<1>3. q * d \in Nat /\ m * d \in Nat
  BY ProductType
<1> QED
  BY <1>1, <1>2, <1>3

\* The strides of Index, and the index they give.
Strides(h, dims) == h = [k \in 1 .. Len(dims) |-> IF k = Len(dims) THEN 1 ELSE h[k + 1] * dims[k + 1]]

AtStrides(g, dims, offset) == [k \in DOMAIN dims |-> (offset \div g[k]) % dims[k]]

LEMMA RestType ==
  ASSUME NEW n \in Nat, NEW s \in Nat \ {0}, NEW d \in Nat \ {0}
  PROVE  (n \div s) % d \in Nat
<1>1. n \div s \in Nat
  BY Remainder
<1> QED
  BY <1>1, Remainder

LEMMA IndexFound ==
  ASSUME NEW dims, Len(dims) \in 1 .. 4, DOMAIN dims = 1 .. Len(dims), NEW offset \in Nat,
         NEW g, Strides(g, dims),
         \A k \in DOMAIN dims : dims[k] \in Nat \ {0} /\ g[k] \in Nat \ {0}
  PROVE  Index(dims, offset) = AtStrides(g, dims, offset)
<1>0. PICK n \in 1 .. 4 : Len(dims) = n
  OBVIOUS
<1> DEFINE stride == CHOOSE h : Strides(h, dims)
<1>1. Strides(stride, dims)
  OBVIOUS
<1>2. Index(dims, offset) = <<>> \o [k \in DOMAIN dims |-> (offset \div stride[k]) % dims[k]]
  BY DEF Index, Strides
<1> HIDE DEF stride
<1>3. stride[n] = 1 /\ g[n] = 1
  BY <1>0, <1>1 DEF Strides
<1>4. \A k \in 1 .. n - 1 : stride[k] = stride[k + 1] * dims[k + 1] /\ g[k] = g[k + 1] * dims[k + 1]
  BY <1>0, <1>1 DEF Strides
<1>5. n - 1 \in 1 .. n => stride[n - 1] = g[n - 1]
  <2> SUFFICES ASSUME n - 1 \in 1 .. n PROVE stride[n - 1] = g[n - 1]
    OBVIOUS
  <2>1. n - 1 \in 1 .. n - 1 /\ (n - 1) + 1 = n
    OBVIOUS
  <2> QED
    BY <1>3, <1>4, <2>1
<1>6. n - 2 \in 1 .. n => stride[n - 2] = g[n - 2]
  <2> SUFFICES ASSUME n - 2 \in 1 .. n PROVE stride[n - 2] = g[n - 2]
    OBVIOUS
  <2>1. n - 2 \in 1 .. n - 1 /\ (n - 2) + 1 = n - 1 /\ n - 1 \in 1 .. n
    OBVIOUS
  <2> QED
    BY <1>4, <1>5, <2>1
<1>7. n - 3 \in 1 .. n => stride[n - 3] = g[n - 3]
  <2> SUFFICES ASSUME n - 3 \in 1 .. n PROVE stride[n - 3] = g[n - 3]
    OBVIOUS
  <2>1. n - 3 \in 1 .. n - 1 /\ (n - 3) + 1 = n - 2 /\ n - 2 \in 1 .. n
    OBVIOUS
  <2> QED
    BY <1>4, <1>6, <2>1
<1>8. \A k \in 1 .. n : stride[k] = g[k]
  <2> SUFFICES ASSUME NEW k \in 1 .. n PROVE stride[k] = g[k]
    OBVIOUS
  <2>1. k = n \/ k = n - 1 \/ k = n - 2 \/ k = n - 3
    OBVIOUS
  <2> QED
    BY <1>3, <1>5, <1>6, <1>7, <2>1
<1> DEFINE at == [k \in 1 .. n |-> (offset \div g[k]) % dims[k]]
<1>9. Index(dims, offset) = <<>> \o at
  BY <1>0, <1>2, <1>8
<1>10. \A k \in 1 .. n : (offset \div g[k]) % dims[k] \in Nat
  BY <1>0, RestType
<1>11. at \in Seq(Nat)
  <2>1. at \in [1 .. n -> Nat] /\ n \in Nat
    BY <1>10
  <2> HIDE DEF at
  <2> QED
    BY <2>1
<1> HIDE DEF at
<1>12. <<>> \o at = at
  BY <1>11, ConcatEmptySeq
<1> QED
  BY <1>0, <1>9, <1>12 DEF at, AtStrides

LEMMA Index2 ==
  ASSUME NEW a \in Nat \ {0}, NEW b \in Nat \ {0}, NEW i \in 0 .. a - 1, NEW j \in 0 .. b - 1
  PROVE  Index(<<a, b>>, Offset(<<a, b>>, <<i, j>>)) = <<i, j>>
<1> DEFINE g == [k \in 1 .. 2 |-> IF k = 2 THEN 1 ELSE 1 * b]
           dims == <<a, b>>
           n == Offset(<<a, b>>, <<i, j>>)
<1>0. n = i * b + j
  BY Offset2
<1> HIDE DEF n
<1>1. Strides(g, dims)
  BY DEF Strides
<1>2. g[1] = b /\ g[2] = 1 /\ dims[1] = a /\ dims[2] = b /\ Len(dims) = 2 /\ DOMAIN dims = 1 .. 2
  OBVIOUS
<1>3. n \in Nat /\ n \div b = i /\ n % b = j
  BY <1>0, DivisionUnique
<1>4. n \div 1 = n
  BY <1>3
<1>5. i % a = i
  BY RemainderOfSmall
<1> HIDE DEF g, dims
<1>6. Index(dims, n) = AtStrides(g, dims, n)
  <2>1. \A k \in DOMAIN dims : dims[k] \in Nat \ {0} /\ g[k] \in Nat \ {0}
    BY <1>2
  <2>2. Len(dims) \in 1 .. 4 /\ DOMAIN dims = 1 .. Len(dims)
    BY <1>2
  <2> QED
    BY ONLY <1>1, <1>3, <2>1, <2>2, IndexFound
<1>7. AtStrides(g, dims, n) = <<i, j>>
  BY ONLY <1>2, <1>3, <1>4, <1>5 DEF AtStrides
<1> QED
  BY <1>6, <1>7 DEF dims, n

LEMMA Regroup ==
  ASSUME NEW q \in Nat, NEW c \in Nat, NEW k \in Nat, NEW d \in Nat, NEW l \in Nat
  PROVE  (q * c + k) * d + l = q * (d * c) + (k * d + l)
OBVIOUS

\* A number of two digits and what is before them.
LEMMA TwoDigits ==
  ASSUME NEW q \in Nat, NEW c \in Nat \ {0}, NEW d \in Nat \ {0}, NEW k \in 0 .. c - 1, NEW l \in 0 .. d - 1,
         NEW n, n = (q * c + k) * d + l
  PROVE  /\ n \in Nat /\ n \div d = q * c + k /\ n % d = l
         /\ d * c \in Nat \ {0} /\ k * d + l \in 0 .. d * c - 1 /\ n = q * (d * c) + (k * d + l)
         /\ n \div (d * c) = q
<1>1. q * c + k \in Nat /\ d * c \in Nat /\ d * c = c * d
  BY ProductType
<1>2. n \in Nat /\ n \div d = q * c + k /\ n % d = l
  BY <1>1, DivisionUnique
<1>3. k * d + l \in 0 .. d * c - 1
  <2>1. k * d + l \in 0 .. c * d - 1
    BY MixedBound
  <2> QED
    BY <1>1, <2>1
<1>4. d * c # 0
  BY <1>1, <1>3
<1>5. n = q * (d * c) + (k * d + l)
  BY Regroup
<1>6. n \div (d * c) = q
  BY <1>1, <1>3, <1>4, <1>5, DivisionUnique
<1> QED
  BY <1>1, <1>2, <1>3, <1>4, <1>5, <1>6

LEMMA Index3 ==
  ASSUME NEW a \in Nat \ {0}, NEW b \in Nat \ {0}, NEW c \in Nat \ {0},
         NEW i \in 0 .. a - 1, NEW j \in 0 .. b - 1, NEW k \in 0 .. c - 1
  PROVE  Index(<<a, b, c>>, Offset(<<a, b, c>>, <<i, j, k>>)) = <<i, j, k>>
<1> DEFINE g == [m \in 1 .. 3 |-> IF m = 3 THEN 1 ELSE IF m = 2 THEN 1 * c ELSE (1 * c) * b]
           dims == <<a, b, c>>
           n == Offset(<<a, b, c>>, <<i, j, k>>)
<1>0. n = (i * b + j) * c + k
  <2>1. a \in Nat /\ b \in Nat /\ c \in Nat /\ i \in Nat /\ j \in Nat /\ k \in Nat
    OBVIOUS
  <2> QED
    BY ONLY <2>1, Offset3 DEF n
<1> HIDE DEF n
<1>1. Strides(g, dims)
  BY DEF Strides
<1>2. /\ g[1] = c * b /\ g[2] = c /\ g[3] = 1
      /\ dims[1] = a /\ dims[2] = b /\ dims[3] = c /\ Len(dims) = 3 /\ DOMAIN dims = 1 .. 3
  OBVIOUS
<1>3. /\ n \in Nat /\ n \div c = i * b + j /\ n % c = k
      /\ c * b \in Nat \ {0} /\ n \div (c * b) = i
  BY <1>0, TwoDigits
<1>4. n \div 1 = n /\ (n \div c) % b = j /\ (n \div (c * b)) % a = i
  <2>1. (i * b + j) % b = j
    BY DivisionUnique
  <2>2. i % a = i
    BY RemainderOfSmall
  <2> QED
    BY ONLY <1>3, <2>1, <2>2
<1> HIDE DEF g, dims
<1>5. Index(dims, n) = AtStrides(g, dims, n)
  <2>1. \A m \in DOMAIN dims : dims[m] \in Nat \ {0} /\ g[m] \in Nat \ {0}
    BY <1>2, <1>3
  <2>2. Len(dims) \in 1 .. 4 /\ DOMAIN dims = 1 .. Len(dims)
    BY <1>2
  <2> QED
    BY ONLY <1>1, <1>3, <2>1, <2>2, IndexFound
<1>6. AtStrides(g, dims, n) = <<i, j, k>>
  BY ONLY <1>2, <1>3, <1>4 DEF AtStrides
<1> QED
  BY <1>5, <1>6 DEF dims, n

LEMMA Index4 ==
  ASSUME NEW a \in Nat \ {0}, NEW b \in Nat \ {0}, NEW c \in Nat \ {0}, NEW d \in Nat \ {0},
         NEW i \in 0 .. a - 1, NEW j \in 0 .. b - 1, NEW k \in 0 .. c - 1, NEW l \in 0 .. d - 1
  PROVE  Index(<<a, b, c, d>>, Offset(<<a, b, c, d>>, <<i, j, k, l>>)) = <<i, j, k, l>>
<1> DEFINE g == [m \in 1 .. 4 |-> IF m = 4 THEN 1 ELSE IF m = 3 THEN 1 * d
                                  ELSE IF m = 2 THEN (1 * d) * c ELSE ((1 * d) * c) * b]
           dims == <<a, b, c, d>>
           q == i * b + j
           n == Offset(<<a, b, c, d>>, <<i, j, k, l>>)
<1>4. n = (q * c + k) * d + l
  BY Offset4
<1> HIDE DEF n
<1>1. Strides(g, dims)
  BY DEF Strides
<1>2. /\ g[1] = (d * c) * b /\ g[2] = d * c /\ g[3] = d /\ g[4] = 1
      /\ dims[1] = a /\ dims[2] = b /\ dims[3] = c /\ dims[4] = d /\ Len(dims) = 4 /\ DOMAIN dims = 1 .. 4
  OBVIOUS
<1>3. q \in Nat /\ q % b = j
  BY DivisionUnique
<1>5. /\ n \in Nat /\ n \div d = q * c + k /\ n % d = l
      /\ d * c \in Nat \ {0} /\ k * d + l \in 0 .. d * c - 1 /\ n = q * (d * c) + (k * d + l)
      /\ n \div (d * c) = q
  <2> HIDE DEF q
  <2> QED
    BY <1>3, <1>4, TwoDigits
<1>6. (d * c) * b \in Nat \ {0} /\ n \div ((d * c) * b) = i
  <2> DEFINE m == d * c
             r == k * d + l
  <2>1. n = (i * b + j) * m + r
    BY <1>5
  <2>2. m \in Nat \ {0} /\ r \in 0 .. m - 1
    BY <1>5
  <2> HIDE DEF m, r
  <2>3. m * b \in Nat \ {0} /\ n \div (m * b) = i
    BY <2>1, <2>2, TwoDigits
  <2> QED
    BY <2>3 DEF m
<1> HIDE DEF q
<1>7. n \div 1 = n /\ (n \div d) % c = k /\ (n \div (d * c)) % b = j /\ (n \div ((d * c) * b)) % a = i
  <2>1. (q * c + k) % c = k
    BY <1>3, DivisionUnique
  <2>2. i % a = i
    BY RemainderOfSmall
  <2> QED
    BY ONLY <1>3, <1>5, <1>6, <2>1, <2>2
<1> HIDE DEF g, dims
<1>8. Index(dims, n) = AtStrides(g, dims, n)
  <2>1. \A m \in DOMAIN dims : dims[m] \in Nat \ {0} /\ g[m] \in Nat \ {0}
    BY <1>2, <1>5, <1>6
  <2>2. Len(dims) \in 1 .. 4 /\ DOMAIN dims = 1 .. Len(dims)
    BY <1>2
  <2> QED
    BY ONLY <1>1, <1>5, <2>1, <2>2, IndexFound
<1>9. AtStrides(g, dims, n) = <<i, j, k, l>>
  BY ONLY <1>2, <1>5, <1>7 DEF AtStrides
<1> QED
  BY <1>8, <1>9 DEF dims, n
------------------------------------------------------------------------------
(* What the elements have seen.                                            *)

\* The tokens and positions of some places of row b.
Seen(b, places) == {Token(b, t) : t \in places} \cup {Position(t) : t \in places}

\* The places a position has seen after some blocks.
PlacesSeen(blocks, s) == IF blocks = 0 THEN {s} ELSE 0 .. s

LEMMA SeenProper ==
  ASSUME NEW b, NEW places, NEW t \in places
  PROVE  Seen(b, places) # Masked
<1>1. Token(b, t) \in Seen(b, places)
  BY DEF Seen
<1>2. Token(b, t) # <<"masked", 0, 0>>
  BY DEF Token
<1> QED
  BY <1>1, <1>2 DEF Masked

HeadNumbers == 0 .. config.num_heads - 1
Features == 0 .. config.d_model - 1
HeadFeatures == 0 .. d_head - 1

\* MultiHeadAttention::new lets the shape through.
Even == config \in Shapes /\ config.d_model % config.num_heads = 0

LEMMA EvenFacts ==
  ASSUME Even
  PROVE  /\ config.batch_size \in Nat \ {0} /\ config.seq_len \in Nat \ {0} /\ config.num_heads \in Nat \ {0}
         /\ d_head \in Nat \ {0} /\ config.num_heads * d_head = config.d_model
<1>1. /\ config.batch_size \in Nat \ {0} /\ config.seq_len \in Nat \ {0}
      /\ config.num_heads \in Nat \ {0} /\ config.d_model \in Nat \ {0}
  BY GptExampleAssumption DEF Even, Shape
<1> DEFINE d == config.d_model
           h == config.num_heads
<1>2. d_head \in Nat /\ d = d_head * h + 0
  BY <1>1, Remainder DEF Even, d_head
<1> HIDE DEF d, h
<1>3. d_head * h \in Nat /\ d_head * h = h * d_head
  BY <1>1, <1>2 DEF h
<1>4. d_head # 0
  <2> SUFFICES ASSUME d_head = 0 PROVE FALSE
    OBVIOUS
  <2>1. 0 * h = 0
    BY <1>1 DEF h
  <2> QED
    BY <1>1, <1>2, <2>1 DEF d
<1> QED
  BY <1>1, <1>2, <1>3, <1>4 DEF d, h

LEMMA HiddenPlaces == \A b \in Rows, s \in Positions, d \in Features : <<b, s, d>> \in Box(HiddenDims)
  BY Box3 DEF HiddenDims, Rows, Positions, Features

\* The features of a head lie side by side in a row.
LEMMA HeadPlaces ==
  ASSUME Even, NEW b \in Rows, NEW h \in HeadNumbers, NEW s \in Positions, NEW e \in HeadFeatures
  PROVE  LET apart == <<config.batch_size, config.seq_len, config.num_heads, d_head>>
         IN  /\ <<b, h, s, e>> \in Box(HeadDims) /\ <<b, s, h, e>> \in Box(apart)
             /\ h * d_head + e \in Features
             /\ Index(HiddenDims, Offset(apart, <<b, s, h, e>>)) = <<b, s, h * d_head + e>>
             /\ Index(apart, Offset(HiddenDims, <<b, s, h * d_head + e>>)) = <<b, s, h, e>>
<1> DEFINE bs == config.batch_size
           ss == config.seq_len
           hs == config.num_heads
<1>1. /\ bs \in Nat \ {0} /\ ss \in Nat \ {0} /\ hs \in Nat \ {0} /\ d_head \in Nat \ {0}
      /\ HiddenDims = <<bs, ss, hs * d_head>> /\ Features = 0 .. hs * d_head - 1
  BY EvenFacts DEF HiddenDims, Features
<1>2. b \in 0 .. bs - 1 /\ s \in 0 .. ss - 1 /\ h \in 0 .. hs - 1 /\ e \in 0 .. d_head - 1
  BY DEF Rows, Positions, HeadNumbers, HeadFeatures
<1>3. <<b, h, s, e>> \in Box(HeadDims) /\ <<b, s, h, e>> \in Box(<<bs, ss, hs, d_head>>)
  BY <1>2, Box4 DEF HeadDims
<1> HIDE DEF bs, ss, hs
<1> DEFINE all == hs * d_head
           d == h * d_head + e
           q == b * ss + s
<1>4. d \in 0 .. all - 1 /\ all \in Nat \ {0} /\ all = d_head * hs
  BY <1>1, <1>2, MixedBound, ProductType
<1>5. q \in Nat
  BY <1>1, <1>2, ProductType
<1>6. Offset(<<bs, ss, hs, d_head>>, <<b, s, h, e>>) = (q * hs + h) * d_head + e
  <2>1. /\ bs \in Nat /\ ss \in Nat /\ hs \in Nat /\ d_head \in Nat
        /\ b \in Nat /\ s \in Nat /\ h \in Nat /\ e \in Nat
    BY <1>1, <1>2
  <2> QED
    BY ONLY <2>1, Offset4 DEF q
<1>7. Offset(<<bs, ss, all>>, <<b, s, d>>) = q * all + d
  <2> HIDE DEF all, d
  <2> QED
    BY <1>1, <1>2, <1>4, Offset3
<1>8. (q * hs + h) * d_head + e = q * all + d
  <2> HIDE DEF q
  <2>1. (q * hs + h) * d_head + e = q * (d_head * hs) + (h * d_head + e)
    BY <1>1, <1>2, <1>5, Regroup
  <2> QED
    BY <1>4, <2>1
<1> HIDE DEF all, d, q
<1>9. Index(<<bs, ss, hs, d_head>>, Offset(<<bs, ss, hs, d_head>>, <<b, s, h, e>>)) = <<b, s, h, e>>
  BY <1>1, <1>2, Index4
<1>10. Index(<<bs, ss, all>>, Offset(<<bs, ss, all>>, <<b, s, d>>)) = <<b, s, d>>
  BY <1>1, <1>2, <1>4, Index3
<1>11. HiddenDims = <<bs, ss, all>> /\ d \in Features
  BY <1>1, <1>4 DEF all
<1> QED
  BY <1>3, <1>6, <1>7, <1>8, <1>9, <1>10, <1>11 DEF d, bs, ss, hs

\* Each element has seen, of its own row of the batch, what its position has seen
\* after some blocks.
HiddenSees(x, blocks) ==
  \A b \in Rows, s \in Positions, d \in Features : x[<<b, s, d>>] = Seen(b, PlacesSeen(blocks, s))
HeadsSee(x, blocks) ==
  \A b \in Rows, h \in HeadNumbers, s \in Positions, e \in HeadFeatures :
    x[<<b, h, s, e>>] = Seen(b, PlacesSeen(blocks, s))

LEMMA RowsSee ==
  ASSUME config.d_model \in Nat \ {0}, NEW x, NEW blocks, HiddenSees(x, blocks), NEW width
  PROVE  /\ DOMAIN OverRows(x, HiddenDims, width) = Box(<<config.batch_size, config.seq_len, width>>)
         /\ \A b \in Rows, s \in Positions, v \in 0 .. width - 1 :
              OverRows(x, HiddenDims, width)[<<b, s, v>>] = Seen(b, PlacesSeen(blocks, s))
<1> DEFINE dims == <<config.batch_size, config.seq_len, width>>
<1>1. OverRows(x, HiddenDims, width) = [index \in Box(dims) |-> UNION Row(x, HiddenDims, index)]
  BY Last3 DEF OverRows, HiddenDims
<1>2. ASSUME NEW b \in Rows, NEW s \in Positions, NEW v \in 0 .. width - 1
      PROVE  <<b, s, v>> \in Box(dims) /\ UNION Row(x, HiddenDims, <<b, s, v>>) = Seen(b, PlacesSeen(blocks, s))
  <2>1. <<b, s, v>> \in Box(dims)
    BY Box3 DEF Rows, Positions
  <2>2. Row(x, HiddenDims, <<b, s, v>>) = {x[<<b, s, i>>] : i \in Features}
    BY Last3 DEF Row, HiddenDims, Features
  <2>3. Row(x, HiddenDims, <<b, s, v>>) = {Seen(b, PlacesSeen(blocks, s))}
    <3>1. 0 \in Features
      BY DEF Features
    <3> QED
      BY <2>2, <3>1 DEF HiddenSees
  <2> QED
    BY <2>1, <2>3
<1> QED
  BY <1>1, <1>2

LEMMA LayerSees ==
  ASSUME config.d_model \in Nat \ {0}, NEW x, NEW blocks, HiddenSees(x, blocks)
  PROVE  HiddenSees(Layer(x), blocks) /\ DOMAIN Layer(x) = Box(HiddenDims)
<1>1. /\ DOMAIN Layer(x) = Box(HiddenDims)
      /\ \A b \in Rows, s \in Positions, v \in Features :
           Layer(x)[<<b, s, v>>] = Seen(b, PlacesSeen(blocks, s))
  BY RowsSee DEF Layer, Features, HiddenDims
<1> QED
  BY <1>1 DEF HiddenSees

LEMMA SumSees ==
  ASSUME config.d_model \in Nat \ {0}, NEW x, DOMAIN x = Box(HiddenDims), HiddenSees(x, 1),
         NEW y, NEW blocks, HiddenSees(y, blocks)
  PROVE  HiddenSees(Sum(x, y), 1) /\ DOMAIN Sum(x, y) = Box(HiddenDims)
<1>1. DOMAIN Sum(x, y) = Box(HiddenDims)
  BY DEF Sum
<1>2. ASSUME NEW b \in Rows, NEW s \in Positions, NEW d \in Features
      PROVE  Sum(x, y)[<<b, s, d>>] = Seen(b, PlacesSeen(1, s))
  <2>1. <<b, s, d>> \in Box(HiddenDims)
    BY HiddenPlaces
  <2>2. Sum(x, y)[<<b, s, d>>] = Seen(b, PlacesSeen(1, s)) \cup Seen(b, PlacesSeen(blocks, s))
    BY <2>1 DEF Sum, HiddenSees
  <2>3. PlacesSeen(1, s) \cup PlacesSeen(blocks, s) = PlacesSeen(1, s)
    BY DEF PlacesSeen, Positions
  <2>4. Seen(b, PlacesSeen(1, s)) \cup Seen(b, PlacesSeen(blocks, s))
          = Seen(b, PlacesSeen(1, s) \cup PlacesSeen(blocks, s))
    BY DEF Seen
  <2> QED
    BY <2>2, <2>3, <2>4
<1> QED
  BY <1>1, <1>2 DEF HiddenSees

\* Splitting into heads and merging them again keeps rows and positions.
LEMMA SplitSees ==
  ASSUME Even, NEW x, NEW blocks, HiddenSees(x, blocks)
  PROVE  HeadsSee(SplitHeads(x), blocks)
<1> SUFFICES ASSUME NEW b \in Rows, NEW h \in HeadNumbers, NEW s \in Positions, NEW e \in HeadFeatures
             PROVE  SplitHeads(x)[<<b, h, s, e>>] = Seen(b, PlacesSeen(blocks, s))
  BY DEF HeadsSee
<1> DEFINE apart == <<config.batch_size, config.seq_len, config.num_heads, d_head>>
<1>1. Swapped(HeadDims, 2, 3) = apart /\ Swapped(apart, 2, 3) = HeadDims
  BY Swaps DEF HeadDims
<1>2. SplitHeads(x) = [index \in Box(HeadDims) |-> reshape(x, HiddenDims, apart)[Swapped(index, 2, 3)]]
  BY <1>1 DEF SplitHeads, swap_dims
<1>3. <<b, h, s, e>> \in Box(HeadDims) /\ <<b, s, h, e>> \in Box(apart)
  BY HeadPlaces
<1>4. SplitHeads(x)[<<b, h, s, e>>] = reshape(x, HiddenDims, apart)[<<b, s, h, e>>]
  BY <1>2, <1>3, Swaps
<1>5. reshape(x, HiddenDims, apart)[<<b, s, h, e>>] = x[Index(HiddenDims, Offset(apart, <<b, s, h, e>>))]
  BY <1>3 DEF reshape
<1>6. /\ Index(HiddenDims, Offset(apart, <<b, s, h, e>>)) = <<b, s, h * d_head + e>>
      /\ h * d_head + e \in Features
  BY HeadPlaces
<1> QED
  BY <1>4, <1>5, <1>6 DEF HiddenSees

LEMMA MergeSees ==
  ASSUME Even, NEW x, NEW blocks, HeadsSee(x, blocks)
  PROVE  HiddenSees(MergeHeads(x), blocks)
<1> SUFFICES ASSUME NEW b \in Rows, NEW s \in Positions, NEW d \in Features
             PROVE  MergeHeads(x)[<<b, s, d>>] = Seen(b, PlacesSeen(blocks, s))
  BY DEF HiddenSees
<1> DEFINE apart == <<config.batch_size, config.seq_len, config.num_heads, d_head>>
           h == d \div d_head
           e == d % d_head
<1>1. Swapped(HeadDims, 2, 3) = apart
  BY Swaps DEF HeadDims
<1>2. h \in HeadNumbers /\ e \in HeadFeatures /\ d = h * d_head + e
  <2>1. d \in Nat /\ d \in 0 .. config.num_heads * d_head - 1
    BY EvenFacts DEF Features
  <2> QED
    BY <2>1, EvenFacts, Remainder, QuotientBound DEF HeadNumbers, HeadFeatures
<1> HIDE DEF h, e
<1>3. <<b, s, d>> \in Box(HiddenDims) /\ <<b, s, h, e>> \in Box(apart)
  BY <1>2, HiddenPlaces, HeadPlaces
<1>4. MergeHeads(x)[<<b, s, d>>] = swap_dims(x, HeadDims, 2, 3)[Index(apart, Offset(HiddenDims, <<b, s, d>>))]
  BY <1>1, <1>3 DEF MergeHeads, reshape
<1>5. Index(apart, Offset(HiddenDims, <<b, s, d>>)) = <<b, s, h, e>>
  BY <1>2, HeadPlaces
<1>6. swap_dims(x, HeadDims, 2, 3)[<<b, s, h, e>>] = x[<<b, h, s, e>>]
  BY <1>1, <1>3, Swaps DEF swap_dims
<1> QED
  BY <1>2, <1>4, <1>5, <1>6 DEF HeadsSee
------------------------------------------------------------------------------
(* Attention.                                                              *)

ScoresOf(q) == Scored(matmul(q, HeadDims, swap_dims(q, HeadDims, 3, 4), KeyDims))

\* The score of a later position is masked, any other has seen what the two
\* positions have.
LEMMA ScoresSee ==
  ASSUME Even, NEW q, NEW blocks, HeadsSee(q, blocks),
         NEW b \in Rows, NEW h \in HeadNumbers, NEW i \in Positions, NEW j \in Positions
  PROVE  ScoresOf(q)[<<b, h, i, j>>]
           = IF j > i THEN Masked ELSE Seen(b, PlacesSeen(blocks, i)) \cup Seen(b, PlacesSeen(blocks, j))
<1> DEFINE k_t == swap_dims(q, HeadDims, 3, 4)
           product == matmul(q, HeadDims, k_t, KeyDims)
           both == Seen(b, PlacesSeen(blocks, i)) \cup Seen(b, PlacesSeen(blocks, j))
<1>1. /\ KeyDims = <<config.batch_size, config.num_heads, d_head, config.seq_len>>
      /\ HeadDims = <<config.batch_size, config.num_heads, config.seq_len, d_head>>
      /\ Swapped(HeadDims, 3, 4) = KeyDims
  BY Swaps DEF KeyDims, HeadDims
<1>2. <<b, h, i, j>> \in Box(ScoreDims)
  BY Box4 DEF ScoreDims, Rows, HeadNumbers, Positions
<1>3. ScoresOf(q)[<<b, h, i, j>>] = IF j > i THEN Masked ELSE product[<<b, h, i, j>>]
  BY <1>2 DEF ScoresOf, Scored, create_causal_mask
<1>4. ASSUME NEW e \in HeadFeatures
      PROVE  /\ q[<<b, h, i, e>>] = Seen(b, PlacesSeen(blocks, i))
             /\ q[<<b, h, i, e>>] # Masked
             /\ k_t[<<b, h, e, j>>] = Seen(b, PlacesSeen(blocks, j))
  <2>1. <<b, h, e, j>> \in Box(KeyDims)
    BY <1>1, Box4 DEF Rows, HeadNumbers, Positions, HeadFeatures
  <2>2. k_t[<<b, h, e, j>>] = q[<<b, h, j, e>>]
    BY <1>1, <2>1, Swaps DEF swap_dims
  <2>3. i \in PlacesSeen(blocks, i)
    BY DEF PlacesSeen, Positions
  <2> QED
    BY <2>2, <2>3, SeenProper DEF HeadsSee
<1>5. product[<<b, h, i, j>>]
        = UNION {q[WithLast(<<b, h, i, j>>, e)] \cup k_t[<<b, h, e, j>>] :
                   e \in {n \in HeadFeatures : q[WithLast(<<b, h, i, j>>, n)] # Masked}}
  <2>1. WithLast(HeadDims, KeyDims[4]) = ScoreDims
    BY <1>1, Last4 DEF ScoreDims
  <2>2. HeadDims[4] = d_head
    BY <1>1
  <2> QED
    BY <1>2, <2>1, <2>2 DEF matmul, HeadFeatures
<1>6. \A e \in HeadFeatures : WithLast(<<b, h, i, j>>, e) = <<b, h, i, e>>
  BY Last4
<1> HIDE DEF k_t, product
<1>7. {n \in HeadFeatures : q[WithLast(<<b, h, i, j>>, n)] # Masked} = HeadFeatures
  BY <1>4, <1>6
<1>8. {q[WithLast(<<b, h, i, j>>, e)] \cup k_t[<<b, h, e, j>>] : e \in HeadFeatures} = {both}
  <2>1. 0 \in HeadFeatures
    BY EvenFacts DEF HeadFeatures
  <2>2. \A e \in HeadFeatures : q[WithLast(<<b, h, i, j>>, e)] \cup k_t[<<b, h, e, j>>] = both
    BY <1>4, <1>6
  <2> HIDE DEF both
  <2> QED
    BY <2>1, <2>2
<1>9. product[<<b, h, i, j>>] = both
  BY <1>5, <1>7, <1>8
<1> QED
  BY <1>3, <1>9

LEMMA UpTo ==
  ASSUME Even, NEW i \in Positions
  PROVE  \A k : k \in 0 .. i <=> k \in Positions /\ ~ k > i
  BY EvenFacts DEF Positions

\* The weights of the later positions are 0, and the others depend on every score
\* of the position.
LEMMA WeightsSee ==
  ASSUME Even, NEW q, NEW blocks, HeadsSee(q, blocks),
         NEW b \in Rows, NEW h \in HeadNumbers, NEW i \in Positions, NEW j \in Positions
  PROVE  softmax(ScoresOf(q), ScoreDims)[<<b, h, i, j>>] = IF j > i THEN Masked ELSE Seen(b, 0 .. i)
<1> DEFINE scores == ScoresOf(q)
           all == Row(scores, ScoreDims, <<b, h, i, j>>)
           seen(k) == Seen(b, PlacesSeen(blocks, i)) \cup Seen(b, PlacesSeen(blocks, k))
<1>1. <<b, h, i, j>> \in Box(ScoreDims)
  BY Box4 DEF ScoreDims, Rows, HeadNumbers, Positions
<1>2. softmax(scores, ScoreDims)[<<b, h, i, j>>]
        = IF all \ {Masked} = {} THEN NaN
          ELSE IF scores[<<b, h, i, j>>] = Masked THEN Masked ELSE UNION (all \ {Masked})
  BY <1>1 DEF softmax
<1>3. all = {scores[<<b, h, i, k>>] : k \in Positions}
  BY Last4 DEF Row, ScoreDims, Positions
<1>4. ASSUME NEW k \in Positions
      PROVE  scores[<<b, h, i, k>>] = IF k > i THEN Masked ELSE seen(k)
  BY ScoresSee
<1>5. ASSUME NEW k \in Positions PROVE seen(k) # Masked
  <2>1. i \in PlacesSeen(blocks, i)
    BY DEF PlacesSeen, Positions
  <2>2. Token(b, i) \in seen(k) /\ Token(b, i) # <<"masked", 0, 0>>
    BY <2>1 DEF Seen, Token
  <2> QED
    BY <2>2 DEF Masked
<1> HIDE DEF scores, all, seen
<1>6. all \ {Masked} = {seen(k) : k \in 0 .. i}
  <2>1. \A k : k \in 0 .. i <=> k \in Positions /\ ~ k > i
    BY UpTo
  <2> QED
    BY <1>3, <1>4, <1>5, <2>1
<1>7. UNION {seen(k) : k \in 0 .. i} = Seen(b, 0 .. i)
  <2>1. \A k \in 0 .. i : PlacesSeen(blocks, i) \subseteq 0 .. i /\ PlacesSeen(blocks, k) \subseteq 0 .. i
    BY DEF PlacesSeen, Positions
  <2>2. \A k \in 0 .. i : k \in PlacesSeen(blocks, k)
    BY DEF PlacesSeen
  <2> QED
    BY <2>1, <2>2 DEF seen, Seen
<1>8. all \ {Masked} # {}
  BY <1>6 DEF Positions
<1>9. scores[<<b, h, i, j>>] = Masked <=> j > i
  BY <1>4, <1>5
<1> QED
  BY <1>2, <1>6, <1>7, <1>8, <1>9 DEF scores

\* A position takes from the values of the positions it has a weight for.
LEMMA MixSees ==
  ASSUME Even, NEW q, NEW blocks, HeadsSee(q, blocks)
  PROVE  HeadsSee(matmul(softmax(ScoresOf(q), ScoreDims), ScoreDims, q, HeadDims), 1)
<1> DEFINE attn == softmax(ScoresOf(q), ScoreDims)
           mixed == matmul(attn, ScoreDims, q, HeadDims)
<1> SUFFICES ASSUME NEW b \in Rows, NEW h \in HeadNumbers, NEW i \in Positions, NEW e \in HeadFeatures
             PROVE  mixed[<<b, h, i, e>>] = Seen(b, PlacesSeen(1, i))
  BY DEF HeadsSee
<1>1. WithLast(ScoreDims, HeadDims[4]) = HeadDims /\ ScoreDims[4] = config.seq_len
  BY Last4 DEF ScoreDims, HeadDims
<1>2. <<b, h, i, e>> \in Box(HeadDims)
  BY HeadPlaces
<1>3. \A k \in Positions : WithLast(<<b, h, i, e>>, k) = <<b, h, i, k>>
  BY Last4
<1>4. mixed[<<b, h, i, e>>]
        = UNION {attn[WithLast(<<b, h, i, e>>, k)] \cup q[<<b, h, k, e>>] :
                   k \in {n \in Positions : attn[WithLast(<<b, h, i, e>>, n)] # Masked}}
  BY <1>1, <1>2 DEF matmul, Positions
<1>5. ASSUME NEW k \in Positions
      PROVE  attn[<<b, h, i, k>>] = IF k > i THEN Masked ELSE Seen(b, 0 .. i)
  BY WeightsSee
<1>6. Seen(b, 0 .. i) # Masked
  <2>1. i \in 0 .. i
    BY DEF Positions
  <2> QED
    BY <2>1, SeenProper
<1> HIDE DEF attn
<1>7. {n \in Positions : attn[WithLast(<<b, h, i, e>>, n)] # Masked} = 0 .. i
  <2>1. \A k : k \in 0 .. i <=> k \in Positions /\ ~ k > i
    BY UpTo
  <2> QED
    BY <1>3, <1>5, <1>6, <2>1
<1>8. ASSUME NEW k \in 0 .. i
      PROVE  attn[WithLast(<<b, h, i, e>>, k)] \cup q[<<b, h, k, e>>] = Seen(b, 0 .. i)
  <2>1. k \in Positions /\ ~ k > i
    BY UpTo
  <2>2. attn[WithLast(<<b, h, i, e>>, k)] \cup q[<<b, h, k, e>>] = Seen(b, 0 .. i) \cup Seen(b, PlacesSeen(blocks, k))
    BY <1>3, <1>5, <2>1 DEF HeadsSee
  <2>3. PlacesSeen(blocks, k) \subseteq 0 .. i
    BY <2>1 DEF PlacesSeen, Positions
  <2> QED
    BY <2>2, <2>3 DEF Seen
<1>9. 0 \in 0 .. i
  BY DEF Positions
<1>10. {attn[WithLast(<<b, h, i, e>>, k)] \cup q[<<b, h, k, e>>] : k \in 0 .. i} = {Seen(b, 0 .. i)}
  BY <1>8, <1>9
<1>11. mixed[<<b, h, i, e>>] = Seen(b, 0 .. i)
  <2> HIDE DEF mixed
  <2> QED
    BY <1>4, <1>7, <1>10
<1> QED
  BY <1>11 DEF PlacesSeen

LEMMA AttentionSees ==
  ASSUME Even, NEW x, NEW blocks, HiddenSees(x, blocks)
  PROVE  HiddenSees(MultiHeadAttention(x), 1) /\ DOMAIN MultiHeadAttention(x) = Box(HiddenDims)
<1> DEFINE q == SplitHeads(Layer(x))
           mixed == matmul(softmax(ScoresOf(q), ScoreDims), ScoreDims, q, HeadDims)
<1>1. config.d_model \in Nat \ {0}
  BY GptExampleAssumption DEF Even, Shape
<1>2. HeadsSee(q, blocks)
  BY <1>1, LayerSees, SplitSees
<1>3. HeadsSee(mixed, 1)
  <2> HIDE DEF q
  <2> QED
    BY <1>2, MixSees
<1>4. HiddenSees(MergeHeads(mixed), 1)
  <2> HIDE DEF mixed
  <2> QED
    BY <1>3, MergeSees
<1>5. MultiHeadAttention(x) = Layer(MergeHeads(mixed))
  BY DEF MultiHeadAttention, ScoresOf
<1> HIDE DEF mixed
<1> QED
  BY <1>1, <1>4, <1>5, LayerSees
------------------------------------------------------------------------------
(* The loss.                                                               *)

\* Each row of logits is compared with the target of its own position.
LEMMA LossSees ==
  ASSUME config \in Shapes, NEW x, NEW blocks, HiddenSees(x, blocks)
  PROVE  cross_entropy_loss(OverRows(x, HiddenDims, config.vocab_size),
                            [index \in Box(BatchDims) |-> Token(index[1], index[2])])
           = {[seen |-> Seen(b, PlacesSeen(blocks, s)), target |-> Token(b, s)] : b \in Rows, s \in Positions}
<1> DEFINE bs == config.batch_size
           ss == config.seq_len
           vs == config.vocab_size
           rows == bs * ss
           logits == OverRows(x, HiddenDims, vs)
           targets == [index \in Box(BatchDims) |-> Token(index[1], index[2])]
           logits_2d == reshape(logits, WithLast(HiddenDims, vs), <<rows, vs>>)
           target_1d == reshape(targets, BatchDims, <<rows>>)
           term(n) == [seen |-> UNION {logits_2d[<<n, v>>] : v \in 0 .. vs - 1}, target |-> target_1d[<<n>>]]
           of(b, s) == [seen |-> Seen(b, PlacesSeen(blocks, s)), target |-> Token(b, s)]
<1>1. /\ bs \in Nat \ {0} /\ ss \in Nat \ {0} /\ vs \in Nat \ {0} /\ config.d_model \in Nat \ {0}
      /\ rows \in Nat
  BY GptExampleAssumption, ProductType DEF Shape
<1>6. \A b \in Rows, s \in Positions, v \in 0 .. vs - 1 : logits[<<b, s, v>>] = Seen(b, PlacesSeen(blocks, s))
  <2>1. /\ DOMAIN logits = Box(<<bs, ss, vs>>)
        /\ \A b \in Rows, s \in Positions, v \in 0 .. vs - 1 : logits[<<b, s, v>>] = Seen(b, PlacesSeen(blocks, s))
    BY <1>1, RowsSee
  <2> QED
    BY <2>1
<1>2. ASSUME NEW b \in Rows, NEW s \in Positions
      PROVE  b * ss + s \in 0 .. rows - 1 /\ term(b * ss + s) = of(b, s)
  <2> DEFINE n == b * ss + s
  <2>1. b \in 0 .. bs - 1 /\ s \in 0 .. ss - 1 /\ b \in Nat /\ s \in Nat
    BY <1>1 DEF Rows, Positions
  <2>2. n \in 0 .. rows - 1 /\ n \in Nat
    BY <1>1, <2>1, MixedBound
  <2>3. target_1d[<<n>>] = Token(b, s)
    <3>1. <<n>> \in Box(<<rows>>)
      BY <2>2, Box1
    <3>2. Offset(<<rows>>, <<n>>) = n
      BY <1>1, <2>2, Offset1
    <3>3. Offset(<<bs, ss>>, <<b, s>>) = n
      BY <1>1, <2>1, Offset2
    <3>4. Index(<<bs, ss>>, n) = <<b, s>>
      BY <1>1, <2>1, <3>3, Index2
    <3>5. targets[<<b, s>>] = Token(b, s) /\ BatchDims = <<bs, ss>>
      BY Box2 DEF BatchDims, Rows, Positions
    <3> HIDE DEF targets, n, rows
    <3> QED
      BY <3>1, <3>2, <3>4, <3>5 DEF reshape
  <2>4. ASSUME NEW v \in 0 .. vs - 1 PROVE logits_2d[<<n, v>>] = Seen(b, PlacesSeen(blocks, s))
    <3>1. <<n, v>> \in Box(<<rows, vs>>)
      BY <2>2, Box2
    <3>2. Offset(<<rows, vs>>, <<n, v>>) = n * vs + v
      BY <1>1, <2>2, Offset2
    <3>3. Offset(<<bs, ss, vs>>, <<b, s, v>>) = n * vs + v
      BY <1>1, <2>1, Offset3
    <3>4. Index(<<bs, ss, vs>>, Offset(<<bs, ss, vs>>, <<b, s, v>>)) = <<b, s, v>>
      BY <1>1, <2>1, Index3
    <3>5. WithLast(HiddenDims, vs) = <<bs, ss, vs>>
      BY Last3 DEF HiddenDims
    <3>6. logits[<<b, s, v>>] = Seen(b, PlacesSeen(blocks, s))
      BY <1>6
    <3> HIDE DEF logits, n, rows
    <3> QED
      BY <3>1, <3>2, <3>3, <3>4, <3>5, <3>6 DEF reshape
  <2>5. {logits_2d[<<n, v>>] : v \in 0 .. vs - 1} = {Seen(b, PlacesSeen(blocks, s))}
    <3>1. 0 \in 0 .. vs - 1
      BY <1>1
    <3> HIDE DEF logits_2d, n
    <3> QED
      BY <2>4, <3>1
  <2> HIDE DEF n, logits_2d, target_1d
  <2> QED
    BY <2>2, <2>3, <2>5 DEF n
<1>3. ASSUME NEW n \in 0 .. rows - 1
      PROVE  \E b \in Rows, s \in Positions : n = b * ss + s
  <2> DEFINE b == n \div ss
             s == n % ss
  <2>1. n \in Nat /\ n = b * ss + s /\ s \in 0 .. ss - 1
    <3>1. n \in Nat
      BY <1>1
    <3> HIDE DEF rows
    <3> QED
      BY <1>1, <3>1, Remainder
  <2>2. b \in 0 .. bs - 1
    BY <1>1, QuotientBound
  <2> HIDE DEF b, s
  <2>3. b \in Rows /\ s \in Positions
    BY <2>1, <2>2 DEF Rows, Positions
  <2> QED
    BY <2>1, <2>3
<1>4. cross_entropy_loss(logits, targets) = {term(n) : n \in 0 .. rows - 1}
  BY DEF cross_entropy_loss
<1> HIDE DEF term, of, rows
<1>5. {term(n) : n \in 0 .. rows - 1} = {of(b, s) : b \in Rows, s \in Positions}
  <2>1. ASSUME NEW n \in 0 .. rows - 1 PROVE term(n) \in {of(b, s) : b \in Rows, s \in Positions}
    BY <1>2, <1>3
  <2>2. ASSUME NEW b \in Rows, NEW s \in Positions PROVE of(b, s) \in {term(n) : n \in 0 .. rows - 1}
    BY <1>2
  <2> QED
    BY <2>1, <2>2
<1> QED
  BY <1>4, <1>5 DEF of
------------------------------------------------------------------------------
(* The program.                                                            *)

LossOf(blocks) ==
  {[seen |-> Seen(b, PlacesSeen(blocks, s)), target |-> Token(b, s)] : b \in Rows, s \in Positions}

\* While the blocks run, the hidden states have seen the past, all of it from the
\* first attention on; the heads divide d_model if there is any; and the loss is
\* made of the last of them.
Past ==
  /\ config \in Shapes
  /\ config.num_layers > 0 /\ pc \notin {"new", "panic"} => config.d_model % config.num_heads = 0
  /\ pc \in {"blocks", "feed_forward"} => block \in 0 .. config.num_layers
  /\ pc = "feed_forward" => block < config.num_layers
  /\ pc = "blocks" => HiddenSees(hidden, block)
  /\ pc = "feed_forward" => HiddenSees(hidden, 1)
  /\ pc = "backward" => loss = LossOf(config.num_layers)

\* What the invariant says of the hidden states and the loss is about the same
\* shape after a step.
LEMMA SameShape ==
  ASSUME config' = config
  PROVE  /\ HiddenSees(hidden', block') => HiddenSees(hidden, block)'
         /\ HiddenSees(hidden', 1) => HiddenSees(hidden, 1)'
         /\ loss' = LossOf(config.num_layers) => (loss = LossOf(config.num_layers))'
  BY DEF HiddenSees, LossOf, Rows, Positions, Features

LEMMA AfterAttention ==
  ASSUME NEW x, HiddenSees(x, 1), NEW n \in Nat
  PROVE  HiddenSees(x, n + 1)
<1>1. \A s : PlacesSeen(n + 1, s) = PlacesSeen(1, s)
  BY DEF PlacesSeen
<1> QED
  BY <1>1 DEF HiddenSees

LEMMA InitPast == GptInit => Past
  BY DEF GptInit, Past

LEMMA NextPast == Past /\ [GptNext]_gptVars => Past'
<1> SUFFICES ASSUME Past, [GptNext]_gptVars PROVE Past'
  OBVIOUS
<1>0. /\ config \in Shapes /\ config.num_layers \in Nat
      /\ config.d_model \in Nat \ {0} /\ config.vocab_size \in Nat \ {0}
  BY GptExampleAssumption DEF Past, Shape
<1>1. CASE NewModel
  BY <1>1 DEF NewModel, Past
<1>2. CASE Finish
  BY <1>2 DEF Finish, Past
<1>3. CASE NextBatch
  <2>1. pc' = "blocks" => HiddenSees(hidden', 0)
    <3> SUFFICES ASSUME pc' = "blocks", NEW b \in Rows, NEW s \in Positions, NEW d \in Features
                 PROVE  hidden'[<<b, s, d>>] = Seen(b, PlacesSeen(0, s))
      BY DEF HiddenSees
    <3>1. hidden' = Embedded
      BY <1>3 DEF NextBatch
    <3>2. <<b, s, d>> \in Box(HiddenDims) /\ <<b, s>> \in Box(BatchDims)
      BY HiddenPlaces, Box2 DEF BatchDims, Rows, Positions
    <3>3. Embedded[<<b, s, d>>] = {Token(b, s), Position(create_position_ids[<<b, s>>])}
      BY <3>2 DEF Embedded
    <3>4. create_position_ids[<<b, s>>] = s
      BY <3>2 DEF create_position_ids
    <3> QED
      BY <3>1, <3>3, <3>4 DEF Seen, PlacesSeen
  <2>2. /\ config' = config /\ block' = 0 /\ pc' \in {"panic", "blocks"}
        /\ (config.num_layers > 0 => config.d_model % config.num_heads = 0)
    BY <1>3 DEF NextBatch, Past
  <2> QED
    BY <1>0, <2>1, <2>2, SameShape DEF Past
<1>4. CASE Attend
  <2>1. /\ config' = config /\ block' = block /\ pc' = "feed_forward" /\ block < config.num_layers
        /\ HiddenSees(hidden, block) /\ block \in 0 .. config.num_layers
        /\ hidden' = Sum(MultiHeadAttention(hidden), hidden)
    BY <1>0, <1>4 DEF Attend, Past
  <2>2. Even
    BY <1>0, <1>4, <2>1 DEF Even, Past, Attend
  <2>3. HiddenSees(hidden', 1)
    BY <1>0, <2>1, <2>2, AttentionSees, SumSees
  <2> QED
    BY <2>1, <2>2, <2>3, SameShape DEF Past, Even
<1>5. CASE FeedOn
  <2>1. /\ config' = config /\ block' = block + 1 /\ pc' = "blocks" /\ block \in 0 .. config.num_layers
        /\ block < config.num_layers /\ HiddenSees(hidden, 1)
        /\ hidden' = Sum(Layer(hidden), hidden)
    BY <1>0, <1>5 DEF FeedOn, FeedForward, Past
  <2>2. HiddenSees(hidden', 1)
    BY <1>0, <2>1, LayerSees, SumSees
  <2>3. block' \in 0 .. config.num_layers /\ HiddenSees(hidden', block')
    <3>1. block \in Nat
      BY <2>1
    <3> QED
      BY <1>0, <2>1, <2>2, <3>1, AfterAttention
  <2>4. config.num_layers > 0 => config.d_model % config.num_heads = 0
    BY <1>5 DEF FeedOn, Past
  <2> QED
    BY <2>1, <2>3, <2>4, SameShape DEF Past
<1>6. CASE ComputeLoss
  <2>1. /\ config' = config /\ block = config.num_layers /\ pc' = "backward" /\ HiddenSees(hidden, config.num_layers)
        /\ loss' = cross_entropy_loss(OverRows(hidden, HiddenDims, config.vocab_size),
                                      [index \in Box(BatchDims) |-> Token(index[1], index[2])])
    BY <1>6 DEF ComputeLoss, Past
  <2>2. loss' = LossOf(config.num_layers)
    BY <1>0, <2>1, LossSees DEF LossOf
  <2>3. config.num_layers > 0 => config.d_model % config.num_heads = 0
    BY <1>6 DEF ComputeLoss, Past
  <2> QED
    BY <1>0, <2>1, <2>2, <2>3, SameShape DEF Past
<1>7. CASE OptimizerStep
  BY <1>7 DEF OptimizerStep, Past
<1>8. CASE UNCHANGED gptVars
  <2>1. /\ config' = config /\ block' = block /\ hidden' = hidden /\ loss' = loss /\ pc' = pc
    BY <1>8 DEF gptVars, model
  <2> QED
    BY <2>1, SameShape DEF Past
<1> QED
  BY <1>1, <1>2, <1>3, <1>4, <1>5, <1>6, <1>7, <1>8 DEF GptNext

\* The GPT example, for all shapes of a run, loaders and loops: the logits of a
\* position have seen its own row up to it and nothing else, and are compared
\* with the token they have seen there.
THEOREM OnlyThePast == GptSpec => []SeesOnlyThePast
<1>1. Past => SeesOnlyThePast
  BY DEF Past, LossOf, PlacesSeen, Seen, SeesOnlyThePast
<1> QED
  BY <1>1, InitPast, NextPast, PTL DEF GptSpec

\* What the types need besides Past: a turn of the loop is counted at its end only.
InTheLoop == pc \in {"blocks", "feed_forward", "backward"} => step < num_steps

LEMMA LayerDims ==
  ASSUME NEW x
  PROVE  DOMAIN Layer(x) = Box(HiddenDims)
<1>1. WithLast(HiddenDims, config.d_model) = HiddenDims
  BY Last3 DEF HiddenDims
<1> QED
  BY <1>1 DEF Layer, OverRows

LEMMA InitGptTypes == GptInit => GptTypeOK /\ InTheLoop
<1> SUFFICES ASSUME GptInit PROVE GptTypeOK /\ InTheLoop
  OBVIOUS
<1>1. config.num_layers \in Nat /\ num_batches \in Nat /\ num_steps \in Nat
  BY GptExampleAssumption DEF GptInit, Shape
<1> QED
  BY <1>1 DEF GptInit, GptTypeOK, InTheLoop

LEMMA NextGptTypes ==
  GptTypeOK /\ InTheLoop /\ Past /\ [GptNext]_gptVars /\ Past' => GptTypeOK' /\ InTheLoop'
<1> SUFFICES ASSUME GptTypeOK, InTheLoop, Past, [GptNext]_gptVars, Past' PROVE GptTypeOK' /\ InTheLoop'
  OBVIOUS
<1>0. /\ config \in Shapes /\ config.num_layers \in Nat
      /\ num_batches \in Nat /\ num_steps \in Nat
      /\ current \in 0 .. num_batches /\ step \in 0 .. num_steps /\ block \in 0 .. config.num_layers
  BY GptExampleAssumption DEF GptTypeOK, Shape
<1>1. CASE NewModel
  BY <1>1 DEF NewModel, model, GptTypeOK, InTheLoop, HiddenDims, Rows, Positions
<1>2. CASE Finish
  BY <1>2 DEF Finish, model, GptTypeOK, InTheLoop, HiddenDims, Rows, Positions
<1>3. CASE NextBatch
  <2>1. DOMAIN Embedded = Box(HiddenDims)
    BY DEF Embedded
  <2>2. /\ current' \in 0 .. num_batches /\ step' < num_steps /\ block' = 0
        /\ pc' \in {"panic", "blocks"}
        /\ hidden' = hidden \/ hidden' = Embedded
        /\ UNCHANGED <<config, num_batches, num_steps, step, loss>>
    BY <1>0, <1>3 DEF NextBatch, LoaderEnds
  <2> QED
    BY <1>0, <2>1, <2>2 DEF GptTypeOK, InTheLoop, HiddenDims, Rows, Positions
<1>4. CASE Attend
  <2>1. DOMAIN hidden' = Box(HiddenDims)
    BY <1>4, LayerDims DEF Attend, Sum, MultiHeadAttention
  <2> QED
    BY <1>0, <1>4, <2>1 DEF Attend, GptTypeOK, InTheLoop, HiddenDims, Rows, Positions
<1>5. CASE FeedOn
  <2>1. DOMAIN hidden' = Box(HiddenDims)
    BY <1>5, LayerDims DEF FeedOn, FeedForward, Sum
  <2>2. block' \in 0 .. config.num_layers
    BY <1>0, <1>5 DEF FeedOn, Past
  <2> QED
    BY <1>0, <1>5, <2>1, <2>2 DEF FeedOn, GptTypeOK, InTheLoop, HiddenDims, Rows, Positions
<1>6. CASE ComputeLoss
  <2>1. \A term \in loss' : term.target \in {Token(b, s) : b \in Rows, s \in Positions}
    BY <1>6 DEF ComputeLoss, Past, LossOf, Rows, Positions
  <2> QED
    BY <1>0, <1>6, <2>1 DEF ComputeLoss, model, GptTypeOK, InTheLoop, HiddenDims, Rows, Positions
<1>7. CASE OptimizerStep
  BY <1>0, <1>7 DEF OptimizerStep, GptTypeOK, InTheLoop, HiddenDims, Rows, Positions
<1>8. CASE UNCHANGED gptVars
  BY <1>8 DEF gptVars, model, GptTypeOK, InTheLoop, HiddenDims, Rows, Positions
<1> QED
  BY <1>1, <1>2, <1>3, <1>4, <1>5, <1>6, <1>7, <1>8 DEF GptNext

\* The types of the GPT example: loader, loop and blocks never count too far, and
\* what passes the blocks keeps its shape.
THEOREM GptTypeCorrect == GptSpec => []GptTypeOK
<1> QED
  BY InitPast, NextPast, InitGptTypes, NextGptTypes, PTL DEF GptSpec
==============================================================================
