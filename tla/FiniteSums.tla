----------------------------- MODULE FiniteSums -----------------------------
(***************************************************************************)
(* Sums over finite sets, for the proofs.  The models sum with the         *)
(* community operator MapThenSumSet, which takes the elements in an order  *)
(* of CHOOSE's; SumOf is what it computes, as an operator on functions,    *)
(* and the lemmas say that the order does not matter.                      *)
(***************************************************************************)
EXTENDS Integers, FiniteSetTheorems, WellFoundedInduction, TLAPS

\* The element that a sum over s begins with.
Pick(s) == CHOOSE x \in s : TRUE

(* g sums F over every subset of T, beginning with the element picked. *)
Sums(F, T, g) ==
    g = [s \in SUBSET T |-> IF s = {} THEN 0 ELSE F[Pick(s)] + g[s \ {Pick(s)}]]

\* The sum of F[x] for the x in T.
SumOf(F, T) == (CHOOSE g : Sums(F, T, g))[T]

-----------------------------------------------------------------------------
(* A set of natural numbers that is not empty has a least one. *)
LEMMA LeastNumber ==
    ASSUME NEW S \in SUBSET Nat, S # {}
    PROVE  \E m \in S : \A n \in S : m <= n
<1>1. PICK m \in S : \A n \in S : ~(<<n, m>> \in OpToRel(<, Nat))
  BY NatLessThanWellFounded, WFMin
<1>2. \A n \in S : ~(n < m)
  BY <1>1 DEF OpToRel
<1>3. QED
  BY <1>2

(* A set without its picked element is smaller by one. *)
LEMMA Picked ==
    ASSUME NEW s, IsFiniteSet(s), s # {}
    PROVE  /\ Pick(s) \in s /\ IsFiniteSet(s \ {Pick(s)})
           /\ Cardinality(s) \in Nat /\ Cardinality(s \ {Pick(s)}) = Cardinality(s) - 1
<1>1. Pick(s) \in s
  BY DEF Pick
<1>2. QED
  BY <1>1, FS_RemoveElement, FS_CardinalityType

(* The recursive definition of Sums defines a function. *)
LEMMA SumsExist ==
    ASSUME NEW F, NEW T, IsFiniteSet(T)
    PROVE  \E g : Sums(F, T, g)
<1> DEFINE Small(n) == {s \in SUBSET T : Cardinality(s) <= n}
           Upto(n, g) == g = [s \in Small(n) |-> IF s = {} THEN 0
                                                 ELSE F[Pick(s)] + g[s \ {Pick(s)}]]
           Bad == {n \in Nat : ~ \E g : Upto(n, g)}
<1>1. \A s \in SUBSET T : IsFiniteSet(s) /\ Cardinality(s) \in Nat
  BY FS_Subset, FS_CardinalityType
<1>2. \A n \in Nat : \E g : Upto(n, g)
  <2>1. SUFFICES ASSUME Bad # {}
                 PROVE  FALSE
    OBVIOUS
  <2>2. PICK m \in Bad : \A n \in Bad : m <= n
    <3> HIDE DEF Bad
    <3>1. Bad \in SUBSET Nat
      BY DEF Bad
    <3>2. QED
      BY <2>1, <3>1, LeastNumber
  <2>3. CASE m = 0
    <3>1. \A s \in Small(0) : s = {}
      BY <1>1, FS_EmptySet
    <3>2. Upto(0, [s \in Small(0) |-> 0])
      BY <3>1
    <3>3. QED
      BY <2>2, <2>3, <3>2
  <2>4. CASE m # 0
    <3>1. m \in Nat /\ m - 1 \in Nat /\ ~(m <= m - 1)
      BY <2>4
    <3>2. PICK h : Upto(m - 1, h)
      BY <2>2, <3>1
    <3> DEFINE g == [s \in Small(m) |-> IF s = {} THEN 0 ELSE F[Pick(s)] + h[s \ {Pick(s)}]]
    <3>3. \A s \in Small(m - 1) : g[s] = h[s] /\ s \in Small(m)
      <4>1. ASSUME NEW s \in Small(m - 1)
            PROVE  s \in Small(m)
        BY <1>1, <3>1
      <4>2. ASSUME NEW s \in Small(m - 1)
            PROVE  h[s] = IF s = {} THEN 0 ELSE F[Pick(s)] + h[s \ {Pick(s)}]
        BY <3>2
      <4> HIDE DEF Small
      <4>3. QED
        BY <4>1, <4>2
    <3>4. \A s \in Small(m) : s # {} => s \ {Pick(s)} \in Small(m - 1)
      BY <1>1, <3>1, Picked
    <3>5. Upto(m, g)
      <4> HIDE DEF Small
      <4>1. \A s \in Small(m) : s # {} => h[s \ {Pick(s)}] = g[s \ {Pick(s)}]
        BY <3>3, <3>4
      <4>2. QED
        BY <4>1
    <3>6. QED
      BY <2>2, <3>5
  <2>5. QED
    BY <2>3, <2>4
<1>3. Small(Cardinality(T)) = SUBSET T
  <2>1. \A s \in SUBSET T : Cardinality(s) <= Cardinality(T)
    BY FS_Subset
  <2>2. QED
    BY <2>1
<1>4. PICK g : Upto(Cardinality(T), g)
  BY <1>1, <1>2
<1>5. Sums(F, T, g)
  BY <1>3, <1>4 DEF Sums
<1>6. QED
  BY <1>5

(* The definition of Sums, applied. *)
LEMMA SumsStep ==
    ASSUME NEW F, NEW T, NEW g, Sums(F, T, g), NEW s \in SUBSET T
    PROVE  /\ s = {} => g[s] = 0
           /\ s # {} => g[s] = F[Pick(s)] + g[s \ {Pick(s)}]
BY DEF Sums

(* Two functions that agree on a set have the same sum over it. *)
LEMMA SumsAgree ==
    ASSUME NEW F, NEW T, NEW g, Sums(F, T, g), NEW G, NEW U, NEW h, Sums(G, U, h),
           NEW s \in SUBSET T, s \in SUBSET U, IsFiniteSet(s), \A x \in s : F[x] = G[x]
    PROVE  g[s] = h[s]
<1> DEFINE Bad == {n \in Nat : \E t \in SUBSET s : Cardinality(t) = n /\ g[t] # h[t]}
<1>1. \A t \in SUBSET s : IsFiniteSet(t) /\ Cardinality(t) \in Nat
  BY FS_Subset, FS_CardinalityType
<1>2. Bad = {}
  <2>1. SUFFICES ASSUME Bad # {}
                 PROVE  FALSE
    OBVIOUS
  <2>2. PICK m \in Bad : \A n \in Bad : m <= n
    <3>1. Bad \in SUBSET Nat
      OBVIOUS
    <3> HIDE DEF Bad
    <3>2. QED
      BY <2>1, <3>1, LeastNumber
  <2>3. PICK t \in SUBSET s : Cardinality(t) = m /\ g[t] # h[t]
    OBVIOUS
  <2>4. t # {}
    BY <2>3, SumsStep
  <2>5. /\ g[t] = F[Pick(t)] + g[t \ {Pick(t)}]
        /\ h[t] = G[Pick(t)] + h[t \ {Pick(t)}]
    BY <2>4, SumsStep
  <2>6. /\ Pick(t) \in t /\ t \ {Pick(t)} \in SUBSET s
        /\ m \in Nat /\ Cardinality(t \ {Pick(t)}) = m - 1
    BY <1>1, <2>3, <2>4, Picked
  <2>7. g[t \ {Pick(t)}] = h[t \ {Pick(t)}]
    <3>1. m - 1 \notin Bad
      BY <2>2, <2>6
    <3>2. m - 1 \in Nat
      BY <1>1, <2>6
    <3>3. QED
      BY <2>6, <3>1, <3>2
  <2>8. QED
    BY <2>3, <2>5, <2>6, <2>7
<1>3. QED
  BY <1>1, <1>2

(* A sum of natural numbers is one. *)
LEMMA SumsNatural ==
    ASSUME NEW F, NEW T, NEW g, Sums(F, T, g),
           NEW s \in SUBSET T, IsFiniteSet(s), \A x \in s : F[x] \in Nat
    PROVE  g[s] \in Nat
<1> DEFINE Bad == {n \in Nat : \E t \in SUBSET s : Cardinality(t) = n /\ g[t] \notin Nat}
<1>1. \A t \in SUBSET s : IsFiniteSet(t) /\ Cardinality(t) \in Nat
  BY FS_Subset, FS_CardinalityType
<1>2. Bad = {}
  <2>1. SUFFICES ASSUME Bad # {}
                 PROVE  FALSE
    OBVIOUS
  <2>2. PICK m \in Bad : \A n \in Bad : m <= n
    <3>1. Bad \in SUBSET Nat
      OBVIOUS
    <3> HIDE DEF Bad
    <3>2. QED
      BY <2>1, <3>1, LeastNumber
  <2>3. PICK t \in SUBSET s : Cardinality(t) = m /\ g[t] \notin Nat
    OBVIOUS
  <2>4. t # {}
    BY <2>3, SumsStep
  <2>5. g[t] = F[Pick(t)] + g[t \ {Pick(t)}]
    BY <2>4, SumsStep
  <2>6. /\ Pick(t) \in t /\ t \ {Pick(t)} \in SUBSET s
        /\ m \in Nat /\ Cardinality(t \ {Pick(t)}) = m - 1 /\ m - 1 \in Nat
    BY <1>1, <2>3, <2>4, Picked
  <2>7. g[t \ {Pick(t)}] \in Nat
    <3>1. m - 1 \notin Bad
      BY <2>2, <2>6
    <3>2. QED
      BY <2>6, <3>1
  <2>8. QED
    BY <2>3, <2>5, <2>6, <2>7
<1>3. QED
  BY <1>1, <1>2

(* Any element can be summed first. *)
LEMMA SumsTakeOut ==
    ASSUME NEW F, NEW T, NEW g, Sums(F, T, g),
           NEW s \in SUBSET T, IsFiniteSet(s), \A x \in s : F[x] \in Nat, NEW y \in s
    PROVE  g[s] = F[y] + g[s \ {y}]
<1> DEFINE Bad == {n \in Nat : \E t \in SUBSET s : \E x \in t :
                                  Cardinality(t) = n /\ g[t] # F[x] + g[t \ {x}]}
<1>1. \A t \in SUBSET s : IsFiniteSet(t) /\ Cardinality(t) \in Nat /\ g[t] \in Nat
  <2>1. ASSUME NEW t \in SUBSET s
        PROVE  IsFiniteSet(t) /\ Cardinality(t) \in Nat /\ g[t] \in Nat
    <3>1. IsFiniteSet(t) /\ Cardinality(t) \in Nat
      BY FS_Subset, FS_CardinalityType
    <3>2. QED
      BY <3>1, SumsNatural
  <2>2. QED
    BY <2>1
<1>2. Bad = {}
  <2>1. SUFFICES ASSUME Bad # {}
                 PROVE  FALSE
    OBVIOUS
  <2>2. PICK m \in Bad : \A n \in Bad : m <= n
    <3>1. Bad \in SUBSET Nat
      OBVIOUS
    <3> HIDE DEF Bad
    <3>2. QED
      BY <2>1, <3>1, LeastNumber
  <2>0. PICK t \in SUBSET s : \E x \in t : Cardinality(t) = m /\ g[t] # F[x] + g[t \ {x}]
    OBVIOUS
  <2>3. PICK x \in t : Cardinality(t) = m /\ g[t] # F[x] + g[t \ {x}]
    BY <2>0
  <2> DEFINE p == Pick(t)
  <2>4. /\ p \in t /\ t \ {p} \in SUBSET s
        /\ m \in Nat /\ Cardinality(t \ {p}) = m - 1 /\ m - 1 \in Nat
        /\ g[t] = F[p] + g[t \ {p}]
    BY <1>1, <2>3, Picked, SumsStep
  <2> HIDE DEF p
  <2>5. p # x
    BY <2>3, <2>4
  <2>6. Cardinality(t \ {x}) = m - 1
    BY <1>1, <2>3, FS_RemoveElement
  <2>7. \A u \in SUBSET s : \A z \in u : Cardinality(u) = m - 1 => g[u] = F[z] + g[u \ {z}]
    <3>1. m - 1 \in Nat /\ ~(m <= m - 1)
      BY <2>4
    <3>2. m - 1 \notin Bad
      BY <2>2, <3>1
    <3>3. QED
      BY <3>1, <3>2
  <2>8. g[t \ {p}] = F[x] + g[(t \ {p}) \ {x}]
    BY <2>4, <2>5, <2>7
  <2>9. g[t \ {x}] = F[p] + g[(t \ {x}) \ {p}]
    BY <2>4, <2>5, <2>6, <2>7
  <2>10. (t \ {p}) \ {x} = (t \ {x}) \ {p}
    OBVIOUS
  <2>11. F[p] \in Nat /\ F[x] \in Nat /\ g[(t \ {p}) \ {x}] \in Nat
    BY <1>1, <2>4
  <2>12. PICK c : c = g[(t \ {p}) \ {x}]
    OBVIOUS
  <2>13. g[t] = F[p] + (F[x] + c) /\ g[t \ {x}] = F[p] + c
    BY <2>4, <2>8, <2>9, <2>10, <2>12
  <2>14. F[p] + (F[x] + c) = F[x] + (F[p] + c)
    BY <2>11, <2>12
  <2>15. QED
    BY <2>3, <2>13, <2>14
<1>3. QED
  BY <1>1, <1>2

-----------------------------------------------------------------------------
(* The same about SumOf. *)

(* SumOf is the value at T of a function that Sums describes. *)
LEMMA SumOfSums ==
    ASSUME NEW F, NEW T, IsFiniteSet(T)
    PROVE  \E g : Sums(F, T, g) /\ SumOf(F, T) = g[T]
<1>1. Sums(F, T, CHOOSE g : Sums(F, T, g))
  BY SumsExist
<1>2. QED
  BY <1>1 DEF SumOf

(* The sum over the empty set. *)
LEMMA SumOfNone == \A F : SumOf(F, {}) = 0
<1>1. ASSUME NEW F
      PROVE  SumOf(F, {}) = 0
  <2>1. PICK g : Sums(F, {}, g) /\ SumOf(F, {}) = g[{}]
    BY SumOfSums, FS_EmptySet
  <2>2. QED
    BY <2>1, SumsStep
<1>2. QED
  BY <1>1

(* The sum of natural numbers is one. *)
LEMMA SumOfNatural ==
    ASSUME NEW F, NEW T, IsFiniteSet(T), \A x \in T : F[x] \in Nat
    PROVE  SumOf(F, T) \in Nat
<1>1. PICK g : Sums(F, T, g) /\ SumOf(F, T) = g[T]
  BY SumOfSums
<1>2. QED
  BY <1>1, SumsNatural

(* The sum over T depends on what is summed over T only. *)
LEMMA SumOfAgrees ==
    ASSUME NEW F, NEW G, NEW T, IsFiniteSet(T), \A x \in T : F[x] = G[x]
    PROVE  SumOf(F, T) = SumOf(G, T)
<1>1. PICK g : Sums(F, T, g) /\ SumOf(F, T) = g[T]
  BY SumOfSums
<1>2. PICK h : Sums(G, T, h) /\ SumOf(G, T) = h[T]
  BY SumOfSums
<1>3. g[T] = h[T]
  BY <1>1, <1>2, SumsAgree
<1>4. QED
  BY <1>1, <1>2, <1>3

(* An element adds its number to the sum of the others. *)
LEMMA SumOfWithout ==
    ASSUME NEW F, NEW T, IsFiniteSet(T), \A x \in T : F[x] \in Nat, NEW y \in T
    PROVE  SumOf(F, T) = F[y] + SumOf(F, T \ {y})
<1>1. PICK g : Sums(F, T, g) /\ SumOf(F, T) = g[T]
  BY SumOfSums
<1>2. IsFiniteSet(T \ {y})
  BY FS_RemoveElement
<1>3. PICK h : Sums(F, T \ {y}, h) /\ SumOf(F, T \ {y}) = h[T \ {y}]
  BY <1>2, SumOfSums
<1>4. g[T \ {y}] = h[T \ {y}]
  <2>1. T \ {y} \in SUBSET T /\ T \ {y} \in SUBSET (T \ {y})
    OBVIOUS
  <2>2. QED
    BY <1>1, <1>2, <1>3, <2>1, SumsAgree
<1>5. g[T] = F[y] + g[T \ {y}]
  BY <1>1, SumsTakeOut
<1>6. QED
  BY <1>1, <1>3, <1>4, <1>5

(* A new element adds its number. *)
LEMMA SumOfWith ==
    ASSUME NEW F, NEW T, IsFiniteSet(T), NEW y, y \notin T, \A x \in T \cup {y} : F[x] \in Nat
    PROVE  SumOf(F, T \cup {y}) = F[y] + SumOf(F, T)
<1>1. IsFiniteSet(T \cup {y}) /\ (T \cup {y}) \ {y} = T
  BY FS_AddElement
<1>2. SumOf(F, T \cup {y}) = F[y] + SumOf(F, (T \cup {y}) \ {y})
  BY <1>1, SumOfWithout
<1>3. QED
  BY <1>1, <1>2

(* The sum over a set is that over a part and that over the rest. *)
LEMMA SumOfParts ==
    ASSUME NEW F, NEW T, IsFiniteSet(T), \A x \in T : F[x] \in Nat, NEW s \in SUBSET T
    PROVE  SumOf(F, T) = SumOf(F, s) + SumOf(F, T \ s)
<1> DEFINE Bad == {n \in Nat : \E t \in SUBSET T :
                      Cardinality(t) = n /\ SumOf(F, T) # SumOf(F, t) + SumOf(F, T \ t)}
<1>1. \A t \in SUBSET T : /\ IsFiniteSet(t) /\ Cardinality(t) \in Nat
                          /\ SumOf(F, t) \in Nat
  <2>1. ASSUME NEW t \in SUBSET T
        PROVE  IsFiniteSet(t) /\ Cardinality(t) \in Nat /\ SumOf(F, t) \in Nat
    <3>1. IsFiniteSet(t) /\ Cardinality(t) \in Nat
      BY FS_Subset, FS_CardinalityType
    <3>2. QED
      BY <3>1, SumOfNatural
  <2>2. QED
    BY <2>1
<1>2. Bad = {}
  <2>1. SUFFICES ASSUME Bad # {}
                 PROVE  FALSE
    OBVIOUS
  <2>2. PICK m \in Bad : \A n \in Bad : m <= n
    <3>1. Bad \in SUBSET Nat
      OBVIOUS
    <3> HIDE DEF Bad
    <3>2. QED
      BY <2>1, <3>1, LeastNumber
  <2>3. PICK t \in SUBSET T : /\ Cardinality(t) = m
                              /\ SumOf(F, T) # SumOf(F, t) + SumOf(F, T \ t)
    OBVIOUS
  <2>4. t # {}
    <3>1. T \ {} = T /\ SumOf(F, T) \in Nat
      BY <1>1
    <3>2. QED
      BY <2>3, <3>1, SumOfNone
  <2>5. PICK y \in t : TRUE
    BY <2>4
  <2> DEFINE u == t \ {y}
  <2>6. /\ u \in SUBSET T /\ Cardinality(u) = m - 1 /\ m - 1 \in Nat
    <3>1. Cardinality(u) = Cardinality(t) - 1 /\ Cardinality(u) \in Nat
      BY <1>1, FS_RemoveElement
    <3>2. QED
      BY <2>3, <3>1
  <2>7. SumOf(F, T) = SumOf(F, u) + SumOf(F, T \ u)
    <3>1. ~(m <= m - 1)
      BY <2>6
    <3>2. m - 1 \notin Bad
      BY <2>2, <3>1
    <3> HIDE DEF u
    <3>3. QED
      BY <2>6, <3>2
  <2>8. SumOf(F, t) = F[y] + SumOf(F, u)
    BY <1>1, SumOfWithout
  <2>9. SumOf(F, T \ u) = F[y] + SumOf(F, T \ t)
    <3>1. y \in T \ u /\ (T \ u) \ {y} = T \ t /\ T \ u \in SUBSET T
      OBVIOUS
    <3> DEFINE v == T \ u
    <3>2. IsFiniteSet(v) /\ \A x \in v : F[x] \in Nat
      BY <1>1, <3>1
    <3> HIDE DEF u
    <3>3. SumOf(F, v) = F[y] + SumOf(F, v \ {y})
      <4> HIDE DEF v
      <4>1. y \in v
        BY <3>1 DEF v
      <4>2. QED
        BY <3>2, <4>1, SumOfWithout
    <3>4. QED
      BY <3>1, <3>3
  <2>10. F[y] \in Nat /\ SumOf(F, u) \in Nat /\ SumOf(F, T \ t) \in Nat
    BY <1>1, <2>6
  <2>11. QED
    BY <2>3, <2>7, <2>8, <2>9, <2>10
<1>3. QED
  BY <1>1, <1>2
====
