------------------------- MODULE ChargeManagerProofs -------------------------
(***************************************************************************)
(* Load management, for any number of boxes, any currents they support and *)
(* any available current: what distribute_current calculates (the two      *)
(* stable sorts, the three loops, the total of the targets), and what the  *)
(* manager and the boxes keep true while packets are lost.  Recursive      *)
(* functions are taken apart by induction on sets that are written down:   *)
(* CountingUp for the loops, TakingOneAway for the sum over the boxes.     *)
(***************************************************************************)
EXTENDS ChargeManager, FiniteSetTheorems, FunctionTheorems, WellFoundedInduction, TLAPS

---------------------------------------------------------------------------
(* Induction, on a set of numbers and on a set of sets.                    *)

LessThan == {p \in Nat \X Nat : p[1] < p[2]}

\* A set of natural numbers that is not empty has a least element.
LEMMA Least ==
  ASSUME NEW S \in SUBSET Nat, S # {}
  PROVE  \E i \in S : \A j \in S : i <= j
<1>1. IsWellFoundedOn(LessThan, Nat)  BY NatLessThanWellFounded DEF OpToRel, LessThan
<1>2. PICK i \in S : \A j \in S : ~ (<<j, i>> \in LessThan)  BY <1>1, WFMin
<1>3. \A j \in S : ~(j < i)  BY <1>2 DEF LessThan
<1> QED  BY <1>3

\* What holds of 0, and of i whenever it holds of i - 1, holds up to n.
LEMMA CountingUp ==
  ASSUME NEW n \in Nat, NEW Good, 0 \in Good,
         \A i \in 1..n : i - 1 \in Good => i \in Good
  PROVE  \A i \in 0..n : i \in Good
<1> DEFINE Bad == (0..n) \ Good
<1>1. SUFFICES ASSUME Bad # {} PROVE FALSE  OBVIOUS
<1>2. PICK i \in Bad : \A j \in Bad : i <= j
  <2>1. Bad \in SUBSET Nat  OBVIOUS
  <2> HIDE DEF Bad
  <2> QED  BY <1>1, <2>1, Least
<1>3. i \in 1..n /\ i - 1 \in 0..n /\ ~(i <= i - 1)  BY <1>2
<1>4. i - 1 \in Good  BY <1>2, <1>3
<1> QED  BY <1>2, <1>3, <1>4

\* What holds of the empty set, and of s whenever it holds of s without any one
\* of its elements, holds of every subset of a finite set.
LEMMA TakingOneAway ==
  ASSUME NEW D, IsFiniteSet(D), NEW Good, {} \in Good,
         \A s \in SUBSET D : s # {} /\ (\A x \in s : s \ {x} \in Good) => s \in Good
  PROVE  \A s \in SUBSET D : s \in Good
<1> DEFINE n == Cardinality(D)
           Small == {i \in Nat : \A s \in SUBSET D : Cardinality(s) = i => s \in Good}
<1>1. n \in Nat  BY FS_CardinalityType
<1>2. \A s \in SUBSET D : IsFiniteSet(s) /\ Cardinality(s) \in 0..n
  BY <1>1, FS_Subset, FS_CardinalityType
<1>3. 0 \in Small  BY <1>2, FS_EmptySet
<1>4. ASSUME NEW i \in 1..n, i - 1 \in Small PROVE i \in Small
  <2>1. SUFFICES ASSUME NEW s \in SUBSET D, Cardinality(s) = i PROVE s \in Good
      BY <1>1, <1>4
  <2>2. s # {}  BY <1>2, <2>1, FS_EmptySet
  <2>3. \A x \in s : Cardinality(s \ {x}) = i - 1  BY <1>2, <2>1, FS_RemoveElement
  <2>4. \A x \in s : s \ {x} \in Good  BY <1>4, <2>3
  <2> QED  BY <2>2, <2>4
<1> HIDE DEF n, Small
<1>5. \A i \in 0..n : i \in Small  BY <1>1, <1>3, <1>4, CountingUp
<1> QED  BY <1>2, <1>5 DEF Small

---------------------------------------------------------------------------
(* Total: the sum of the currents of the boxes.                            *)

Pick(s) == CHOOSE x \in s : TRUE

LEMMA Picked == \A s : s # {} => Pick(s) \in s  BY DEF Pick

SumsOn(f, dom, sum) ==
  sum = [s \in dom |-> IF s = {} THEN 0
                       ELSE f[Pick(s)] + sum[s \ {Pick(s)}]]

LEMMA TotalIsASum ==
  ASSUME NEW f
  PROVE  Total(f) = (CHOOSE sum : SumsOn(f, SUBSET DOMAIN f, sum))[DOMAIN f]
BY Zenon DEF Total, FoldFunction, FoldFunctionOnSet, MapThenFoldSet, SumsOn, Pick

LEMMA SumExists ==
  ASSUME NEW D, IsFiniteSet(D), NEW f
  PROVE  \E sum : SumsOn(f, SUBSET D, sum)
<1> DEFINE n == Cardinality(D)
           Upto(i) == {s \in SUBSET D : Cardinality(s) <= i}
           Good == {i \in Nat : \E sum : SumsOn(f, Upto(i), sum)}
<1>1. n \in Nat  BY FS_CardinalityType
<1>2. \A s \in SUBSET D : IsFiniteSet(s) /\ Cardinality(s) \in 0..n
  BY <1>1, FS_Subset, FS_CardinalityType
<1>3. 0 \in Good
  <2>1. \A s \in Upto(0) : s = {}  BY <1>2, FS_EmptySet
  <2>2. SumsOn(f, Upto(0), [s \in Upto(0) |-> 0])  BY <2>1 DEF SumsOn
  <2> QED  BY <2>2
<1>4. ASSUME NEW i \in 1..n, i - 1 \in Good PROVE i \in Good
  <2>1. i \in Nat /\ i - 1 \in Nat  BY <1>1
  <2>2. PICK sum : SumsOn(f, Upto(i - 1), sum)  BY <1>4
  <2> DEFINE new == [s \in Upto(i) |->
                       IF s = {} THEN 0
                       ELSE f[Pick(s)] + sum[s \ {Pick(s)}]]
  <2>3. ASSUME NEW s \in Upto(i - 1) PROVE new[s] = sum[s]
    <3>1. s \in Upto(i)  BY <1>2, <2>1
    <3> QED  BY <2>2, <3>1 DEF SumsOn
  <2>4. ASSUME NEW s \in Upto(i), s # {}
        PROVE  new[s \ {Pick(s)}] = sum[s \ {Pick(s)}]
    <3>1. Pick(s) \in s  BY <2>4, Picked
    <3>2. s \ {Pick(s)} \in SUBSET D /\ Cardinality(s \ {Pick(s)}) = Cardinality(s) - 1
        BY <1>2, <3>1, FS_RemoveElement
    <3>3. s \ {Pick(s)} \in Upto(i - 1)  BY <1>2, <2>1, <3>2
    <3> QED  BY <2>3, <3>3
  <2>5. \A s \in Upto(i) :
          new[s] = IF s = {} THEN 0
                   ELSE f[Pick(s)] + new[s \ {Pick(s)}]
      BY <2>4
  <2>6. new = [s \in Upto(i) |-> new[s]]  OBVIOUS
  <2> HIDE DEF new, Upto
  <2>7. SumsOn(f, Upto(i), new)  BY <2>5, <2>6, Zenon DEF SumsOn
  <2> QED  BY <2>1, <2>7
<1>5. n \in Good
  <2> HIDE DEF Good
  <2>1. \A i \in 0..n : i \in Good  BY <1>1, <1>3, <1>4, CountingUp
  <2> QED  BY <1>1, <2>1
<1>6. Upto(n) = SUBSET D  BY <1>1, <1>2
<1> QED  BY <1>5, <1>6

TheSum(f) == CHOOSE sum : SumsOn(f, SUBSET Boxes, sum)

LEMMA TheSumIs ==
  ASSUME NEW f \in [Boxes -> Nat]
  PROVE  /\ Total(f) = TheSum(f)[Boxes]
         /\ TheSum(f)[{}] = 0
         /\ \A s \in SUBSET Boxes :
              s # {} => TheSum(f)[s] = f[Pick(s)] + TheSum(f)[s \ {Pick(s)}]
<1>1. IsFiniteSet(Boxes)  BY ManagerAssumption
<1>2. \E sum : SumsOn(f, SUBSET Boxes, sum)  BY <1>1, SumExists
<1>3. SumsOn(f, SUBSET Boxes, TheSum(f))  BY <1>2 DEF TheSum
<1>4. DOMAIN f = Boxes  OBVIOUS
<1>5. Total(f) = TheSum(f)[Boxes]  BY <1>4, TotalIsASum DEF TheSum
<1> QED  BY <1>3, <1>5 DEF SumsOn

LEMMA SumIsANumber ==
  ASSUME NEW f \in [Boxes -> Nat]
  PROVE  \A s \in SUBSET Boxes : TheSum(f)[s] \in Nat
<1> DEFINE Good == {s \in SUBSET Boxes : TheSum(f)[s] \in Nat}
<1>1. {} \in Good  BY TheSumIs
<1>2. ASSUME NEW s \in SUBSET Boxes, s # {}, \A x \in s : s \ {x} \in Good
      PROVE  s \in Good
  <2>1. Pick(s) \in s /\ TheSum(f)[s] = f[Pick(s)] + TheSum(f)[s \ {Pick(s)}]
      BY <1>2, TheSumIs, Picked
  <2>2. TheSum(f)[s \ {Pick(s)}] \in Nat  BY <1>2, <2>1
  <2>3. TheSum(f)[s] \in Nat  BY <2>1, <2>2
  <2> QED  BY <2>3
<1> HIDE DEF Good
<1>3. \A s \in SUBSET Boxes : s \in Good  BY <1>1, <1>2, ManagerAssumption, TakingOneAway
<1> QED  BY <1>3 DEF Good

\* It does not matter which box is added last.
LEMMA SumSplits ==
  ASSUME NEW f \in [Boxes -> Nat]
  PROVE  \A s \in SUBSET Boxes : \A b \in s : TheSum(f)[s] = f[b] + TheSum(f)[s \ {b}]
<1> DEFINE Good == {s \in SUBSET Boxes :
                      \A b \in s : TheSum(f)[s] = f[b] + TheSum(f)[s \ {b}]}
<1>1. {} \in Good  OBVIOUS
<1>2. ASSUME NEW s \in SUBSET Boxes, s # {}, \A x \in s : s \ {x} \in Good
      PROVE  s \in Good
  <2>1. SUFFICES ASSUME NEW b \in s PROVE TheSum(f)[s] = f[b] + TheSum(f)[s \ {b}]
      OBVIOUS
  <2>2. PICK p \in s : TheSum(f)[s] = f[p] + TheSum(f)[s \ {p}]  BY <1>2, TheSumIs, Picked
  <2>3. CASE b = p  BY <2>2, <2>3
  <2>4. CASE b # p
    <3>1. TheSum(f)[s \ {p}] = f[b] + TheSum(f)[(s \ {p}) \ {b}]  BY <1>2, <2>4
    <3>2. TheSum(f)[s \ {b}] = f[p] + TheSum(f)[(s \ {b}) \ {p}]  BY <1>2, <2>4
    <3>3. (s \ {p}) \ {b} = (s \ {b}) \ {p}  OBVIOUS
    <3>4. TheSum(f)[(s \ {b}) \ {p}] \in Nat /\ f[b] \in Nat /\ f[p] \in Nat
        BY SumIsANumber
    <3> HIDE DEF Good
    <3> QED  BY <2>2, <3>1, <3>2, <3>3, <3>4
  <2> QED  BY <2>3, <2>4
<1> HIDE DEF Good
<1>3. \A s \in SUBSET Boxes : s \in Good  BY <1>1, <1>2, ManagerAssumption, TakingOneAway
<1> QED  BY <1>3 DEF Good

LEMMA SumsAgree ==
  ASSUME NEW f \in [Boxes -> Nat], NEW g \in [Boxes -> Nat]
  PROVE  \A s \in SUBSET Boxes : (\A b \in s : f[b] = g[b]) => TheSum(f)[s] = TheSum(g)[s]
<1> DEFINE Good == {s \in SUBSET Boxes :
                      (\A b \in s : f[b] = g[b]) => TheSum(f)[s] = TheSum(g)[s]}
<1>1. {} \in Good  BY TheSumIs
<1>2. ASSUME NEW s \in SUBSET Boxes, s # {}, \A x \in s : s \ {x} \in Good
      PROVE  s \in Good
  <2>1. SUFFICES ASSUME \A b \in s : f[b] = g[b] PROVE TheSum(f)[s] = TheSum(g)[s]
      OBVIOUS
  <2>2. Pick(s) \in s  BY <1>2, Picked
  <2>3. TheSum(f)[s \ {Pick(s)}] = TheSum(g)[s \ {Pick(s)}]  BY <1>2, <2>1, <2>2
  <2>4. TheSum(f)[s] = f[Pick(s)] + TheSum(f)[s \ {Pick(s)}]  BY <1>2, TheSumIs
  <2>5. TheSum(g)[s] = g[Pick(s)] + TheSum(g)[s \ {Pick(s)}]  BY <1>2, TheSumIs
  <2> HIDE DEF Good
  <2> QED  BY <2>1, <2>2, <2>3, <2>4, <2>5
<1> HIDE DEF Good
<1>3. \A s \in SUBSET Boxes : s \in Good  BY <1>1, <1>2, ManagerAssumption, TakingOneAway
<1> QED  BY <1>3 DEF Good

\* No current in all when no box has any.
LEMMA TotalOfNothing == Total(Nothing) = 0
<1> DEFINE Good == {s \in SUBSET Boxes : TheSum(Nothing)[s] = 0}
<1>1. Nothing \in [Boxes -> Nat] /\ \A b \in Boxes : Nothing[b] = 0  BY DEF Nothing
<1>2. {} \in Good  BY <1>1, TheSumIs
<1>3. ASSUME NEW s \in SUBSET Boxes, s # {}, \A x \in s : s \ {x} \in Good
      PROVE  s \in Good
  <2>1. Pick(s) \in s  BY <1>3, Picked
  <2>2. TheSum(Nothing)[s \ {Pick(s)}] = 0  BY <1>3, <2>1
  <2>3. TheSum(Nothing)[s] = Nothing[Pick(s)] + TheSum(Nothing)[s \ {Pick(s)}]
      BY <1>1, <1>3, TheSumIs
  <2>4. Nothing[Pick(s)] = 0  BY <1>1, <2>1
  <2>5. TheSum(Nothing)[s] = 0  BY <2>2, <2>3, <2>4
  <2> QED  BY <2>5
<1> HIDE DEF Good
<1>4. \A s \in SUBSET Boxes : s \in Good  BY <1>2, <1>3, ManagerAssumption, TakingOneAway
<1>5. TheSum(Nothing)[Boxes] = 0  BY <1>4 DEF Good
<1> QED  BY <1>1, <1>5, TheSumIs

LEMMA TotalIsANumber ==
  ASSUME NEW f \in [Boxes -> Nat]
  PROVE  Total(f) \in Nat
BY SumIsANumber, TheSumIs

\* A box that is given another current changes the total by the difference.
LEMMA TotalChanges ==
  ASSUME NEW f \in [Boxes -> Nat], NEW b \in Boxes, NEW x \in Nat
  PROVE  /\ Total(f) \in Nat /\ f[b] <= Total(f)
         /\ Total([f EXCEPT ![b] = x]) = Total(f) - f[b] + x
<1> DEFINE g == [f EXCEPT ![b] = x]
<1>1. g \in [Boxes -> Nat] /\ g[b] = x /\ \A c \in Boxes \ {b} : f[c] = g[c]  OBVIOUS
<1> HIDE DEF g
<1>2. TheSum(f)[Boxes] = f[b] + TheSum(f)[Boxes \ {b}]  BY SumSplits
<1>3. TheSum(g)[Boxes] = g[b] + TheSum(g)[Boxes \ {b}]  BY <1>1, SumSplits
<1>4. TheSum(f)[Boxes \ {b}] = TheSum(g)[Boxes \ {b}]  BY <1>1, SumsAgree
<1>5. TheSum(f)[Boxes \ {b}] \in Nat /\ f[b] \in Nat  BY SumIsANumber
<1>6. Total(f) = TheSum(f)[Boxes] /\ Total(g) = TheSum(g)[Boxes]  BY <1>1, TheSumIs
<1>7. Total(f) \in Nat /\ f[b] <= Total(f) /\ Total(g) = Total(f) - f[b] + x
  BY <1>1, <1>2, <1>3, <1>4, <1>5, <1>6
<1> QED  BY <1>7 DEF g

---------------------------------------------------------------------------
(* The sort of the boxes.                                                  *)

\* A finite set with a strict total order can be listed in that order.
LEMMA ListedInOrder ==
  ASSUME NEW D, IsFiniteSet(D), NEW lt \in SUBSET (D \X D),
         \A x \in D : <<x, x>> \notin lt,
         \A x, y, z \in D : <<x, y>> \in lt /\ <<y, z>> \in lt => <<x, z>> \in lt,
         \A x, y \in D : x = y \/ <<x, y>> \in lt \/ <<y, x>> \in lt
  PROVE  \E p \in [1..Cardinality(D) -> D] :
           \A i, j \in 1..Cardinality(D) : i < j => <<p[i], p[j]>> \in lt
<1> DEFINE n == Cardinality(D)
           Less(x) == {y \in D : <<y, x>> \in lt}
           place == [x \in D |-> Cardinality(Less(x)) + 1]
<1>1. n \in Nat  BY FS_CardinalityType
<1>2. ASSUME NEW x \in D
      PROVE  IsFiniteSet(Less(x)) /\ Cardinality(Less(x)) \in Nat /\ Cardinality(Less(x)) < n
  <2>1. Less(x) \in SUBSET D /\ Less(x) # D  OBVIOUS
  <2> HIDE DEF Less
  <2>2. IsFiniteSet(Less(x)) /\ Cardinality(Less(x)) <= n /\ Cardinality(Less(x)) # n
      BY <2>1, FS_Subset
  <2>3. Cardinality(Less(x)) \in Nat  BY <2>2, FS_CardinalityType
  <2> HIDE DEF n
  <2> QED  BY <1>1, <2>2, <2>3
<1>3. place \in [D -> 1..n]
  <2> HIDE DEF n, Less
  <2>1. \A x \in D : Cardinality(Less(x)) + 1 \in 1..n  BY <1>1, <1>2
  <2> QED  BY <2>1
<1>4. ASSUME NEW x \in D, NEW y \in D, <<x, y>> \in lt PROVE place[x] < place[y]
  <2>1. Less(x) \in SUBSET Less(y) /\ x \in Less(y) /\ x \notin Less(x)  BY <1>4
  <2>2. IsFiniteSet(Less(x)) /\ IsFiniteSet(Less(y))  BY <1>2
  <2>3. Cardinality(Less(x)) \in Nat /\ Cardinality(Less(y)) \in Nat  BY <1>2
  <2>4. place[x] = Cardinality(Less(x)) + 1 /\ place[y] = Cardinality(Less(y)) + 1  OBVIOUS
  <2> HIDE DEF Less, place
  <2>5. Cardinality(Less(x)) <= Cardinality(Less(y)) /\ Cardinality(Less(x)) # Cardinality(Less(y))
      BY <2>1, <2>2, FS_Subset
  <2> QED  BY <2>3, <2>4, <2>5
<1> HIDE DEF n, Less, place
<1>5. \A x, y \in D : place[x] = place[y] => x = y
  <2> SUFFICES ASSUME NEW x \in D, NEW y \in D, place[x] = place[y], x # y PROVE FALSE
      OBVIOUS
  <2>1. place[x] \in Nat /\ place[y] \in Nat  BY <1>1, <1>3
  <2>2. <<x, y>> \in lt \/ <<y, x>> \in lt  OBVIOUS
  <2>3. place[x] < place[y] \/ place[y] < place[x]  BY <1>4, <2>2
  <2> QED  BY <2>1, <2>3
<1>6. place \in Injection(D, 1..n)  BY <1>3, <1>5, Fun_IsInj
<1>7. IsFiniteSet(1..n) /\ Cardinality(1..n) = n
  <2>1. IsFiniteSet(1..n) /\ Cardinality(1..n) = IF 1 > n THEN 0 ELSE n - 1 + 1
      BY <1>1, FS_Interval
  <2> QED  BY <1>1, <2>1
<1>8. place \in Surjection(D, 1..n)  BY <1>6, <1>7, FS_Injection DEF n
<1>9. \A i \in 1..n : \E x \in D : place[x] = i  BY <1>8, Fun_SurjectionProperties
<1> DEFINE p == [i \in 1..n |-> CHOOSE x \in D : place[x] = i]
<1>10. \A i \in 1..n : p[i] \in D /\ place[p[i]] = i  BY <1>9
<1>11. p \in [1..n -> D]  BY <1>10
<1> HIDE DEF p
<1>12. ASSUME NEW i \in 1..n, NEW j \in 1..n, i < j PROVE <<p[i], p[j]>> \in lt
  <2>1. p[i] \in D /\ p[j] \in D /\ place[p[i]] = i /\ place[p[j]] = j  BY <1>10
  <2>2. ~(j < i) /\ i # j  BY <1>1, <1>12
  <2>3. <<p[j], p[i]>> \notin lt  BY <1>4, <2>1, <2>2
  <2> QED  BY <2>1, <2>2, <2>3
<1> QED  BY <1>11, <1>12 DEF n

Listing(o) ==
  /\ o \in Seq(Boxes) /\ Len(o) = Cardinality(Boxes) /\ DOMAIN o = 1..Len(o)
  /\ \A b \in Boxes : \E i \in 1..Len(o) : o[i] = b
  /\ \A i, j \in 1..Len(o) : o[i] = o[j] => i = j

\* idx_array names every box once.
LEMMA ListsAllBoxes ==
  ASSUME NEW o \in SetToSeqs(Boxes)
  PROVE  Listing(o)
<1> DEFINE n == Cardinality(Boxes)
<1>1. n \in Nat  BY ManagerAssumption, FS_CardinalityType
<1>2. o \in [1..n -> Boxes] /\ \A i, j \in 1..n : i # j => o[i] # o[j]  BY DEF SetToSeqs
<1>3. o \in Injection(1..n, Boxes)  BY <1>2, Fun_IsInj
<1>4. Cardinality(1..n) = n
  <2>1. Cardinality(1..n) = IF 1 > n THEN 0 ELSE n - 1 + 1  BY <1>1, FS_Interval
  <2> HIDE DEF n
  <2> QED  BY <1>1, <2>1
<1>5. o \in Surjection(1..n, Boxes)  BY <1>3, <1>4, ManagerAssumption, FS_Injection
<1>6. \A b \in Boxes : \E i \in 1..n : o[i] = b  BY <1>5 DEF Surjection
<1>7. o \in Seq(Boxes) /\ Len(o) = n /\ DOMAIN o = 1..n
  <2> HIDE DEF n
  <2> QED  BY <1>1, <1>2
<1> HIDE DEF n
<1> QED  BY <1>2, <1>6, <1>7 DEF Listing, n

\* std::stable_sort returns every box once, a smaller number first, and boxes
\* with the same number in the order they had.
LEMMA SortedIs ==
  ASSUME NEW o \in SetToSeqs(Boxes), NEW key \in [Boxes -> Nat]
  PROVE  /\ Sorted(o, key) \in SetToSeqs(Boxes)
         /\ \A i, j \in DOMAIN Sorted(o, key) :
              i < j => Before(o, key, Sorted(o, key)[i], Sorted(o, key)[j])
<1> DEFINE n == Cardinality(Boxes)
           lt == {e \in Boxes \X Boxes : Before(o, key, e[1], e[2])}
<1>1. n \in Nat  BY ManagerAssumption, FS_CardinalityType
<1>2. o \in Seq(Boxes) /\ Len(o) = n /\ DOMAIN o = 1..n
      /\ (\A b \in Boxes : \E i \in 1..n : o[i] = b)
      /\ (\A i, j \in 1..n : o[i] = o[j] => i = j)
  BY ListsAllBoxes DEF Listing
<1>3. \A b, c \in Boxes : <<b, c>> \in lt <=> Before(o, key, b, c)  OBVIOUS
<1>4. \A b \in Boxes : key[b] \in Nat  OBVIOUS
<1> HIDE DEF n
<1> DEFINE pos == [b \in Boxes |-> CHOOSE i \in 1..n : o[i] = b]
<1>5. \A b \in Boxes : pos[b] \in 1..n /\ o[pos[b]] = b  BY <1>2
<1> HIDE DEF pos
<1>6. \A b, c \in Boxes : Precedes(o, b, c) <=> pos[b] < pos[c]
  BY <1>2, <1>5 DEF Precedes
<1>7. \A b, c \in Boxes :
        Before(o, key, b, c) <=> key[b] < key[c] \/ (key[b] = key[c] /\ pos[b] < pos[c])
  BY <1>6 DEF Before
<1>8. \A b \in Boxes : pos[b] \in Nat  BY <1>1, <1>5
<1>9. \A b \in Boxes : ~Before(o, key, b, b)  BY <1>4, <1>7, <1>8
<1>10. \A b, c, d \in Boxes :
         Before(o, key, b, c) /\ Before(o, key, c, d) => Before(o, key, b, d)
  BY <1>4, <1>7, <1>8
<1>11. \A b, c \in Boxes : b = c \/ Before(o, key, b, c) \/ Before(o, key, c, b)
  <2> SUFFICES ASSUME NEW b \in Boxes, NEW c \in Boxes, b # c
               PROVE  Before(o, key, b, c) \/ Before(o, key, c, b)
      OBVIOUS
  <2>1. pos[b] # pos[c]  BY <1>5
  <2> QED  BY <1>4, <1>7, <1>8, <2>1
<1>12. lt \in SUBSET (Boxes \X Boxes)  OBVIOUS
<1> HIDE DEF lt
<1>13. \E p \in [1..n -> Boxes] : \A i, j \in 1..n : i < j => <<p[i], p[j]>> \in lt
  BY <1>3, <1>9, <1>10, <1>11, <1>12, ManagerAssumption, ListedInOrder DEF n
<1>14. PICK p \in [1..n -> Boxes] : \A i, j \in 1..n : i < j => <<p[i], p[j]>> \in lt
  BY <1>13
<1>15. DOMAIN p = 1..n /\ \A i, j \in DOMAIN p : i < j => Before(o, key, p[i], p[j])
  BY <1>3, <1>14
<1>16. \A i, j \in 1..n : i # j => p[i] # p[j]
  <2> SUFFICES ASSUME NEW i \in 1..n, NEW j \in 1..n, i < j PROVE p[i] # p[j]
      BY <1>1
  <2> QED  BY <1>9, <1>15
<1>17. p \in SetToSeqs(Boxes)  BY <1>16 DEF SetToSeqs, n
<1> QED  BY <1>15, <1>17 DEF Sorted
\* The two sorts: boxes that charge come first, and among those that charge, and
\* among the others, the ones that support less.
THEOREM RankedInOrder ==
  ASSUME NEW o \in SetToSeqs(Boxes), NEW demand
  PROVE  /\ Ranked(o, demand) \in SetToSeqs(Boxes)
         /\ \A i, j \in DOMAIN Ranked(o, demand) :
              LET b == Ranked(o, demand)[i]
                  c == Ranked(o, demand)[j]
              IN  i < j => \/ demand[b] = "charging" /\ demand[c] # "charging"
                           \/ /\ demand[b] = "charging" <=> demand[c] = "charging"
                              /\ Supported[b] <= Supported[c]
<1> DEFINE key == [b \in Boxes |-> IF demand[b] = "charging" THEN 0 ELSE 1]
           once == Sorted(o, Supported)
           twice == Sorted(once, key)
<1>1. Supported \in [Boxes -> Nat] /\ key \in [Boxes -> Nat]  BY ManagerAssumption
<1> HIDE DEF key
<1>2. once \in SetToSeqs(Boxes)
      /\ \A i, j \in DOMAIN once : i < j => Before(o, Supported, once[i], once[j])
  BY <1>1, SortedIs
<1> HIDE DEF once
<1>3. twice \in SetToSeqs(Boxes)
      /\ \A i, j \in DOMAIN twice : i < j => Before(once, key, twice[i], twice[j])
  BY <1>1, <1>2, SortedIs
<1>4. Ranked(o, demand) = twice  BY DEF Ranked, twice, once, key
<1> HIDE DEF twice
<1>5. \A i \in DOMAIN twice : twice[i] \in Boxes  BY <1>3 DEF SetToSeqs
<1>6. DOMAIN once = 1..Cardinality(Boxes)  BY <1>2 DEF SetToSeqs
<1>7. \A i \in DOMAIN once : once[i] \in Boxes  BY <1>2 DEF SetToSeqs
<1>8. ASSUME NEW i \in DOMAIN twice, NEW j \in DOMAIN twice, i < j
      PROVE  \/ demand[twice[i]] = "charging" /\ demand[twice[j]] # "charging"
             \/ /\ demand[twice[i]] = "charging" <=> demand[twice[j]] = "charging"
                /\ Supported[twice[i]] <= Supported[twice[j]]
  <2>1. Before(once, key, twice[i], twice[j])  BY <1>3, <1>8
  <2>2. twice[i] \in Boxes /\ twice[j] \in Boxes  BY <1>5
  <2>3. /\ key[twice[i]] = IF demand[twice[i]] = "charging" THEN 0 ELSE 1
        /\ key[twice[j]] = IF demand[twice[j]] = "charging" THEN 0 ELSE 1
      BY <2>2 DEF key
  <2>4. CASE key[twice[i]] < key[twice[j]]  BY <2>3, <2>4
  <2>5. CASE key[twice[i]] = key[twice[j]] /\ Precedes(once, twice[i], twice[j])
    <3>1. PICK h \in DOMAIN once, k \in DOMAIN once :
            h < k /\ once[h] = twice[i] /\ once[k] = twice[j]
        BY <2>5 DEF Precedes
    <3>2. Before(o, Supported, twice[i], twice[j])  BY <1>2, <3>1
    <3>3. Supported[twice[i]] \in Nat /\ Supported[twice[j]] \in Nat  BY <1>1, <2>2
    <3>4. Supported[twice[i]] <= Supported[twice[j]]  BY <3>2, <3>3 DEF Before
    <3>5. demand[twice[i]] = "charging" <=> demand[twice[j]] = "charging"  BY <2>3, <2>5
    <3> QED  BY <3>4, <3>5
  <2> QED  BY <2>1, <2>4, <2>5 DEF Before
<1> QED  BY <1>3, <1>4, <1>8

---------------------------------------------------------------------------
(* The loops over the sorted boxes.                                        *)

StepTo(pass, s, b) == IF pass = "minimum" THEN MinimumTo(s, b) ELSE ShareTo(s, b)

Loops(pass, start, o, on, n, after) ==
  after = [i \in 0..n |-> IF i = 0 THEN start
                          ELSE IF o[i] \in on THEN StepTo(pass, after[i - 1], o[i])
                          ELSE after[i - 1]]

LEMMA LoopExists ==
  ASSUME NEW pass, NEW start, NEW o, NEW on, NEW n \in Nat
  PROVE  \E after : Loops(pass, start, o, on, n, after)
<1> DEFINE Good == {m \in Nat : \E after : Loops(pass, start, o, on, m, after)}
<1>1. 0 \in Good
  <2>1. Loops(pass, start, o, on, 0, [i \in 0..0 |-> start])  BY DEF Loops
  <2> QED  BY <2>1
<1>2. ASSUME NEW m \in 1..n, m - 1 \in Good PROVE m \in Good
  <2>1. m \in Nat /\ m - 1 \in Nat  OBVIOUS
  <2>2. PICK f : Loops(pass, start, o, on, m - 1, f)  BY <1>2
  <2> DEFINE g == [i \in 0..m |-> IF i = 0 THEN start
                                  ELSE IF o[i] \in on THEN StepTo(pass, f[i - 1], o[i])
                                  ELSE f[i - 1]]
  <2>3. \A i \in 0..m - 1 : g[i] = f[i]  BY <2>1, <2>2 DEF Loops
  <2>4. ASSUME NEW i \in 0..m
        PROVE  g[i] = IF i = 0 THEN start
                      ELSE IF o[i] \in on THEN StepTo(pass, g[i - 1], o[i])
                      ELSE g[i - 1]
    <3>1. CASE i = 0  BY <3>1
    <3>2. CASE i # 0
      <4>1. i - 1 \in 0..m - 1  BY <2>1, <3>2
      <4>2. g[i - 1] = f[i - 1]  BY <2>3, <4>1
      <4>3. g[i] = IF o[i] \in on THEN StepTo(pass, f[i - 1], o[i]) ELSE f[i - 1]
          BY <3>2
      <4> HIDE DEF g
      <4> QED  BY <3>2, <4>2, <4>3
    <3> QED  BY <3>1, <3>2
  <2>5. g = [i \in 0..m |-> g[i]]  OBVIOUS
  <2> HIDE DEF g
  <2>6. Loops(pass, start, o, on, m, g)  BY <2>4, <2>5, Zenon DEF Loops
  <2> QED  BY <2>1, <2>6
<1> HIDE DEF Good
<1>3. \A m \in 0..n : m \in Good  BY <1>1, <1>2, CountingUp
<1>4. n \in Good  BY <1>3
<1> QED  BY <1>4 DEF Good

Stepwise(pass, start, o, on, after) ==
  /\ after[0] = start
  /\ \A i \in 1..Len(o) :
       after[i] = IF o[i] \in on THEN StepTo(pass, after[i - 1], o[i]) ELSE after[i - 1]

LEMMA LoopSteps ==
  ASSUME NEW pass, NEW start, NEW o \in Seq(Boxes), NEW on, NEW after,
         Loops(pass, start, o, on, Len(o), after)
  PROVE  Stepwise(pass, start, o, on, after)
<1>1. Len(o) \in Nat  OBVIOUS
<1>2. after[0] = start  BY <1>1 DEF Loops
<1>3. ASSUME NEW i \in 1..Len(o)
      PROVE  after[i] = IF o[i] \in on THEN StepTo(pass, after[i - 1], o[i]) ELSE after[i - 1]
  <2>1. i \in 0..Len(o) /\ i # 0  BY <1>1
  <2> QED  BY <2>1 DEF Loops
<1> QED  BY <1>2, <1>3 DEF Stepwise

MinimumStart(split) == [step |-> Minimum, left |-> split.left, target |-> split.target]

MinimumLoops(split, o, asking, after) ==
  after = [i \in 0..Len(o) |->
             IF i = 0 THEN [step |-> Minimum, left |-> split.left, target |-> split.target]
             ELSE IF o[i] \in asking THEN MinimumTo(after[i - 1], o[i]) ELSE after[i - 1]]

LEMMA MinimumLoop ==
  ASSUME NEW split, NEW o \in Seq(Boxes), NEW asking
  PROVE  \E after : /\ Stepwise("minimum", MinimumStart(split), o, asking, after)
                    /\ WithMinimum(split, o, asking) = after[Len(o)]
<1> DEFINE after == CHOOSE f : MinimumLoops(split, o, asking, f)
<1>1. Len(o) \in Nat  OBVIOUS
<1>2. \A s, b : StepTo("minimum", s, b) = MinimumTo(s, b)  BY DEF StepTo
<1>3. \A f : Loops("minimum", MinimumStart(split), o, asking, Len(o), f)
               <=> MinimumLoops(split, o, asking, f)
  BY <1>2 DEF Loops, MinimumLoops, MinimumStart
<1>4. \E f : MinimumLoops(split, o, asking, f)  BY <1>1, <1>3, LoopExists
<1>5. MinimumLoops(split, o, asking, after)  BY <1>4
<1>6. WithMinimum(split, o, asking) = after[Len(o)]  BY Zenon DEF WithMinimum, MinimumLoops
<1> HIDE DEF after
<1> QED  BY <1>3, <1>5, <1>6, LoopSteps

Served(split) == {b \in Boxes : split.target[b] > 0}
RestStart(split) ==
  [waiting |-> Cardinality(Served(split)), left |-> split.left, target |-> split.target]

RestLoops(split, o, served, after) ==
  after = [i \in 0..Len(o) |->
             IF i = 0
             THEN [waiting |-> Cardinality(served), left |-> split.left, target |-> split.target]
             ELSE IF o[i] \in served THEN ShareTo(after[i - 1], o[i]) ELSE after[i - 1]]

LEMMA RestLoop ==
  ASSUME NEW split, NEW o \in Seq(Boxes)
  PROVE  \E after : /\ Stepwise("rest", RestStart(split), o, Served(split), after)
                    /\ WithRest(split, o) = after[Len(o)]
<1> DEFINE after == CHOOSE f : RestLoops(split, o, Served(split), f)
<1>1. Len(o) \in Nat  OBVIOUS
<1>2. \A s, b : StepTo("rest", s, b) = ShareTo(s, b)  BY DEF StepTo
<1>3. \A f : Loops("rest", RestStart(split), o, Served(split), Len(o), f)
               <=> RestLoops(split, o, Served(split), f)
  BY <1>2 DEF Loops, RestLoops, RestStart
<1>4. \E f : RestLoops(split, o, Served(split), f)  BY <1>1, <1>3, LoopExists
<1>5. RestLoops(split, o, Served(split), after)  BY <1>4
<1>6. WithRest(split, o) = after[Len(o)]  BY Zenon DEF WithRest, RestLoops, Served
<1> HIDE DEF after
<1> QED  BY <1>3, <1>5, <1>6, LoopSteps

---------------------------------------------------------------------------
(* What each loop does.                                                    *)

LEMMA MinOfTwo ==
  ASSUME NEW x \in Nat, NEW y \in Nat
  PROVE  Min({x, y}) \in Nat /\ Min({x, y}) <= x /\ Min({x, y}) <= y
<1>1. \E z \in {x, y} : \A w \in {x, y} : z =< w
  <2>1. CASE x <= y  BY <2>1
  <2>2. CASE y <= x  BY <2>2
  <2> QED  BY <2>1, <2>2
<1>2. Min({x, y}) \in {x, y} /\ \A w \in {x, y} : Min({x, y}) =< w  BY <1>1 DEF Min
<1> QED  BY <1>2

LEMMA ShareIs ==
  ASSUME NEW x \in Nat, NEW n \in Nat \ {0}
  PROVE  x \div n \in Nat /\ x \div n <= x
OBVIOUS
Listed(o) == o \in Seq(Boxes) /\ Listing(o)

MinimumStates == [step : {0, Minimum}, left : Nat, target : [Boxes -> Nat]]

LEMMA MinimumStep ==
  ASSUME NEW s \in MinimumStates, NEW b \in Boxes
  PROVE  LET t == MinimumTo(s, b)
         IN  /\ t \in MinimumStates
             /\ s.step > s.left => t.step = 0 /\ t.left = s.left /\ t.target = s.target
             /\ ~(s.step > s.left) =>
                  t.step = s.step /\ t.left = s.left - s.step
                  /\ t.target = [s.target EXCEPT ![b] = s.step]
<1>1. Minimum \in Nat  BY ManagerAssumption
<1>2. s.step \in Nat /\ s.left \in Nat /\ s.target \in [Boxes -> Nat] /\ s.step \in {0, Minimum}
  BY <1>1 DEF MinimumStates
<1>3. s = [step |-> s.step, left |-> s.left, target |-> s.target]  BY DEF MinimumStates
<1>4. CASE s.step > s.left
  <2>1. MinimumTo(s, b) = [step |-> 0, left |-> s.left, target |-> s.target]
      BY <1>3, <1>4 DEF MinimumTo
  <2> QED  BY <1>2, <1>4, <2>1 DEF MinimumStates
<1>5. CASE ~(s.step > s.left)
  <2>1. MinimumTo(s, b) = [step |-> s.step, left |-> s.left - s.step,
                           target |-> [s.target EXCEPT ![b] = s.step]]
      BY <1>3, <1>5 DEF MinimumTo
  <2>2. s.left - s.step \in Nat  BY <1>2, <1>5
  <2>3. [s.target EXCEPT ![b] = s.step] \in [Boxes -> Nat]  BY <1>2
  <2> QED  BY <1>2, <1>5, <2>1, <2>2, <2>3 DEF MinimumStates
<1> QED  BY <1>4, <1>5

\* The state of the loop that gives the minimum, after the first i boxes.
MinimumGiven(split, o, asking, s, i) ==
  /\ s \in MinimumStates /\ s.left <= split.left
  /\ Total(s.target) + s.left = Total(split.target) + split.left
  /\ \A k \in 1..Len(o) :
       k > i \/ o[k] \notin asking => s.target[o[k]] = split.target[o[k]]
  /\ \A k \in 1..i : o[k] \in asking =>
       /\ s.target[o[k]] \in {0, Minimum}
       /\ s.step = Minimum => s.target[o[k]] = Minimum
       /\ s.target[o[k]] # 0 => /\ Minimum <= split.left
                                /\ \A h \in 1..k : o[h] \in asking => s.target[o[h]] # 0
  /\ s.step = 0 => s.left < Minimum

LEMMA MinimumGivenStep ==
  ASSUME NEW split, split.left \in Nat, split.target \in [Boxes -> Nat],
         NEW o, Listed(o), NEW asking \in SUBSET Boxes, \A b \in asking : split.target[b] = 0,
         NEW s, NEW i \in 1..Len(o), MinimumGiven(split, o, asking, s, i - 1), o[i] \in asking
  PROVE  MinimumGiven(split, o, asking, MinimumTo(s, o[i]), i)
<1> DEFINE b == o[i]
           t == MinimumTo(s, b)
<1>1. /\ s \in MinimumStates /\ s.left <= split.left
      /\ Total(s.target) + s.left = Total(split.target) + split.left
      /\ s.step = 0 => s.left < Minimum
  BY DEF MinimumGiven
<1>2. \A k \in 1..Len(o) :
        k > i - 1 \/ o[k] \notin asking => s.target[o[k]] = split.target[o[k]]
  BY DEF MinimumGiven
<1>3. \A k \in 1..i - 1 : o[k] \in asking =>
        /\ s.target[o[k]] \in {0, Minimum}
        /\ s.step = Minimum => s.target[o[k]] = Minimum
        /\ s.target[o[k]] # 0 => /\ Minimum <= split.left
                                 /\ \A h \in 1..k : o[h] \in asking => s.target[o[h]] # 0
  BY DEF MinimumGiven
<1>4. /\ Len(o) \in Nat /\ \A k \in 1..Len(o) : o[k] \in Boxes
      /\ \A h, k \in 1..Len(o) : o[h] = o[k] => h = k
  BY DEF Listed, Listing
<1>5. b \in Boxes /\ b \in asking /\ i \in Nat /\ i <= Len(o)  BY <1>4
<1>6. Minimum \in Nat /\ Minimum # 0  BY ManagerAssumption
<1>7. /\ s.step \in {0, Minimum} /\ s.left \in Nat /\ s.target \in [Boxes -> Nat]
      /\ split.left \in Nat /\ split.target \in [Boxes -> Nat]
  BY <1>1 DEF MinimumStates
<1>8. split.target[b] = 0 /\ s.target[b] = 0
  <2>1. i > i - 1  BY <1>5
  <2> QED  BY <1>2, <1>5, <2>1
<1> HIDE DEF b
<1>9. /\ t \in MinimumStates
      /\ s.step > s.left => t.step = 0 /\ t.left = s.left /\ t.target = s.target
      /\ ~(s.step > s.left) =>
           t.step = s.step /\ t.left = s.left - s.step
           /\ t.target = [s.target EXCEPT ![b] = s.step]
  BY <1>1, <1>5, MinimumStep
<1> HIDE DEF t
<1>10. o[i] = b  BY DEF b
<1>11. \A k \in 1..Len(o) : k # i => o[k] # b  BY <1>4, <1>10
<1>12. CASE s.step > s.left
  <2>1. t.step = 0 /\ t.left = s.left /\ t.target = s.target  BY <1>9, <1>12
  <2>2. t.left < Minimum  BY <1>6, <1>7, <1>12, <2>1
  <2>3. \A k \in 1..Len(o) : k > i => k > i - 1  BY <1>4, <1>5
  <2>4. \A k \in 1..Len(o) :
          k > i \/ o[k] \notin asking => t.target[o[k]] = split.target[o[k]]
      BY <1>2, <2>1, <2>3
  <2>5. ASSUME NEW k \in 1..i, o[k] \in asking
        PROVE  /\ t.target[o[k]] \in {0, Minimum}
               /\ t.step = Minimum => t.target[o[k]] = Minimum
               /\ t.target[o[k]] # 0 =>
                    /\ Minimum <= split.left
                    /\ \A h \in 1..k : o[h] \in asking => t.target[o[h]] # 0
    <3>1. CASE k = i  BY <1>6, <1>8, <1>10, <2>1, <3>1
    <3>2. CASE k # i
      <4>1. k \in 1..i - 1  BY <1>5, <3>2
      <4> QED  BY <1>3, <1>6, <2>1, <2>5, <4>1
    <3> QED  BY <3>1, <3>2
  <2>6. MinimumGiven(split, o, asking, t, i)
      BY <1>1, <1>9, <2>1, <2>2, <2>4, <2>5 DEF MinimumGiven
  <2> QED  BY <2>6 DEF t, b
<1>13. CASE ~(s.step > s.left)
  <2>1. t.step = s.step /\ t.left = s.left - s.step /\ t.target = [s.target EXCEPT ![b] = s.step]
      BY <1>9, <1>13
  <2>2. t.target[b] = s.step /\ \A c \in Boxes \ {b} : t.target[c] = s.target[c]
      BY <1>5, <1>7, <2>1
  <2>3. s.step \in Nat  BY <1>6, <1>7
  <2>4. t.left \in Nat /\ t.left <= s.left  BY <1>7, <1>13, <2>1, <2>3
  <2>5. Total(t.target) = Total(s.target) - s.target[b] + s.step /\ Total(s.target) \in Nat
    <3>1. s.target \in [Boxes -> Nat]  BY <1>7
    <3> DEFINE f == s.target
               x == s.step
    <3>2. f \in [Boxes -> Nat] /\ x \in Nat /\ t.target = [f EXCEPT ![b] = x]
        BY <3>1, <2>1, <2>3
    <3> HIDE DEF f, x
    <3>3. Total([f EXCEPT ![b] = x]) = Total(f) - f[b] + x /\ Total(f) \in Nat
        BY <1>5, <3>2, TotalChanges
    <3> QED  BY <3>2, <3>3 DEF f, x
  <2>6. Total(split.target) \in Nat  BY <1>5, <1>7, TotalChanges
  <2>7. Total(t.target) + t.left = Total(split.target) + split.left
      BY <1>1, <1>7, <1>8, <2>1, <2>3, <2>5, <2>6
  <2>8. ASSUME NEW k \in 1..Len(o), k > i \/ o[k] \notin asking
        PROVE  t.target[o[k]] = split.target[o[k]]
    <3>1. k # i /\ (k > i => k > i - 1)  BY <1>4, <1>5, <1>10, <2>8
    <3>2. o[k] \in Boxes \ {b}  BY <1>4, <1>11, <3>1
    <3> QED  BY <1>2, <2>2, <2>8, <3>1, <3>2
  <2>9. ASSUME NEW k \in 1..i, o[k] \in asking
        PROVE  /\ t.target[o[k]] \in {0, Minimum}
               /\ t.step = Minimum => t.target[o[k]] = Minimum
               /\ t.target[o[k]] # 0 =>
                    /\ Minimum <= split.left
                    /\ \A h \in 1..k : o[h] \in asking => t.target[o[h]] # 0
    <3>1. CASE k = i
      <4>1. t.target[o[k]] = s.step  BY <1>10, <2>2, <3>1
      <4>2. ASSUME t.target[o[k]] # 0, NEW h \in 1..k, o[h] \in asking PROVE t.target[o[h]] # 0
        <5>1. s.step = Minimum  BY <1>7, <4>1, <4>2
        <5>2. CASE h = i  BY <3>1, <4>2, <5>2
        <5>3. CASE h # i
          <6>1. h \in 1..i - 1 /\ h \in 1..Len(o)  BY <1>4, <1>5, <3>1, <5>3
          <6>2. s.target[o[h]] = Minimum  BY <1>3, <4>2, <5>1, <6>1
          <6>3. o[h] \in Boxes \ {b}  BY <1>4, <1>11, <5>3, <6>1
          <6> QED  BY <1>6, <2>2, <6>2, <6>3
        <5> QED  BY <5>2, <5>3
      <4>3. s.step # 0 => Minimum <= split.left  BY <1>1, <1>6, <1>7, <1>13
      <4> QED  BY <1>7, <2>1, <4>1, <4>2, <4>3
    <3>2. CASE k # i
      <4>1. k \in 1..i - 1 /\ k \in 1..Len(o)  BY <1>4, <1>5, <3>2
      <4>2. o[k] \in Boxes \ {b}  BY <1>4, <1>11, <3>2, <4>1
      <4>3. t.target[o[k]] = s.target[o[k]]  BY <2>2, <4>2
      <4>4. \A h \in 1..k : t.target[o[h]] = s.target[o[h]]
        <5>1. \A h \in 1..k : h \in 1..Len(o) /\ h # i  BY <1>4, <1>5, <4>1
        <5>2. \A h \in 1..k : o[h] \in Boxes \ {b}  BY <1>4, <1>11, <5>1
        <5> QED  BY <2>2, <5>2
      <4> QED  BY <1>3, <2>1, <2>9, <4>1, <4>3, <4>4
    <3> QED  BY <3>1, <3>2
  <2>10. t.left <= split.left /\ (t.step = 0 => t.left < Minimum)
      BY <1>1, <1>6, <1>7, <2>1, <2>4
  <2>11. MinimumGiven(split, o, asking, t, i)
      BY <1>9, <2>7, <2>8, <2>9, <2>10 DEF MinimumGiven
  <2> QED  BY <2>11 DEF t, b
<1> QED  BY <1>12, <1>13
LEMMA MinimumIsGiven ==
  ASSUME NEW split, split.left \in Nat, split.target \in [Boxes -> Nat],
         NEW o, Listed(o), NEW asking \in SUBSET Boxes, \A b \in asking : split.target[b] = 0
  PROVE  MinimumGiven(split, o, asking, WithMinimum(split, o, asking), Len(o))
<1>1. o \in Seq(Boxes) /\ Len(o) \in Nat  BY DEF Listed
<1>2. PICK after : /\ Stepwise("minimum", MinimumStart(split), o, asking, after)
                   /\ WithMinimum(split, o, asking) = after[Len(o)]
  BY <1>1, MinimumLoop
<1> DEFINE Good == {i \in 0..Len(o) : MinimumGiven(split, o, asking, after[i], i)}
<1>3. 0 \in Good
  <2>1. after[0] = MinimumStart(split)  BY <1>2 DEF Stepwise
  <2>2. Minimum \in Nat /\ Minimum # 0  BY ManagerAssumption
  <2>3. MinimumStart(split) \in MinimumStates  BY <2>2 DEF MinimumStart, MinimumStates
  <2>4. MinimumGiven(split, o, asking, MinimumStart(split), 0)
      BY <1>1, <2>2, <2>3 DEF MinimumGiven, MinimumStart
  <2> QED  BY <1>1, <2>1, <2>4
<1>4. ASSUME NEW i \in 1..Len(o), i - 1 \in Good PROVE i \in Good
  <2>1. MinimumGiven(split, o, asking, after[i - 1], i - 1)  BY <1>4
  <2>2. CASE o[i] \in asking
    <3>1. after[i] = MinimumTo(after[i - 1], o[i])  BY <1>2, <2>2 DEF Stepwise, StepTo
    <3>2. MinimumGiven(split, o, asking, MinimumTo(after[i - 1], o[i]), i)
        BY <2>1, <2>2, MinimumGivenStep
    <3> QED  BY <1>1, <3>1, <3>2
  <2>3. CASE o[i] \notin asking
    <3>1. after[i] = after[i - 1]  BY <1>2, <2>3 DEF Stepwise
    <3>2. \A k \in 1..Len(o) : k > i => k > i - 1  BY <1>1
    <3>3. \A k \in 1..i : o[k] \in asking => k \in 1..i - 1  BY <1>1, <2>3
    <3>4. MinimumGiven(split, o, asking, after[i - 1], i)
        BY <2>1, <3>2, <3>3 DEF MinimumGiven
    <3> QED  BY <1>1, <3>1, <3>4
  <2> QED  BY <2>2, <2>3
<1> HIDE DEF Good
<1>5. \A i \in 0..Len(o) : i \in Good  BY <1>1, <1>3, <1>4, CountingUp
<1>6. Len(o) \in Good  BY <1>1, <1>5
<1> QED  BY <1>2, <1>6 DEF Good

RestStates == [waiting : Nat, left : Nat, target : [Boxes -> Nat]]

\* The boxes that are still to get their share.
Waiting(split, o, i) == Served(split) \ {o[k] : k \in 1..i}

\* The state of the loop that gives the rest, after the first i boxes.
RestGiven(split, o, s, i) ==
  /\ s \in RestStates /\ s.left <= split.left
  /\ s.waiting = Cardinality(Waiting(split, o, i))
  /\ Total(s.target) + s.left = Total(split.target) + split.left
  /\ \A b \in Boxes : /\ split.target[b] <= s.target[b] /\ s.target[b] <= Supported[b]
                      /\ b \notin Served(split) => s.target[b] = split.target[b]

LEMMA RestGivenStep ==
  ASSUME NEW split, split.left \in Nat, split.target \in [Boxes -> Nat],
         NEW o, Listed(o),
         NEW s, NEW i \in 1..Len(o), RestGiven(split, o, s, i - 1), o[i] \in Served(split)
  PROVE  RestGiven(split, o, ShareTo(s, o[i]), i)
<1> DEFINE b == o[i]
           t == ShareTo(s, b)
           before == Waiting(split, o, i - 1)
           after == Waiting(split, o, i)
<1>1. /\ s \in RestStates /\ s.left <= split.left /\ s.waiting = Cardinality(before)
      /\ Total(s.target) + s.left = Total(split.target) + split.left
  BY DEF RestGiven
<1>2. \A c \in Boxes : /\ split.target[c] <= s.target[c] /\ s.target[c] <= Supported[c]
                       /\ c \notin Served(split) => s.target[c] = split.target[c]
  BY DEF RestGiven
<1>3. /\ Len(o) \in Nat /\ \A k \in 1..Len(o) : o[k] \in Boxes
      /\ \A h, k \in 1..Len(o) : o[h] = o[k] => h = k
  BY DEF Listed, Listing
<1>4. b \in Boxes /\ b \in Served(split) /\ i \in Nat /\ i <= Len(o)  BY <1>3
<1>5. s.waiting \in Nat /\ s.left \in Nat /\ s.target \in [Boxes -> Nat]  BY <1>1 DEF RestStates
<1>6. Supported \in [Boxes -> Nat]  BY ManagerAssumption
<1>7. IsFiniteSet(before)
  <2>1. before \in SUBSET Boxes  BY DEF Served, Waiting
  <2> HIDE DEF before
  <2> QED  BY <2>1, ManagerAssumption, FS_Subset
<1>8. b \in before
  <2>1. \A k \in 1..i - 1 : k \in 1..Len(o) /\ k # i  BY <1>3, <1>4
  <2>2. \A k \in 1..i - 1 : o[k] # o[i]  BY <1>3, <2>1
  <2> QED  BY <1>4, <2>2 DEF Waiting
<1>9. after = before \ {b}
  <2>1. 1..i = (1..i - 1) \cup {i}  BY <1>4
  <2> QED  BY <2>1 DEF Waiting
<1> HIDE DEF before, after
<1>10. Cardinality(after) = Cardinality(before) - 1  BY <1>7, <1>8, <1>9, FS_RemoveElement
<1>11. Cardinality(before) # 0  BY <1>7, <1>8, FS_EmptySet
<1>12. s.waiting \in Nat \ {0}  BY <1>1, <1>5, <1>11
<1> HIDE DEF b
<1> DEFINE room == Supported[b] - s.target[b]
           share == s.left \div s.waiting
           add == Min({room, share})
<1>13. s.target[b] \in Nat /\ Supported[b] \in Nat /\ s.target[b] <= Supported[b]
  BY <1>2, <1>4, <1>5, <1>6
<1>14. room \in Nat  BY <1>13
<1>15. share \in Nat /\ share <= s.left  BY <1>5, <1>12, ShareIs
<1>16. t = [waiting |-> s.waiting - 1, left |-> s.left - add,
            target |-> [s.target EXCEPT ![b] = @ + add]]
  BY DEF ShareTo
<1>17. s.target[b] + room = Supported[b]  BY <1>13
<1> HIDE DEF room, share
<1>18. add \in Nat /\ add <= room /\ add <= share  BY <1>14, <1>15, MinOfTwo
<1> HIDE DEF add, t
<1>19. t.waiting = s.waiting - 1 /\ t.left = s.left - add
       /\ t.target = [s.target EXCEPT ![b] = s.target[b] + add]
  BY <1>16
<1>20. add <= s.left /\ s.target[b] + add \in Nat /\ s.target[b] + add <= Supported[b]
  <2>1. \A has, most, left, r, q, x \in Nat :
          has + r = most /\ x <= r /\ x <= q /\ q <= left => x <= left /\ has + x \in Nat /\ has + x <= most
      OBVIOUS
  <2>2. s.target[b] \in Nat /\ Supported[b] \in Nat /\ s.left \in Nat
        /\ room \in Nat /\ share \in Nat /\ add \in Nat
      BY <1>5, <1>13, <1>14, <1>15, <1>18
  <2>3. s.target[b] + room = Supported[b] /\ add <= room /\ add <= share /\ share <= s.left
      BY <1>15, <1>17, <1>18
  <2> QED  BY <2>1, <2>2, <2>3
<1>21. t \in RestStates
  <2>1. s.waiting - 1 \in Nat /\ s.left - add \in Nat  BY <1>5, <1>12, <1>18, <1>20
  <2>2. [s.target EXCEPT ![b] = @ + add] \in [Boxes -> Nat]  BY <1>5, <1>20
  <2> QED  BY <1>16, <2>1, <2>2 DEF RestStates
<1>22. Total(t.target) + t.left = Total(split.target) + split.left
  <2> DEFINE f == s.target
             x == s.target[b] + add
  <2>1. f \in [Boxes -> Nat] /\ x \in Nat /\ t.target = [f EXCEPT ![b] = x] /\ f = s.target
        /\ f[b] \in Nat /\ x = f[b] + add
      BY <1>5, <1>13, <1>19, <1>20
  <2> HIDE DEF f, x
  <2>2. Total([f EXCEPT ![b] = x]) = Total(f) - f[b] + x /\ Total(f) \in Nat
      BY <1>4, <2>1, TotalChanges
  <2>3. Total(t.target) = Total(s.target) + add /\ Total(s.target) \in Nat
      BY <1>18, <2>1, <2>2
  <2> QED  BY <1>1, <1>5, <1>18, <1>19, <1>20, <2>3
<1>23. ASSUME NEW c \in Boxes
       PROVE  /\ split.target[c] <= t.target[c] /\ t.target[c] <= Supported[c]
              /\ c \notin Served(split) => t.target[c] = split.target[c]
  <2>1. split.target[c] \in Nat /\ s.target[c] \in Nat  BY <1>5
  <2>2. CASE c = b
    <3>1. t.target[c] = s.target[b] + add  BY <1>4, <1>5, <1>19, <2>2
    <3> QED  BY <1>2, <1>4, <1>18, <1>20, <2>1, <2>2, <3>1
  <2>3. CASE c # b
    <3>1. t.target[c] = s.target[c]  BY <1>5, <1>19, <2>3
    <3> QED  BY <1>2, <3>1
  <2> QED  BY <2>2, <2>3
<1>24. t.left <= split.left  BY <1>1, <1>5, <1>18, <1>19, <1>20
<1>25. t.waiting = Cardinality(after)  BY <1>1, <1>10, <1>19
<1>26. RestGiven(split, o, t, i)
  BY <1>21, <1>22, <1>23, <1>24, <1>25 DEF RestGiven, after
<1> QED  BY <1>26 DEF t, b

LEMMA RestIsGiven ==
  ASSUME NEW split, split.left \in Nat, split.target \in [Boxes -> Nat],
         NEW o, Listed(o), \A b \in Boxes : split.target[b] <= Supported[b]
  PROVE  RestGiven(split, o, WithRest(split, o), Len(o))
<1>1. o \in Seq(Boxes) /\ Len(o) \in Nat  BY DEF Listed
<1>2. PICK after : /\ Stepwise("rest", RestStart(split), o, Served(split), after)
                   /\ WithRest(split, o) = after[Len(o)]
  BY <1>1, RestLoop
<1> DEFINE Good == {i \in 0..Len(o) : RestGiven(split, o, after[i], i)}
<1>3. 0 \in Good
  <2>1. after[0] = RestStart(split)  BY <1>2 DEF Stepwise
  <2>2. Served(split) \in SUBSET Boxes  BY DEF Served
  <2>3. Cardinality(Served(split)) \in Nat
      BY <2>2, ManagerAssumption, FS_Subset, FS_CardinalityType
  <2>4. RestStart(split) \in RestStates  BY <2>3 DEF RestStart, RestStates
  <2>5. Waiting(split, o, 0) = Served(split)  BY DEF Waiting
  <2>6. \A b \in Boxes : split.target[b] \in Nat  OBVIOUS
  <2>7. RestGiven(split, o, RestStart(split), 0)
    <3>1. \A b \in Boxes : split.target[b] <= split.target[b]  BY <2>6
    <3> QED  BY <2>4, <2>5, <3>1 DEF RestGiven, RestStart
  <2> QED  BY <1>1, <2>1, <2>7
<1>4. ASSUME NEW i \in 1..Len(o), i - 1 \in Good PROVE i \in Good
  <2>1. RestGiven(split, o, after[i - 1], i - 1)  BY <1>4
  <2>2. CASE o[i] \in Served(split)
    <3>1. after[i] = ShareTo(after[i - 1], o[i])  BY <1>2, <2>2 DEF Stepwise, StepTo
    <3>2. RestGiven(split, o, ShareTo(after[i - 1], o[i]), i)  BY <2>1, <2>2, RestGivenStep
    <3> QED  BY <1>1, <3>1, <3>2
  <2>3. CASE o[i] \notin Served(split)
    <3>1. after[i] = after[i - 1]  BY <1>2, <2>3 DEF Stepwise
    <3>2. 1..i = (1..i - 1) \cup {i}  BY <1>1
    <3>3. Waiting(split, o, i) = Waiting(split, o, i - 1)  BY <2>3, <3>2 DEF Waiting
    <3>4. RestGiven(split, o, after[i - 1], i)  BY <2>1, <3>3 DEF RestGiven
    <3> QED  BY <1>1, <3>1, <3>4
  <2> QED  BY <2>2, <2>3
<1> HIDE DEF Good
<1>5. \A i \in 0..Len(o) : i \in Good  BY <1>1, <1>3, <1>4, CountingUp
<1>6. Len(o) \in Good  BY <1>1, <1>5
<1> QED  BY <1>2, <1>6 DEF Good
---------------------------------------------------------------------------
(* The distribution.                                                       *)

\* What distribute_current calculates for any order of the boxes, any demand
\* and any current: it fits; a box gets nothing or what it can use; a box that
\* asks gets nothing only if the ones after it get nothing; and a vehicle that
\* has already charged is woken only if every box that asks gets something.
THEOREM SplitFits ==
  ASSUME NEW o \in SetToSeqs(Boxes), NEW demand, NEW amount \in Nat
  PROVE  LET target == Split(o, demand, amount)
         IN  /\ target \in [Boxes -> Nat] /\ Total(target) <= amount
             /\ \A b \in Boxes :
                  /\ target[b] <= Supported[b]
                  /\ target[b] # 0 =>
                       (Asks(demand, b) \/ AsksAgain(demand, b)) /\ Minimum <= target[b]
                  /\ target[b] # 0 /\ AsksAgain(demand, b) =>
                       \A c \in Boxes : Asks(demand, c) => target[c] # 0
             /\ \A h, k \in DOMAIN o :
                  h < k /\ Asks(demand, o[h]) /\ Asks(demand, o[k]) /\ target[o[k]] # 0
                    => target[o[h]] # 0
<1> DEFINE start  == [left |-> amount, target |-> Nothing]
           asking == {b \in Boxes : Asks(demand, b)}
           again  == {b \in Boxes : AsksAgain(demand, b)}
           first  == WithMinimum(start, o, asking)
           second == WithRest(first, o)
           third  == WithMinimum(second, o, again)
           n      == Len(o)
<1>1. Listed(o)  BY ListsAllBoxes DEF Listed, Listing
<1>2. /\ n \in Nat /\ DOMAIN o = 1..n /\ \A k \in 1..n : o[k] \in Boxes
      /\ \A b \in Boxes : \E k \in 1..n : o[k] = b
  BY <1>1 DEF Listed, Listing
<1>3. Split(o, demand, amount) = third.target  BY DEF Split
<1>4. /\ start.left = amount /\ start.target = Nothing /\ Nothing \in [Boxes -> Nat]
      /\ \A b \in Boxes : Nothing[b] = 0
  BY DEF Nothing
<1>5. asking \in SUBSET Boxes /\ again \in SUBSET Boxes  OBVIOUS
<1>6. \A b \in Boxes : b \in asking <=> Asks(demand, b)  OBVIOUS
<1>7. \A b \in Boxes : b \in again <=> AsksAgain(demand, b)  OBVIOUS
<1>8. \A b \in again : b \notin asking  BY DEF Asks, AsksAgain
<1>9. \A b \in asking \cup again : Minimum <= Supported[b]
  BY ManagerAssumption DEF Asks, AsksAgain
<1>10. Minimum \in Nat /\ Minimum # 0 /\ Supported \in [Boxes -> Nat]  BY ManagerAssumption
<1> HIDE DEF start, asking, again, n
<1>11. MinimumGiven(start, o, asking, first, n)
  <2>1. \A b \in asking : start.target[b] = 0  BY <1>4, <1>5
  <2> QED  BY <1>1, <1>4, <1>5, <2>1, MinimumIsGiven DEF n
<1> HIDE DEF first
<1>12. /\ first.left \in Nat /\ first.target \in [Boxes -> Nat] /\ first.left <= amount
       /\ first.step \in {0, Minimum} /\ Total(first.target) + first.left = amount
  <2>1. first \in MinimumStates /\ first.left <= start.left
        /\ Total(first.target) + first.left = Total(start.target) + start.left
      BY <1>11 DEF MinimumGiven
  <2>2. Total(start.target) = 0  BY <1>4, TotalOfNothing
  <2> QED  BY <1>4, <2>1, <2>2 DEF MinimumStates
<1>13. \A b \in Boxes : /\ b \notin asking => first.target[b] = 0
                        /\ b \in asking => first.target[b] \in {0, Minimum}
                        /\ b \in asking /\ first.step = Minimum => first.target[b] = Minimum
  <2> SUFFICES ASSUME NEW b \in Boxes
               PROVE  /\ b \notin asking => first.target[b] = 0
                      /\ b \in asking => first.target[b] \in {0, Minimum}
                      /\ b \in asking /\ first.step = Minimum => first.target[b] = Minimum
      OBVIOUS
  <2>1. PICK k \in 1..n : o[k] = b  BY <1>2
  <2> QED  BY <1>4, <1>11, <2>1 DEF MinimumGiven, n
<1>14. first.step = 0 => first.left < Minimum  BY <1>11 DEF MinimumGiven
<1>15. \A b \in Boxes : first.target[b] \in Nat /\ first.target[b] <= Supported[b]
  <2> SUFFICES ASSUME NEW b \in Boxes
               PROVE  first.target[b] \in Nat /\ first.target[b] <= Supported[b]
      OBVIOUS
  <2>1. Supported[b] \in Nat  BY <1>10
  <2> QED  BY <1>9, <1>10, <1>13, <2>1
<1>16. RestGiven(first, o, second, n)  BY <1>1, <1>12, <1>15, RestIsGiven DEF n
<1> HIDE DEF second
<1>17. /\ second.left \in Nat /\ second.target \in [Boxes -> Nat] /\ second.left <= first.left
       /\ Total(second.target) + second.left = amount
  BY <1>12, <1>16 DEF RestGiven, RestStates
<1>18. \A b \in Boxes : /\ first.target[b] <= second.target[b]
                        /\ second.target[b] <= Supported[b]
                        /\ first.target[b] = 0 => second.target[b] = 0
  <2>1. \A b \in Boxes : first.target[b] = 0 => b \notin Served(first)  BY DEF Served
  <2> QED  BY <1>16, <2>1 DEF RestGiven
<1>19. MinimumGiven(second, o, again, third, n)
  <2>1. \A b \in again : second.target[b] = 0  BY <1>5, <1>8, <1>13, <1>18
  <2> QED  BY <1>1, <1>5, <1>17, <2>1, MinimumIsGiven DEF n
<1> HIDE DEF third
<1>20. third.left \in Nat /\ third.target \in [Boxes -> Nat] /\ Total(third.target) + third.left = amount
  BY <1>17, <1>19 DEF MinimumGiven, MinimumStates
<1>21. \A b \in Boxes :
         /\ b \notin again => third.target[b] = second.target[b]
         /\ b \in again => /\ third.target[b] \in {0, Minimum}
                           /\ third.target[b] # 0 => Minimum <= second.left
  <2> SUFFICES ASSUME NEW b \in Boxes
               PROVE  /\ b \notin again => third.target[b] = second.target[b]
                      /\ b \in again => /\ third.target[b] \in {0, Minimum}
                                        /\ third.target[b] # 0 => Minimum <= second.left
      OBVIOUS
  <2>1. PICK k \in 1..n : o[k] = b  BY <1>2
  <2> QED  BY <1>19, <2>1 DEF MinimumGiven, n
<1>22. \A b \in Boxes : third.target[b] \in Nat /\ second.target[b] \in Nat
  BY <1>17, <1>20
\* A box that asks gets something in the end if and only if it got the minimum.
<1>23. \A b \in asking : third.target[b] # 0 <=> first.target[b] # 0
  <2> SUFFICES ASSUME NEW b \in asking PROVE third.target[b] # 0 <=> first.target[b] # 0
      OBVIOUS
  <2>1. b \in Boxes /\ third.target[b] = second.target[b]  BY <1>5, <1>8, <1>21
  <2> QED  BY <1>15, <1>18, <1>22, <2>1
<1>24. Total(third.target) <= amount
  <2>1. Total(third.target) \in Nat  BY <1>20, TotalIsANumber
  <2> QED  BY <1>20, <2>1
<1>25. ASSUME NEW b \in Boxes
       PROVE  /\ third.target[b] <= Supported[b]
              /\ third.target[b] # 0 => b \in asking \cup again /\ Minimum <= third.target[b]
  <2>1. Supported[b] \in Nat  BY <1>10
  <2>2. CASE b \in again  BY <1>9, <1>10, <1>21, <2>1, <2>2
  <2>3. CASE b \notin again
    <3>1. third.target[b] = second.target[b]  BY <1>21, <2>3
    <3>2. third.target[b] # 0 => first.target[b] # 0  BY <1>18, <3>1
    <3>3. third.target[b] # 0 => b \in asking /\ first.target[b] = Minimum  BY <1>13, <3>2
    <3> QED  BY <1>18, <3>1, <3>3
  <2> QED  BY <2>2, <2>3
<1>26. ASSUME NEW b \in again, third.target[b] # 0, NEW c \in asking PROVE third.target[c] # 0
  <2>1. Minimum <= second.left  BY <1>5, <1>21, <1>26
  <2>2. ~(first.left < Minimum)  BY <1>10, <1>12, <1>17, <2>1
  <2>3. first.step = Minimum  BY <1>12, <1>14, <2>2
  <2>4. first.target[c] = Minimum  BY <1>5, <1>13, <2>3
  <2> QED  BY <1>10, <1>23, <2>4
<1>27. ASSUME NEW h \in 1..n, NEW k \in 1..n, h < k, o[h] \in asking, o[k] \in asking,
              third.target[o[k]] # 0
       PROVE  third.target[o[h]] # 0
  <2>1. first.target[o[k]] # 0  BY <1>23, <1>27
  <2>2. h \in 1..k  BY <1>2, <1>27
  <2>3. first.target[o[h]] # 0  BY <1>11, <1>27, <2>1, <2>2 DEF MinimumGiven
  <2> QED  BY <1>23, <1>27, <2>3
<1> DEFINE target == Split(o, demand, amount)
<1>28. target = third.target  BY <1>3
<1> HIDE DEF target
<1>29. \A b \in Boxes :
         /\ target[b] <= Supported[b]
         /\ target[b] # 0 => (Asks(demand, b) \/ AsksAgain(demand, b)) /\ Minimum <= target[b]
         /\ target[b] # 0 /\ AsksAgain(demand, b) =>
              \A c \in Boxes : Asks(demand, c) => target[c] # 0
  BY <1>6, <1>7, <1>25, <1>26, <1>28
<1>30. \A h, k \in DOMAIN o :
         h < k /\ Asks(demand, o[h]) /\ Asks(demand, o[k]) /\ target[o[k]] # 0
           => target[o[h]] # 0
  BY <1>2, <1>6, <1>27, <1>28
<1>31. target \in [Boxes -> Nat] /\ Total(target) <= amount  BY <1>20, <1>24, <1>28
<1> QED  BY <1>29, <1>30, <1>31 DEF target
---------------------------------------------------------------------------
(* The manager and the boxes.                                              *)

Targets(target) == target \in [Boxes -> Nat] /\ \A b \in Boxes : target[b] <= Supported[b]

LEMMA TargetsOf ==
  ASSUME TypeOK, NEW lost
  PROVE  /\ Ranked(order, Demand) \in SetToSeqs(Boxes)
         /\ Targets(Split(Ranked(order, Demand), Demand, Usable(lost)))
         /\ Total(Split(Ranked(order, Demand), Demand, Usable(lost))) <= Usable(lost)
         /\ Usable(lost) \in Nat /\ available \in Nat /\ Usable(lost) <= available
<1>1. available \in Nat  BY ManagerAssumption DEF TypeOK
<1>2. Usable(lost) \in Nat /\ Usable(lost) <= available  BY <1>1 DEF Usable
<1>3. order \in SetToSeqs(Boxes)  BY DEF TypeOK
<1>4. Ranked(order, Demand) \in SetToSeqs(Boxes)  BY <1>3, RankedInOrder
<1> DEFINE o == Ranked(order, Demand)
           amount == Usable(lost)
           target == Split(o, Demand, amount)
<1>5. o \in SetToSeqs(Boxes) /\ amount \in Nat  BY <1>2, <1>4
<1> HIDE DEF o, amount
<1>6. /\ target \in [Boxes -> Nat] /\ Total(target) <= amount
      /\ \A b \in Boxes : target[b] <= Supported[b]
  BY <1>5, SplitFits
<1>7. Targets(target)  BY <1>6 DEF Targets
<1> QED  BY <1>1, <1>2, <1>4, <1>6, <1>7 DEF o, amount

Demands == {"none", "low", "wants", "charging"}
Vehicles == {"none", "fresh", "charging", "paused"}

LEMMA InitTypes == Init => TypeOK
<1> SUFFICES ASSUME Init PROVE TypeOK  OBVIOUS
<1>1. Supported \in [Boxes -> Nat] /\ MaxSilence \in Nat \ {0}  BY ManagerAssumption
<1>2. 1 \in 0..MaxSilence + 1  BY <1>1
<1>3. record \in [Boxes -> [demand : Demands, allowed : Nat]]  BY DEF Init, Demands
<1>4. \A b \in Boxes : 0 <= Supported[b] /\ record[b].allowed = 0  BY <1>1 DEF Init
<1>5. \A b \in Boxes : vehicle[b] # "charging"  BY DEF Init
<1>6. vehicle \in [Boxes -> Vehicles]  BY DEF Init, Vehicles
<1> QED  BY <1>2, <1>3, <1>4, <1>5, <1>6 DEF Init, TypeOK, Demands, Vehicles

LEMMA StepTypes == TypeOK /\ [Next]_vars => TypeOK'
<1> SUFFICES ASSUME TypeOK, [Next]_vars PROVE TypeOK'  OBVIOUS
<1>1. /\ available \in Availables /\ order \in SetToSeqs(Boxes)
      /\ record \in [Boxes -> [demand : Demands, allowed : Nat]]
      /\ allocated \in [Boxes -> Nat] /\ current \in [Boxes -> Nat]
      /\ vehicle \in [Boxes -> Vehicles]
  BY DEF TypeOK, Demands, Vehicles
<1>2. /\ unreported \in [Boxes -> 0..MaxSilence + 1] /\ unheard \in [Boxes -> 0..MaxSilence + 1]
      /\ \A b \in Boxes : vehicle[b] = "charging" => current[b] > 0
      /\ \A b \in Boxes : /\ allocated[b] <= Supported[b] /\ current[b] <= Supported[b]
                          /\ record[b].allowed <= Supported[b]
  BY DEF TypeOK
<1>3. Supported \in [Boxes -> Nat] /\ MaxSilence \in Nat /\ MaxSilence # 0  BY ManagerAssumption
<1>4. \A b \in Boxes : allocated[b] \in Nat /\ current[b] \in Nat /\ Supported[b] \in Nat
  BY <1>1, <1>3
<1>5. ASSUME NEW silent, NEW unreactive, Distribute(silent, unreactive) PROVE TypeOK'
  <2> DEFINE target == Split(Ranked(order, Demand), Demand, Usable(silent \cup unreactive))
  <2>1. Ranked(order, Demand) \in SetToSeqs(Boxes) /\ Targets(target)  BY TargetsOf
  <2>2. /\ order' = Ranked(order, Demand) /\ allocated' = Applied(target)
        /\ unreported' = [b \in Boxes |-> Older(unreported[b])]
        /\ unheard' = [b \in Boxes |-> Older(unheard[b])]
        /\ available' = available /\ record' = record
        /\ vehicle' = vehicle /\ current' = current
      BY <1>5 DEF Distribute, boxVars
  <2> HIDE DEF target
  <2>3. \A b \in Boxes : target[b] \in Nat /\ target[b] <= Supported[b]  BY <2>1 DEF Targets
  <2>4. Targets(Applied(target))  BY <1>2, <1>4, <2>1, <2>3 DEF Applied, Targets
  <2>5. \A n \in 0..MaxSilence + 1 : Older(n) \in 0..MaxSilence + 1  BY <1>3 DEF Older
  <2>6. unreported' \in [Boxes -> 0..MaxSilence + 1] /\ unheard' \in [Boxes -> 0..MaxSilence + 1]
      BY <1>2, <2>2, <2>5
  <2>7. allocated' \in [Boxes -> Nat] /\ \A b \in Boxes : allocated'[b] <= Supported[b]
      BY <2>2, <2>4 DEF Targets
  <2> QED  BY <1>1, <1>2, <2>1, <2>2, <2>6, <2>7 DEF TypeOK, Demands, Vehicles
<1>6. ASSUME NEW a \in Availables, UpdateAvailable(a) PROVE TypeOK'
  <2>1. /\ available' = a /\ order' = order /\ allocated' = allocated /\ record' = record
        /\ vehicle' = vehicle /\ current' = current
        /\ unreported' = unreported /\ unheard' = unheard
      BY <1>6 DEF UpdateAvailable, boxVars, contactVars
  <2> QED  BY <1>1, <1>2, <2>1 DEF TypeOK, Demands, Vehicles
<1>7. \A b \in Boxes, c \in Nat :
        /\ VehicleUnder(vehicle[b], c) \in Vehicles
        /\ VehicleUnder(vehicle[b], c) = "charging" => c > 0
  BY <1>1 DEF VehicleUnder, Vehicles
<1>8. ASSUME NEW b \in Boxes, NEW c \in Nat, c <= Supported[b],
             current' = [current EXCEPT ![b] = c],
             vehicle' = [vehicle EXCEPT ![b] = VehicleUnder(@, c)],
             unheard' \in [Boxes -> 0..MaxSilence + 1],
             UNCHANGED <<managerVars, unreported>>
      PROVE  TypeOK'
  <2>1. /\ available' = available /\ order' = order /\ allocated' = allocated
        /\ record' = record /\ unreported' = unreported
      BY <1>8 DEF managerVars
  <2>2. current' \in [Boxes -> Nat] /\ vehicle' \in [Boxes -> Vehicles]  BY <1>1, <1>7, <1>8
  <2>3. ASSUME NEW d \in Boxes
        PROVE  current'[d] <= Supported[d] /\ (vehicle'[d] = "charging" => current'[d] > 0)
    <3>1. CASE d = b
      <4>1. current'[d] = c /\ vehicle'[d] = VehicleUnder(vehicle[b], c)  BY <1>1, <1>8, <3>1
      <4> QED  BY <1>7, <1>8, <3>1, <4>1
    <3>2. CASE d # b
      <4>1. current'[d] = current[d] /\ vehicle'[d] = vehicle[d]  BY <1>1, <1>8, <3>2
      <4> QED  BY <1>2, <4>1
    <3> QED  BY <3>1, <3>2
  <2> QED  BY <1>1, <1>2, <1>8, <2>1, <2>2, <2>3 DEF TypeOK, Demands, Vehicles
<1>9. ASSUME NEW b \in Boxes, TakePacket(b) PROVE TypeOK'
  <2>1. unheard' = [unheard EXCEPT ![b] = 0]  BY <1>9 DEF TakePacket
  <2>2. 0 \in 0..MaxSilence + 1  BY <1>3
  <2>3. unheard' \in [Boxes -> 0..MaxSilence + 1]  BY <1>2, <2>1, <2>2
  <2>4. /\ current' = [current EXCEPT ![b] = allocated[b]]
        /\ vehicle' = [vehicle EXCEPT ![b] = VehicleUnder(@, allocated[b])]
        /\ UNCHANGED <<managerVars, unreported>>
      BY <1>9 DEF TakePacket
  <2> DEFINE c == allocated[b]
  <2>5. c \in Nat /\ c <= Supported[b]  BY <1>2, <1>4
  <2> QED  BY <1>8, <2>3, <2>4, <2>5
<1>10. ASSUME NEW b \in Boxes, BoxWatchdog(b) PROVE TypeOK'
  <2>1. /\ current' = [current EXCEPT ![b] = 0]
        /\ vehicle' = [vehicle EXCEPT ![b] = VehicleUnder(@, 0)]
        /\ UNCHANGED <<managerVars, unreported>> /\ unheard' = unheard
      BY <1>10 DEF BoxWatchdog, contactVars
  <2>2. 0 \in Nat /\ 0 <= Supported[b]  BY <1>4
  <2> QED  BY <1>2, <1>8, <2>1, <2>2
<1>11. ASSUME NEW b \in Boxes, TakeReport(b) PROVE TypeOK'
  <2>1. /\ record' = [record EXCEPT ![b] = [demand |-> DemandOf(b), allowed |-> current[b]]]
        /\ unreported' = [unreported EXCEPT ![b] = 0]
        /\ available' = available /\ order' = order /\ allocated' = allocated
        /\ vehicle' = vehicle /\ current' = current /\ unheard' = unheard
      BY <1>11 DEF TakeReport, boxVars
  <2>2. 0 \in 0..MaxSilence + 1  BY <1>3
  <2>3. unreported' \in [Boxes -> 0..MaxSilence + 1]  BY <1>2, <2>1, <2>2
  <2>4. vehicle[b] \in Vehicles  BY <1>1
  <2>5. DemandOf(b) \in Demands  BY <2>4 DEF DemandOf, Demands, Vehicles
  <2>6. record' \in [Boxes -> [demand : Demands, allowed : Nat]]  BY <1>1, <1>4, <2>1, <2>5
  <2>7. ASSUME NEW d \in Boxes PROVE record'[d].allowed <= Supported[d]
    <3>1. CASE d = b
      <4>1. record'[d].allowed = current[b]  BY <1>1, <2>1, <3>1
      <4> QED  BY <1>2, <3>1, <4>1
    <3>2. CASE d # b
      <4>1. record'[d] = record[d]  BY <1>1, <2>1, <3>2
      <4> QED  BY <1>2, <4>1
    <3> QED  BY <3>1, <3>2
  <2> QED  BY <1>1, <1>2, <2>1, <2>3, <2>6, <2>7 DEF TypeOK, Demands, Vehicles
<1>12. ASSUME NEW b \in Boxes, NEW v \in Vehicles, VehicleActs(b, v) PROVE TypeOK'
  <2>1. /\ vehicle' = [vehicle EXCEPT ![b] = v]
        /\ available' = available /\ order' = order /\ allocated' = allocated
        /\ record' = record /\ current' = current
        /\ unreported' = unreported /\ unheard' = unheard
      BY <1>12 DEF VehicleActs, managerVars, contactVars
  <2>2. v = "charging" => current[b] > 0  BY <1>12 DEF VehicleActs
  <2>3. vehicle' \in [Boxes -> Vehicles]  BY <1>1, <2>1
  <2>4. ASSUME NEW d \in Boxes PROVE vehicle'[d] = "charging" => current[d] > 0
      BY <1>1, <1>2, <2>1, <2>2
  <2> QED  BY <1>1, <1>2, <2>1, <2>3, <2>4 DEF TypeOK, Demands, Vehicles
<1>13. CASE UNCHANGED vars
  <2>1. /\ available' = available /\ order' = order /\ allocated' = allocated
        /\ record' = record /\ vehicle' = vehicle /\ current' = current
        /\ unreported' = unreported /\ unheard' = unheard
      BY <1>13 DEF vars, managerVars, boxVars, contactVars
  <2> QED  BY <1>1, <1>2, <2>1 DEF TypeOK, Demands, Vehicles
<1> QED
  BY <1>5, <1>6, <1>9, <1>10, <1>11, <1>12, <1>13 DEF Next, Cycle, Vehicles

\* However the demand, the current and the contact change, the manager's sorted
\* list holds every box once, no box is told or takes more than it supports, and
\* no vehicle charges without current.
THEOREM BoxesStayInBounds == Spec => []TypeOK
<1>1. Init => TypeOK  BY InitTypes
<1>2. TypeOK /\ [Next]_vars => TypeOK'  BY StepTypes
<1> QED  BY <1>1, <1>2, PTL DEF Spec
\* Whatever the boxes ask for: the split fits into the available current, a box
\* gets nothing or what it can use, and no box of a lower rank is served while
\* one of a higher rank gets nothing.
THEOREM SplitStaysFair == Spec => []SplitIsFair
<1>1. ASSUME TypeOK PROVE SplitIsFair
  <2> DEFINE o == Ranked(order, Demand)
             target == Split(o, Demand, available)
  <2>1. available \in Nat /\ order \in SetToSeqs(Boxes)  BY <1>1, ManagerAssumption DEF TypeOK
  <2>2. o \in SetToSeqs(Boxes)
        /\ \A i, j \in DOMAIN o : i < j =>
             \/ Demand[o[i]] = "charging" /\ Demand[o[j]] # "charging"
             \/ Demand[o[i]] = "charging" <=> Demand[o[j]] = "charging"
      BY <2>1, RankedInOrder
  <2> HIDE DEF o
  <2>3. /\ target \in [Boxes -> Nat] /\ Total(target) <= available
        /\ \A b \in Boxes :
             /\ target[b] <= Supported[b]
             /\ target[b] # 0 => (Asks(Demand, b) \/ AsksAgain(Demand, b)) /\ Minimum <= target[b]
             /\ target[b] # 0 /\ AsksAgain(Demand, b) =>
                  \A c \in Boxes : Asks(Demand, c) => target[c] # 0
        /\ \A h, k \in DOMAIN o :
             h < k /\ Asks(Demand, o[h]) /\ Asks(Demand, o[k]) /\ target[o[k]] # 0
               => target[o[h]] # 0
      BY <2>1, <2>2, SplitFits
  <2>4. /\ \A k \in DOMAIN o : k \in Nat /\ o[k] \in Boxes
        /\ \A b \in Boxes : \E k \in DOMAIN o : o[k] = b
      BY <2>2, ListsAllBoxes DEF Listing
  <2> HIDE DEF target
  <2>5. ASSUME NEW b \in Boxes, target[b] # 0
        PROVE  /\ Rank(Demand[b]) > 0 /\ target[b] \in Minimum..Supported[b]
               /\ \A c \in Boxes : Rank(Demand[c]) > Rank(Demand[b]) /\ Supported[c] >= Minimum
                    => target[c] # 0
    <3>1. Rank(Demand[b]) > 0  BY <2>3, <2>5 DEF Rank, Asks, AsksAgain
    <3>2. target[b] \in Minimum..Supported[b]
      <4>1. Minimum \in Nat /\ Supported[b] \in Nat /\ target[b] \in Nat
          BY <2>3, ManagerAssumption
      <4> QED  BY <2>3, <2>5, <4>1
    <3>3. ASSUME NEW c \in Boxes, Rank(Demand[c]) > Rank(Demand[b]), Supported[c] >= Minimum
          PROVE  target[c] # 0
      <4>1. CASE AsksAgain(Demand, b)
        <5>1. Rank(Demand[b]) = 1  BY <4>1 DEF AsksAgain, Rank
        <5>2. Demand[c] \in {"wants", "charging"}  BY <3>3, <5>1 DEF Rank
        <5>3. Asks(Demand, c)  BY <3>3, <5>2 DEF Asks
        <5> QED  BY <2>3, <2>5, <4>1, <5>3
      <4>2. CASE Asks(Demand, b)
        <5>1. Demand[b] = "wants" /\ Demand[c] = "charging"  BY <3>3, <4>2 DEF Asks, Rank
        <5>2. Asks(Demand, c)  BY <3>3, <5>1 DEF Asks
        <5>3. PICK h \in DOMAIN o, k \in DOMAIN o : o[h] = c /\ o[k] = b  BY <2>4
        <5>4. h # k /\ ~(k < h)  BY <2>2, <5>1, <5>3
        <5>5. h < k  BY <2>4, <5>4
        <5> QED  BY <2>3, <2>5, <4>2, <5>2, <5>3, <5>5
      <4> QED  BY <2>3, <2>5, <4>1, <4>2
    <3> QED  BY <3>1, <3>2, <3>3
  <2>6. Total(target) <= available  BY <2>3
  <2> QED  BY <2>5, <2>6 DEF SplitIsFair, target, o
<1> QED  BY <1>1, BoxesStayInBounds, PTL

\* A box that has just taken a packet has no more than its allocation; one that
\* has just been heard has no more than it reported or is allowed.
InContact ==
  /\ TypeOK
  /\ \A b \in Boxes :
       /\ unheard[b] = 0 => current[b] <= allocated[b]
       /\ unreported[b] = 0 => current[b] <= record[b].allowed \/ current[b] <= allocated[b]

LEMMA InitInContact == Init => InContact
<1> SUFFICES ASSUME Init PROVE InContact  OBVIOUS
<1>1. TypeOK  BY InitTypes
<1>2. \A b \in Boxes : unheard[b] # 0 /\ unreported[b] # 0  BY DEF Init
<1> QED  BY <1>1, <1>2 DEF InContact

LEMMA StepInContact == InContact /\ [Next]_vars => InContact'
<1> SUFFICES ASSUME InContact, [Next]_vars PROVE InContact'  OBVIOUS
<1>1. TypeOK /\ TypeOK'  BY StepTypes DEF InContact
<1>2. /\ unreported \in [Boxes -> 0..MaxSilence + 1] /\ unheard \in [Boxes -> 0..MaxSilence + 1]
      /\ record \in [Boxes -> [demand : Demands, allowed : Nat]]
      /\ allocated \in [Boxes -> Nat] /\ current \in [Boxes -> Nat]
  BY <1>1 DEF TypeOK, Demands
<1>3. \A b \in Boxes :
        /\ unheard[b] = 0 => current[b] <= allocated[b]
        /\ unreported[b] = 0 => current[b] <= record[b].allowed \/ current[b] <= allocated[b]
  BY DEF InContact
<1>4. \A b \in Boxes : allocated[b] \in Nat /\ current[b] \in Nat /\ record[b].allowed \in Nat
  BY <1>2
<1> SUFFICES ASSUME NEW d \in Boxes
             PROVE  /\ unheard'[d] = 0 => current'[d] <= allocated'[d]
                    /\ unreported'[d] = 0 =>
                         current'[d] <= record'[d].allowed \/ current'[d] <= allocated'[d]
  BY <1>1 DEF InContact
<1>5. ASSUME NEW silent, NEW unreactive, Distribute(silent, unreactive)
      PROVE  unheard'[d] # 0 /\ unreported'[d] # 0
  <2>1. MaxSilence \in Nat /\ MaxSilence # 0  BY ManagerAssumption
  <2>2. \A n \in 0..MaxSilence + 1 : Older(n) # 0  BY <2>1 DEF Older
  <2> QED  BY <1>2, <1>5, <2>2 DEF Distribute
<1>6. ASSUME NEW a \in Availables, UpdateAvailable(a)
      PROVE  UNCHANGED <<unheard, unreported, current, record, allocated>>
  BY <1>6 DEF UpdateAvailable, boxVars, contactVars
<1>7. ASSUME NEW b \in Boxes, TakePacket(b)
      PROVE  /\ unheard'[d] = 0 => current'[d] <= allocated'[d]
             /\ unreported'[d] = 0 =>
                  current'[d] <= record'[d].allowed \/ current'[d] <= allocated'[d]
  <2>1. /\ current' = [current EXCEPT ![b] = allocated[b]]
        /\ unheard' = [unheard EXCEPT ![b] = 0]
        /\ UNCHANGED <<record, allocated, unreported>>
      BY <1>7 DEF TakePacket, managerVars
  <2>2. CASE d = b
    <3>1. current'[d] = allocated[d]  BY <1>2, <2>1, <2>2
    <3> QED  BY <1>4, <2>1, <3>1
  <2>3. CASE d # b
    <3>1. current'[d] = current[d] /\ unheard'[d] = unheard[d]  BY <1>2, <2>1, <2>3
    <3> QED  BY <1>3, <2>1, <3>1
  <2> QED  BY <2>2, <2>3
<1>8. ASSUME NEW b \in Boxes, TakeReport(b)
      PROVE  /\ unheard'[d] = 0 => current'[d] <= allocated'[d]
             /\ unreported'[d] = 0 =>
                  current'[d] <= record'[d].allowed \/ current'[d] <= allocated'[d]
  <2>1. /\ record' = [record EXCEPT ![b] = [demand |-> DemandOf(b), allowed |-> current[b]]]
        /\ unreported' = [unreported EXCEPT ![b] = 0]
        /\ UNCHANGED <<current, allocated, unheard>>
      BY <1>8 DEF TakeReport, boxVars
  <2>2. CASE d = b
    <3>1. record'[d].allowed = current[d]  BY <1>2, <2>1, <2>2
    <3> QED  BY <1>3, <1>4, <2>1, <3>1
  <2>3. CASE d # b
    <3>1. record'[d] = record[d] /\ unreported'[d] = unreported[d]  BY <1>2, <2>1, <2>3
    <3> QED  BY <1>3, <2>1, <3>1
  <2> QED  BY <2>2, <2>3
<1>9. ASSUME NEW b \in Boxes, BoxWatchdog(b)
      PROVE  /\ unheard'[d] = 0 => current'[d] <= allocated'[d]
             /\ unreported'[d] = 0 =>
                  current'[d] <= record'[d].allowed \/ current'[d] <= allocated'[d]
  <2>1. /\ current' = [current EXCEPT ![b] = 0]
        /\ UNCHANGED <<record, allocated, unheard, unreported>>
      BY <1>9 DEF BoxWatchdog, managerVars, contactVars
  <2>2. current'[d] = 0 \/ current'[d] = current[d]  BY <1>2, <2>1
  <2> QED  BY <1>3, <1>4, <2>1, <2>2
<1>10. ASSUME NEW b \in Boxes, NEW v, VehicleActs(b, v)
       PROVE  UNCHANGED <<unheard, unreported, current, record, allocated>>
  BY <1>10 DEF VehicleActs, managerVars, contactVars
<1>11. CASE UNCHANGED vars
  <2>1. UNCHANGED <<unheard, unreported, current, record, allocated>>
      BY <1>11 DEF vars, managerVars, boxVars, contactVars
  <2> QED  BY <1>3, <2>1
<1>12. CASE Next
  BY <1>3, <1>5, <1>6, <1>7, <1>8, <1>9, <1>10, <1>12 DEF Next, Cycle
<1> QED  BY <1>11, <1>12

\* A step that raises a box above what it has reported is the end of a cycle in
\* which no box is throttled.
LEMMA RaisedOnlyUnthrottled ==
  ASSUME InContact, [Next]_vars, Raised
  PROVE  \E target, lost :
           /\ target = Split(Ranked(order, Demand), Demand, Usable(lost))
           /\ allocated' = target
           /\ \A b \in Boxes : ~Throttles(target, b)
<1>1. TypeOK  BY DEF InContact
<1>2. \A b \in Boxes : allocated[b] \in Nat /\ record[b].allowed \in Nat  BY <1>1 DEF TypeOK
<1>3. PICK b \in Boxes : allocated'[b] > allocated[b] /\ allocated'[b] >= record[b].allowed
  BY DEF Raised
<1>4. allocated' # allocated  BY <1>2, <1>3
<1>5. PICK silent, unreactive : Distribute(silent, unreactive)
  <2>1. allocated' = allocated \/ \E silent, unreactive \in SUBSET Boxes : Distribute(silent, unreactive)
      BY DEF Next, Cycle, UpdateAvailable, TakePacket, TakeReport, BoxWatchdog, VehicleActs,
             vars, managerVars
  <2> QED  BY <1>4, <2>1
<1> DEFINE lost == silent \cup unreactive
           target == Split(Ranked(order, Demand), Demand, Usable(lost))
<1>6. allocated' = Applied(target)  BY <1>5 DEF Distribute
<1>7. Targets(target)  BY <1>1, TargetsOf
<1> HIDE DEF target
<1>8. target \in [Boxes -> Nat]  BY <1>7 DEF Targets
<1> DEFINE throttled == {c \in Boxes : Throttles(target, c)}
<1>9. throttled = {}
  <2> SUFFICES ASSUME throttled # {} PROVE FALSE  OBVIOUS
  <2>1. allocated' = [c \in Boxes |-> IF c \in throttled THEN target[c] ELSE allocated[c]]
      BY <1>6 DEF Applied
  <2>2. b \in throttled /\ allocated'[b] = target[b]  BY <1>2, <1>3, <2>1
  <2>3. target[b] < allocated[b] \/ target[b] < record[b].allowed  BY <2>2 DEF Throttles
  <2>4. target[b] \in Nat  BY <1>8
  <2> QED  BY <1>2, <1>3, <2>2, <2>3, <2>4
<1>10. allocated' = target  BY <1>6, <1>9 DEF Applied
<1>11. \A c \in Boxes : ~Throttles(target, c)  BY <1>9
<1> QED  BY <1>6, <1>10, <1>11 DEF target

\* When a box is raised above what it has reported while every box is in contact,
\* what the boxes still have, or are about to take, fits into the available current.
THEOREM RaisesFit == Spec => RaiseFits
<1>1. ASSUME InContact, [Next]_vars, Raised, \A b \in Boxes : Contact(b)
      PROVE  Total([b \in Boxes |-> Max({current[b], allocated'[b]})]) <= available
  <2>1. PICK target, lost :
          /\ target = Split(Ranked(order, Demand), Demand, Usable(lost))
          /\ allocated' = target
          /\ \A b \in Boxes : ~Throttles(target, b)
      BY <1>1, RaisedOnlyUnthrottled
  <2>2. TypeOK  BY <1>1 DEF InContact
  <2>3. /\ Targets(target) /\ Total(target) <= Usable(lost)
        /\ Usable(lost) \in Nat /\ available \in Nat /\ Usable(lost) <= available
      BY <2>1, <2>2, TargetsOf
  <2>4. target \in [Boxes -> Nat]  BY <2>3 DEF Targets
  <2>5. \A b \in Boxes : /\ allocated[b] \in Nat /\ current[b] \in Nat
                         /\ record[b].allowed \in Nat /\ target[b] \in Nat
      BY <2>2, <2>4 DEF TypeOK
  <2>6. ASSUME NEW b \in Boxes PROVE Max({current[b], allocated'[b]}) = target[b]
    <3>1. ~(target[b] < allocated[b]) /\ ~(target[b] < record[b].allowed)
        BY <2>1 DEF Throttles
    <3>2. unreported[b] = 0 \/ unheard[b] = 0 \/ current[b] <= record[b].allowed
        BY <1>1 DEF Contact
    <3>3. current[b] <= record[b].allowed \/ current[b] <= allocated[b]
        BY <1>1, <3>2 DEF InContact
    <3>4. current[b] <= target[b]  BY <2>5, <3>1, <3>3
    <3>5. target[b] \in {current[b], target[b]}
          /\ \A x \in {current[b], target[b]} : target[b] >= x
        BY <2>5, <3>4
    <3>6. \A x \in {current[b], target[b]} :
            (\A y \in {current[b], target[b]} : x >= y) => x = target[b]
        BY <2>5, <3>4
    <3>7. Max({current[b], target[b]}) = target[b]  BY <3>5, <3>6 DEF Max
    <3> QED  BY <2>1, <3>7
  <2>7. [b \in Boxes |-> Max({current[b], allocated'[b]})] = target
    <3>1. [b \in Boxes |-> Max({current[b], allocated'[b]})] = [b \in Boxes |-> target[b]]
        BY <2>6
    <3> QED  BY <2>4, <3>1
  <2>8. Total(target) \in Nat  BY <2>4, TotalIsANumber
  <2>9. Total(target) <= available  BY <2>3, <2>8
  <2> QED  BY <2>7, <2>9
<1>2. Init => InContact  BY InitInContact
<1>3. InContact /\ [Next]_vars => InContact'  BY StepInContact
<1>4. InContact /\ [Next]_vars =>
        [Raised /\ (\A b \in Boxes : Contact(b)) =>
           Total([b \in Boxes |-> Max({current[b], allocated'[b]})]) <= available]_vars
  BY <1>1
<1> QED  BY <1>2, <1>3, <1>4, PTL DEF Spec, RaiseFits
=============================================================================
