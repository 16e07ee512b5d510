------------------------ MODULE TaskSchedulerProofs ------------------------
(***************************************************************************)
(* The task scheduler is a queue of timers, for every number of jobs and   *)
(* every width of the clock.                                               *)
(*                                                                         *)
(* First the heap: what push_heap and pop_heap return is the same tasks in *)
(* another order, whatever compare answers; and as long as compare orders  *)
(* the tasks by the time they have left, the task with the least time is   *)
(* in front.  The recursive functions of the model are taken apart by      *)
(* induction on explicit sets of numbers: a set without a least            *)
(* counterexample is empty.                                                *)
(*                                                                         *)
(* Then deadlines that wrap: as long as every waiting task belongs to the  *)
(* half of the clock's range the clock is in, or to a later time, compare  *)
(* orders tasks by the real time they have left.  Tasks are scheduled so,  *)
(* and the clock keeps them so unless a task is late when a half of the    *)
(* range ends.                                                             *)
(***************************************************************************)
EXTENDS TaskScheduler, SequenceTheorems, FunctionTheorems, WellFoundedInduction, TLAPS

---------------------------------------------------------------------------
(* The heap.                                                               *)

LessThan == {p \in Nat \X Nat : p[1] < p[2]}

\* A set of natural numbers that is not empty has a least element.
LEMMA Least ==
  ASSUME NEW S \in SUBSET Nat, S # {}
  PROVE  \E i \in S : \A j \in S : i <= j
<1>1. IsWellFoundedOn(LessThan, Nat)  BY NatLessThanWellFounded DEF OpToRel, LessThan
<1>2. PICK i \in S : \A j \in S : ~ (<<j, i>> \in LessThan)  BY <1>1, WFMin
<1>3. \A j \in S : ~(j < i)  BY <1>2 DEF LessThan
<1> QED  BY <1>3

\* Half of a node number is the number of its parent.
LEMMA HalfOf ==
  ASSUME NEW i \in Nat
  PROVE  /\ i \div 2 \in Nat /\ i >= 2 * (i \div 2) /\ i <= 2 * (i \div 2) + 1
         /\ i >= 1 => i \div 2 < i
         /\ i >= 2 => i \div 2 >= 1
  OBVIOUS

LEMMA ChildOf ==
  ASSUME NEW i \in Nat
  PROVE  (2*i) \div 2 = i /\ (2*i + 1) \div 2 = i
  OBVIOUS

---------------------------------------------------------------------------
(* The way from a node up to the root.                                     *)

Up(hole, up) == up = [i \in 0..hole |-> IF i = 0 THEN {} ELSE {i} \cup up[i \div 2]]

LEMMA UpExists ==
  ASSUME NEW hole \in Nat
  PROVE  \E up : Up(hole, up)
<1> DEFINE Bad == {m \in Nat : ~\E up : Up(m, up)}
<1>1. SUFFICES ASSUME Bad # {} PROVE FALSE  OBVIOUS
<1>2. PICK m \in Bad : \A k \in Bad : m <= k  BY <1>1, Least
<1>3. CASE m = 0
  <2> DEFINE up == [i \in 0..0 |-> {}]
  <2>1. Up(0, up)  BY DEF Up
  <2> QED  BY <1>2, <1>3, <2>1
<1>4. CASE m # 0
  <2>1. m - 1 \in Nat /\ m - 1 \notin Bad  BY <1>2, <1>4
  <2>2. PICK up : Up(m - 1, up)  BY <2>1
  <2> DEFINE next == [i \in 0..m |-> IF i = m THEN {m} \cup up[m \div 2] ELSE up[i]]
  <2>3. ASSUME NEW i \in 0..m
        PROVE next[i] = IF i = 0 THEN {} ELSE {i} \cup next[i \div 2]
    <3>1. i # 0 => i \div 2 \in 0..m-1  BY HalfOf
    <3>2. i # m => i \in 0..m-1  OBVIOUS
    <3>3. CASE i = m  BY <1>4, <3>1, <3>3
    <3>4. CASE i # m
      <4>1. up[i] = IF i = 0 THEN {} ELSE {i} \cup up[i \div 2]  BY <2>2, <3>2, <3>4 DEF Up
      <4>2. next[i] = up[i]  BY <3>4
      <4>3. i # 0 => next[i \div 2] = up[i \div 2]  BY <3>1
      <4> QED  BY <4>1, <4>2, <4>3
    <3> QED  BY <3>3, <3>4
  <2> HIDE DEF next
  <2>4. next = [i \in 0..m |-> next[i]]  BY DEF next
  <2>5. Up(m, next)  BY <2>3, <2>4 DEF Up
  <2> QED  BY <1>2, <2>5
<1> QED  BY <1>3, <1>4

LEMMA AncestorsUp ==
  ASSUME NEW hole \in Nat
  PROVE  \E up : Up(hole, up) /\ Ancestors(hole) = up[hole]
<1> DEFINE up[i \in 0..hole] == IF i = 0 THEN {} ELSE {i} \cup up[i \div 2]
<1>1. Ancestors(hole) = up[hole]  BY DEF Ancestors
<1>2. Up(hole, up)  BY UpExists DEF Up
<1> QED  BY <1>1, <1>2

\* The equation of Ancestors.
LEMMA AncestorsAre ==
  /\ Ancestors(0) = {}
  /\ \A i \in Nat \ {0} : Ancestors(i) = {i} \cup Ancestors(i \div 2)
<1>1. ASSUME NEW n \in Nat, NEW m \in Nat, NEW up, NEW vp, Up(n, up), Up(m, vp)
      PROVE \A i \in Nat : i <= n /\ i <= m => up[i] = vp[i]
  <2> DEFINE Bad == {i \in Nat : i <= n /\ i <= m /\ up[i] # vp[i]}
  <2>1. SUFFICES ASSUME Bad # {} PROVE FALSE  OBVIOUS
  <2>2. PICK i \in Bad : \A k \in Bad : i <= k  BY <2>1, Least
  <2>3. /\ up[i] = IF i = 0 THEN {} ELSE {i} \cup up[i \div 2]
        /\ vp[i] = IF i = 0 THEN {} ELSE {i} \cup vp[i \div 2]
    <3>1. i \in 0..n /\ i \in 0..m  BY <2>2
    <3>2. up[i] = IF i = 0 THEN {} ELSE {i} \cup up[i \div 2]  BY <1>1, <3>1 DEF Up
    <3>3. vp[i] = IF i = 0 THEN {} ELSE {i} \cup vp[i \div 2]  BY <1>1, <3>1 DEF Up
    <3> QED  BY <3>2, <3>3
  <2>4. i # 0 => i \div 2 \in Nat /\ i \div 2 < i  BY <2>2, HalfOf
  <2>5. i # 0 => i \div 2 \notin Bad  BY <2>2, <2>4
  <2>6. i # 0 => up[i \div 2] = vp[i \div 2]  BY <2>2, <2>4, <2>5
  <2> QED  BY <2>2, <2>3, <2>6
<1>2. Ancestors(0) = {}
  <2>1. PICK up : Up(0, up) /\ Ancestors(0) = up[0]  BY AncestorsUp
  <2> QED  BY <2>1 DEF Up
<1>3. ASSUME NEW i \in Nat \ {0} PROVE Ancestors(i) = {i} \cup Ancestors(i \div 2)
  <2>1. PICK up : Up(i, up) /\ Ancestors(i) = up[i]  BY AncestorsUp
  <2>2. i \div 2 \in Nat /\ i \div 2 < i  BY HalfOf
  <2>3. PICK vp : Up(i \div 2, vp) /\ Ancestors(i \div 2) = vp[i \div 2]  BY <2>2, AncestorsUp
  <2>4. up[i \div 2] = vp[i \div 2]  BY <1>1, <2>1, <2>2, <2>3
  <2>5. up[i] = {i} \cup up[i \div 2]  BY <2>1 DEF Up
  <2> QED  BY <2>1, <2>3, <2>4, <2>5
<1> QED  BY <1>2, <1>3

\* The nodes of a way up are ancestors of each other.
Way(P, hole) ==
  /\ hole \in P /\ P \subseteq 1..hole
  /\ \A i \in P : i > 1 => i \div 2 \in P
  /\ \A i, j \in P : j < i => j <= i \div 2

LEMMA AncestorsAreAWay ==
  ASSUME NEW hole \in Nat \ {0}
  PROVE  Way(Ancestors(hole), hole)
<1> DEFINE Bad == {m \in Nat : m # 0 /\ ~Way(Ancestors(m), m)}
<1>1. SUFFICES ASSUME Bad # {} PROVE FALSE  OBVIOUS
<1>2. PICK m \in Bad : \A k \in Bad : m <= k  BY <1>1, Least
<1>3. Ancestors(m) = {m} \cup Ancestors(m \div 2)  BY <1>2, AncestorsAre
<1>4. CASE m = 1
  <2>1. Ancestors(m) = {1}  BY <1>3, <1>4, AncestorsAre
  <2> QED  BY <1>2, <1>4, <2>1 DEF Way
<1>5. CASE m > 1
  <2> DEFINE h == m \div 2
  <2>1. h \in Nat /\ h >= 1 /\ h < m  BY <1>5, HalfOf
  <2> HIDE DEF h
  <2>2. Way(Ancestors(h), h)  BY <1>2, <2>1
  <2>3. Ancestors(m) = {m} \cup Ancestors(h)  BY <1>3 DEF h
  <2>4. Ancestors(h) \subseteq 1..h  BY <2>2 DEF Way
  <2>5. m \in Ancestors(m) /\ Ancestors(m) \subseteq 1..m  BY <2>1, <2>3, <2>4
  <2>6. \A i \in Ancestors(m) : i > 1 => i \div 2 \in Ancestors(m)
    <3>1. h \in Ancestors(m)  BY <2>2, <2>3 DEF Way
    <3> QED  BY <2>2, <2>3, <3>1 DEF Way, h
  <2>7. ASSUME NEW i \in Ancestors(m), NEW j \in Ancestors(m), j < i PROVE j <= i \div 2
    <3>1. j # m  BY <2>5, <2>7
    <3>2. j \in Ancestors(h)  BY <2>3, <3>1
    <3>3. CASE i = m  BY <2>1, <2>4, <3>2, <3>3 DEF h
    <3>4. CASE i # m  BY <2>2, <2>3, <2>7, <3>2, <3>4 DEF Way
    <3> QED  BY <3>3, <3>4
  <2> QED  BY <1>2, <2>5, <2>6, <2>7 DEF Way
<1> QED  BY <1>2, <1>4, <1>5

\* Every node of the way but the last has one child on it.
LEMMA ChildOnWay ==
  ASSUME NEW hole \in Nat, NEW P, Way(P, hole), NEW j \in P, j # hole
  PROVE  \E c \in P : c > j /\ c > 1 /\ c \div 2 = j
<1> DEFINE Above == {c \in P : c > j}
<1>1. hole \in P /\ P \subseteq 1..hole  BY DEF Way
<1> HIDE DEF Above
<1>2. \E c \in Above : \A k \in Above : c <= k
  <2>1. 1..hole \subseteq Nat /\ Above \subseteq P  BY DEF Above
  <2>2. Above \subseteq Nat  BY <1>1, <2>1
  <2>3. j \in 1..hole  BY <1>1
  <2>4. hole \in Above  BY <1>1, <2>3 DEF Above
  <2> QED  BY <2>2, <2>4, Least
<1> USE DEF Above
<1>3. PICK c \in Above : \A k \in Above : c <= k  BY <1>2
<1>4. c \in Nat /\ j \in Nat /\ j >= 1 /\ c > j  BY <1>1, <1>3
<1>5. c \div 2 \in P /\ j <= c \div 2
  <2>1. c \in P /\ c > 1  BY <1>3, <1>4
  <2>2. c \div 2 \in P  BY <2>1 DEF Way
  <2>3. \A i, k \in P : k < i => k <= i \div 2  BY DEF Way
  <2> QED  BY <1>4, <2>1, <2>2, <2>3
<1>6. c \div 2 < c  BY <1>4, HalfOf
<1>7. c \div 2 \notin Above  BY <1>3, <1>4, <1>6, HalfOf
<1>8. c \div 2 = j  BY <1>4, <1>5, <1>7, HalfOf
<1> QED  BY <1>3, <1>4, <1>8

LEMMA OneChildOnWay ==
  ASSUME NEW hole \in Nat, NEW P, Way(P, hole), NEW c \in P, NEW d \in P,
         c > 1, d > 1, c \div 2 = d \div 2
  PROVE  c = d
<1>1. c \in Nat /\ d \in Nat  BY DEF Way
<1>2. c < d => c <= c \div 2  BY <1>1 DEF Way
<1>3. d < c => d <= d \div 2  BY <1>1 DEF Way
<1> QED  BY <1>1, <1>2, <1>3, HalfOf

---------------------------------------------------------------------------
(* The same tasks in another order.                                        *)

\* s takes the places of r one to one to the places of q.
Rearranges(s, r, q) ==
  /\ s \in [1..Len(q) -> 1..Len(q)]
  /\ \A i, k \in 1..Len(q) : s[i] = s[k] => i = k
  /\ \A k \in 1..Len(q) : \E i \in 1..Len(q) : s[i] = k
  /\ \A i \in 1..Len(q) : r[i] = q[s[i]]

Rearranged(r, q) == Len(r) = Len(q) /\ \E s : Rearranges(s, r, q)

LEMMA RearrangedIsTransitive ==
  ASSUME NEW p, NEW q, NEW r, Rearranged(p, q), Rearranged(q, r)
  PROVE  Rearranged(p, r)
<1> DEFINE n == Len(r)
<1>1. Len(q) = n /\ Len(p) = n  BY DEF Rearranged
<1>2. PICK s : Rearranges(s, p, q)  BY DEF Rearranged
<1>3. PICK t : Rearranges(t, q, r)  BY DEF Rearranged
<1> HIDE DEF n
<1> DEFINE u == [i \in 1..n |-> t[s[i]]]
<1>4. /\ s \in [1..n -> 1..n]
      /\ \A i, k \in 1..n : s[i] = s[k] => i = k
      /\ \A k \in 1..n : \E i \in 1..n : s[i] = k
      /\ \A i \in 1..n : p[i] = q[s[i]]
  BY <1>1, <1>2 DEF Rearranges
<1>5. /\ t \in [1..n -> 1..n]
      /\ \A i, k \in 1..n : t[i] = t[k] => i = k
      /\ \A k \in 1..n : \E i \in 1..n : t[i] = k
      /\ \A i \in 1..n : q[i] = r[t[i]]
  BY <1>3 DEF Rearranges, n
<1>6. u \in [1..n -> 1..n]  BY <1>4, <1>5
<1>7. \A i, k \in 1..n : u[i] = u[k] => i = k  BY <1>4, <1>5
<1>8. ASSUME NEW k \in 1..n PROVE \E i \in 1..n : u[i] = k
  <2>1. PICK j \in 1..n : t[j] = k  BY <1>5
  <2>2. PICK i \in 1..n : s[i] = j  BY <1>4
  <2> QED  BY <2>1, <2>2
<1>9. \A i \in 1..n : p[i] = r[u[i]]  BY <1>4, <1>5
<1> HIDE DEF u
<1>10. Rearranges(u, p, r)  BY <1>6, <1>7, <1>8, <1>9 DEF Rearranges, n
<1> QED  BY <1>1, <1>10 DEF Rearranged, n

\* What a rearrangement keeps: the tasks, and that no job is there twice.
OneEach(q) == \A i, k \in DOMAIN q : q[i].job = q[k].job => i = k

Held(q) == {q[i] : i \in DOMAIN q}

LEMMA RearrangedKeeps ==
  ASSUME NEW S, NEW q \in Seq(S), NEW r, r = [i \in 1..Len(q) |-> r[i]], Rearranged(r, q)
  PROVE  /\ r \in Seq(S)
         /\ Held(r) = Held(q)
         /\ OneEach(q) => OneEach(r)
<1> DEFINE n == Len(q)
<1>1. n \in Nat /\ DOMAIN q = 1..n /\ DOMAIN r = 1..n /\ \A i \in 1..n : q[i] \in S
  BY LenProperties, ElementOfSeq
<1>2. PICK s : Rearranges(s, r, q)  BY DEF Rearranged
<1>3. /\ s \in [1..n -> 1..n]
      /\ \A i, k \in 1..n : s[i] = s[k] => i = k
      /\ \A k \in 1..n : \E i \in 1..n : s[i] = k
      /\ \A i \in 1..n : r[i] = q[s[i]]
  BY <1>2 DEF Rearranges
<1> HIDE DEF n
<1>4. r \in Seq(S)
  <2>1. \A i \in 1..n : r[i] \in S  BY <1>1, <1>3
  <2>2. r = [i \in 1..n |-> r[i]]  BY DEF n
  <2> QED  BY <1>1, <2>1, <2>2, IsASeq
<1>5. Held(r) = Held(q)
  <2>1. ASSUME NEW i \in 1..n PROVE \E k \in 1..n : r[i] = q[k]
    <3>1. s[i] \in 1..n /\ r[i] = q[s[i]]  BY <1>3
    <3> QED  BY <3>1
  <2>2. ASSUME NEW k \in 1..n PROVE \E i \in 1..n : r[i] = q[k]
    <3>1. PICK i \in 1..n : s[i] = k  BY <1>3
    <3> QED  BY <1>3, <3>1
  <2> QED  BY <1>1, <2>1, <2>2 DEF Held
<1>6. ASSUME OneEach(q) PROVE OneEach(r)
  <2>1. SUFFICES ASSUME NEW i \in 1..n, NEW k \in 1..n, r[i].job = r[k].job PROVE i = k
    BY <1>1 DEF OneEach
  <2>2. s[i] \in 1..n /\ s[k] \in 1..n /\ r[i] = q[s[i]] /\ r[k] = q[s[k]]  BY <1>3
  <2>3. q[s[i]].job = q[s[k]].job  BY <2>1, <2>2
  <2>4. s[i] = s[k]  BY <1>1, <1>6, <2>2, <2>3 DEF OneEach
  <2> QED  BY <1>3, <2>4
<1> QED  BY <1>4, <1>5, <1>6

---------------------------------------------------------------------------
(* Following pointers from node to node, up or down.                       *)

Follow(D, go, next, f) == f = [i \in D |-> IF i \in go THEN f[next[i]] ELSE i]

LEMMA FollowExists ==
  ASSUME NEW n \in Nat, NEW go, NEW next, NEW rank \in [1..n -> 0..n],
         \A i \in 1..n : i \in go => next[i] \in 1..n /\ rank[next[i]] < rank[i]
  PROVE  \E f : Follow(1..n, go, next, f)
<1> DEFINE Below(m) == {j \in 1..n : rank[j] < m}
           Bad == {m \in Nat : ~\E f : Follow(Below(m), go, next, f)}
<1>1. \A j \in 1..n : rank[j] \in 0..n  OBVIOUS
<1>2. Bad = {}
  <2>1. SUFFICES ASSUME Bad # {} PROVE FALSE  OBVIOUS
  <2>2. PICK m \in Bad : \A k \in Bad : m <= k  BY <2>1, Least
  <2>3. CASE m = 0
    <3>1. \A j \in 1..n : ~(rank[j] < 0)  BY <1>1
    <3>2. Below(0) = {}  BY <3>1
    <3>3. Follow(Below(0), go, next, [i \in {} |-> i])  BY <3>2 DEF Follow
    <3> QED  BY <2>2, <2>3, <3>3
  <2>4. CASE m # 0
    <3>1. m - 1 \in Nat /\ m - 1 \notin Bad
      <4>1. m \in Nat  BY <2>2
      <4>2. m - 1 \in Nat /\ ~(m <= m - 1)  BY <2>4, <4>1
      <4> HIDE DEF Bad
      <4> QED  BY <2>2, <4>2
    <3>2. PICK f : Follow(Below(m - 1), go, next, f)  BY <3>1
    <3> DEFINE g == [i \in Below(m) |-> IF rank[i] = m - 1
                                        THEN IF i \in go THEN f[next[i]] ELSE i
                                        ELSE f[i]]
    <3>3. ASSUME NEW i \in Below(m) PROVE g[i] = IF i \in go THEN g[next[i]] ELSE i
      <4>1. i \in 1..n /\ rank[i] \in 0..n /\ rank[i] < m  BY <1>1
      <4>2. i \in go => next[i] \in 1..n /\ rank[next[i]] \in 0..n /\ rank[next[i]] < m - 1
          BY <1>1, <3>1, <4>1
      <4>3. i \in go => next[i] \in Below(m) /\ g[next[i]] = f[next[i]]  BY <3>1, <4>2
      <4>4. CASE rank[i] = m - 1  BY <4>3, <4>4
      <4>5. CASE rank[i] # m - 1
        <5>1. i \in Below(m - 1)  BY <3>1, <4>1, <4>5
        <5>2. f[i] = IF i \in go THEN f[next[i]] ELSE i  BY <3>2, <5>1 DEF Follow
        <5>3. g[i] = f[i]  BY <4>5
        <5> QED  BY <4>3, <5>2, <5>3
      <4> QED  BY <4>4, <4>5
    <3> HIDE DEF g
    <3>4. g = [i \in Below(m) |-> g[i]]  BY DEF g
    <3>5. Follow(Below(m), go, next, g)  BY <3>3, <3>4 DEF Follow
    <3> QED  BY <2>2, <3>5
  <2> QED  BY <2>3, <2>4
<1>3. Below(n + 1) = 1..n  BY <1>1
<1>4. n + 1 \notin Bad  BY <1>2
<1> QED  BY <1>3, <1>4

---------------------------------------------------------------------------
(* A task that rises (the last step of push_heap and of pop_heap).         *)

Rising(heap, t, hole, rise) ==
  rise = [i \in 1..hole |->
            IF i > 1 /\ Compare(heap[i \div 2], t) THEN rise[i \div 2] ELSE i]

LEMMA RiseExists ==
  ASSUME NEW heap, NEW t, NEW hole \in Nat
  PROVE  \E rise : Rising(heap, t, hole, rise)
<1> DEFINE go   == {i \in 1..hole : i > 1 /\ Compare(heap[i \div 2], t)}
           next == [i \in 1..hole |-> i \div 2]
           rank == [i \in 1..hole |-> i]
<1>1. rank \in [1..hole -> 0..hole]  OBVIOUS
<1>2. \A i \in 1..hole : i \in go => next[i] \in 1..hole /\ rank[next[i]] < rank[i]
  <2>1. ASSUME NEW i \in 1..hole, i \in go PROVE next[i] \in 1..hole /\ rank[next[i]] < rank[i]
    <3>1. i > 1 /\ i \div 2 \in 1..hole /\ i \div 2 < i  BY <2>1, HalfOf
    <3> QED  BY <3>1
  <2> QED  BY <2>1
<1>3. \A i \in 1..hole : i \in go <=> i > 1 /\ Compare(heap[i \div 2], t)  OBVIOUS
<1>4. \A i \in 1..hole : next[i] = i \div 2  OBVIOUS
<1> HIDE DEF go, next, rank
<1>5. PICK rise : Follow(1..hole, go, next, rise)  BY <1>1, <1>2, FollowExists
<1>6. rise = [i \in 1..hole |-> IF i \in go THEN rise[next[i]] ELSE i]  BY <1>5 DEF Follow
<1>7. Rising(heap, t, hole, rise)  BY <1>3, <1>4, <1>6 DEF Rising
<1> QED  BY <1>7

\* The place t rises to, from hole, on the way up.
Place(heap, t, hole, place) ==
  /\ place \in Ancestors(hole)
  /\ \A i \in Ancestors(hole) : i > place => Compare(heap[i \div 2], t)
  /\ place > 1 => ~Compare(heap[place \div 2], t)

LEMMA RiseToPlace ==
  ASSUME NEW heap, NEW t, NEW hole \in Nat \ {0}, NEW rise, Rising(heap, t, hole, rise)
  PROVE  Place(heap, t, hole, rise[hole])
<1> DEFINE Bad == {m \in Nat : m \in 1..hole /\ ~Place(heap, t, m, rise[m])}
<1>1. SUFFICES ASSUME Bad # {} PROVE FALSE  OBVIOUS
<1>2. PICK m \in Bad : \A k \in Bad : m <= k  BY <1>1, Least
<1>3. m \in 1..hole /\ m \in Nat \ {0}  BY <1>2
<1>4. rise[m] = IF m > 1 /\ Compare(heap[m \div 2], t) THEN rise[m \div 2] ELSE m
  BY <1>3 DEF Rising
<1>5. Ancestors(m) = {m} \cup Ancestors(m \div 2)  BY <1>3, AncestorsAre
<1>6. Way(Ancestors(m), m)  BY <1>3, AncestorsAreAWay
<1>7. \A i \in Ancestors(m) : i \in 1..m  BY <1>6 DEF Way
<1>8. CASE m > 1 /\ Compare(heap[m \div 2], t)
  <2> DEFINE h == m \div 2
  <2>1. h \in Nat /\ h >= 1 /\ h < m  BY <1>3, <1>8, HalfOf
  <2>2. Place(heap, t, h, rise[h])
    <3>1. h \notin Bad  BY <1>2, <2>1
    <3>2. h \in 1..hole  BY <1>3, <2>1
    <3> QED  BY <2>1, <3>1, <3>2
  <2>3. rise[m] = rise[h]  BY <1>4, <1>8
  <2>4. Place(heap, t, m, rise[m])  BY <1>5, <1>8, <2>2, <2>3 DEF Place
  <2> QED  BY <1>2, <2>4
<1>9. CASE ~(m > 1 /\ Compare(heap[m \div 2], t))
  <2>1. rise[m] = m  BY <1>4, <1>9
  <2>2. m \in Ancestors(m)  BY <1>5
  <2>3. \A i \in Ancestors(m) : ~(i > m)  BY <1>3, <1>7
  <2>4. Place(heap, t, m, m)  BY <1>9, <2>2, <2>3 DEF Place
  <2> QED  BY <1>2, <2>1, <2>4
<1> QED  BY <1>8, <1>9

\* What SiftUp returns, with the place t has risen to.
Risen(heap, hole, t, place) ==
  [i \in DOMAIN heap |->
     IF i = place THEN t
     ELSE IF i > place /\ i \in Ancestors(hole) THEN heap[i \div 2] ELSE heap[i]]

LEMMA SiftUpRises ==
  ASSUME NEW heap, NEW t, NEW hole \in Nat \ {0}
  PROVE  \E place : Place(heap, t, hole, place) /\ SiftUp(heap, hole, t) = Risen(heap, hole, t, place)
<1> DEFINE rise[i \in 1..hole] ==
             IF i > 1 /\ Compare(heap[i \div 2], t) THEN rise[i \div 2] ELSE i
<1>1. SiftUp(heap, hole, t) = Risen(heap, hole, t, rise[hole])  BY DEF SiftUp, Risen
<1>2. Rising(heap, t, hole, rise)
  <2>1. \E r : Rising(heap, t, hole, r)  BY RiseExists
  <2>2. \E r : r = [i \in 1..hole |->
                    IF i > 1 /\ Compare(heap[i \div 2], t) THEN r[i \div 2] ELSE i]
    BY <2>1, Zenon DEF Rising
  <2> QED  BY <2>2, Zenon DEF Rising
<1> HIDE DEF rise
<1>3. Place(heap, t, hole, rise[hole])  BY <1>2, RiseToPlace
<1> QED  BY <1>1, <1>3

\* r holds the tasks of heap in another order, with t for the one in the hole.
SiftedUp(r, heap, n, t, hole) ==
  /\ r = [i \in 1..n |-> r[i]]
  /\ \E s : /\ s \in [1..n -> 1..n]
            /\ \A i, k \in 1..n : s[i] = s[k] => i = k
            /\ \A k \in 1..n : \E i \in 1..n : s[i] = k
            /\ \A i \in 1..n : r[i] = IF s[i] = hole THEN t ELSE heap[s[i]]

\* t takes the hole; whatever compare answers, no other task gets lost.
LEMMA SiftUpRearranges ==
  ASSUME NEW heap, NEW n \in Nat, Len(heap) = n, DOMAIN heap = 1..n, NEW t, NEW hole \in 1..n
  PROVE  SiftedUp(SiftUp(heap, hole, t), heap, n, t, hole)
<1> DEFINE r == SiftUp(heap, hole, t)
           P == Ancestors(hole)
<1>1. PICK place : Place(heap, t, hole, place) /\ r = Risen(heap, hole, t, place)
  BY SiftUpRises
<1>2. Way(P, hole)  BY AncestorsAreAWay
<1>3. hole \in P /\ P \subseteq 1..hole /\ place \in P  BY <1>1, <1>2 DEF Way, Place
<1>4. /\ \A i \in P : i > 1 => i \div 2 \in P
      /\ \A i, j \in P : j < i => j <= i \div 2
  BY <1>2 DEF Way
<1>5. \A i \in 1..n : r[i] = IF i = place THEN t
                             ELSE IF i > place /\ i \in P THEN heap[i \div 2] ELSE heap[i]
  BY <1>1 DEF Risen
<1>6. r = [i \in 1..n |-> r[i]]  BY <1>1 DEF Risen
<1> HIDE DEF r, P
<1> DEFINE s == [i \in 1..n |-> IF i = place THEN hole
                               ELSE IF i > place /\ i \in P THEN i \div 2 ELSE i]
<1>7. place \in 1..hole /\ \A i \in P : i \in 1..hole  BY <1>3
<1>8. ASSUME NEW i \in 1..n, i > place
      PROVE  i > 1 /\ i \div 2 \in 1..n /\ i \div 2 < i
  BY <1>7, <1>8, HalfOf
<1>9. s \in [1..n -> 1..n]  BY <1>8
<1>10. ASSUME NEW i \in 1..n, i > place, i \in P
       PROVE  i \div 2 \in P /\ place <= i \div 2 /\ i \div 2 < hole
  <2>1. i \div 2 \in P /\ place <= i \div 2  BY <1>3, <1>4, <1>8, <1>10
  <2> QED  BY <1>7, <1>8, <1>10, <2>1
<1>11. ASSUME NEW i \in 1..n, NEW k \in 1..n, s[i] = s[k], i # k PROVE FALSE
  <2>1. ASSUME NEW a \in 1..n, NEW b \in 1..n, s[a] = s[b], a > place, a \in P, a # b
        PROVE  FALSE
    <3>1. s[a] = a \div 2 /\ a \div 2 \in P /\ place <= a \div 2 /\ a \div 2 < hole
      BY <1>10, <2>1
    <3>2. b # place  BY <2>1, <3>1
    <3>3. CASE b > place /\ b \in P
      <4>1. b \div 2 = a \div 2 /\ a > 1 /\ b > 1  BY <1>8, <2>1, <3>1, <3>3
      <4> QED  BY <1>2, <2>1, <3>3, <4>1, OneChildOnWay
    <3>4. CASE ~(b > place /\ b \in P)
      <4>1. s[b] = b  BY <3>2, <3>4
      <4>2. b \in P /\ place <= b  BY <2>1, <3>1, <4>1
      <4>3. b > place  BY <1>7, <3>2, <4>2
      <4> QED  BY <3>4, <4>2, <4>3
    <3> QED  BY <3>3, <3>4
  <2>2. CASE (i > place /\ i \in P) \/ (k > place /\ k \in P)  BY <1>11, <2>1, <2>2
  <2>3. CASE ~(i > place /\ i \in P) /\ ~(k > place /\ k \in P)
    <3>1. s[i] = (IF i = place THEN hole ELSE i) /\ s[k] = IF k = place THEN hole ELSE k
      BY <2>3
    <3>2. place = hole \/ hole > place  BY <1>7
    <3> QED  BY <1>3, <1>11, <2>3, <3>1, <3>2
  <2> QED  BY <2>2, <2>3
<1>12. ASSUME NEW k \in 1..n PROVE \E i \in 1..n : s[i] = k
  <2>1. CASE k = hole
    <3>1. place \in 1..n /\ s[place] = hole  BY <1>7
    <3> QED  BY <2>1, <3>1
  <2>2. CASE k # hole /\ k \in P /\ k >= place
    <3>0. hole \in Nat /\ k \in P /\ k # hole  BY <2>2
    <3>1. PICK c \in P : c > k /\ c > 1 /\ c \div 2 = k  BY <1>2, <3>0, ChildOnWay
    <3>2. c \in 1..hole  BY <1>7, <3>1
    <3>3. c \in 1..n /\ c > place  BY <1>7, <2>2, <3>1, <3>2
    <3>4. s[c] = k  BY <3>1, <3>3
    <3> QED  BY <3>3, <3>4
  <2>3. CASE k # hole /\ ~(k \in P /\ k >= place)
    <3>1. k # place /\ ~(k > place /\ k \in P)  BY <1>3, <1>7, <2>3
    <3>2. s[k] = k  BY <3>1
    <3> QED  BY <3>2
  <2> QED  BY <2>1, <2>2, <2>3
<1>13. ASSUME NEW i \in 1..n PROVE r[i] = IF s[i] = hole THEN t ELSE heap[s[i]]
  <2>1. CASE i = place  BY <1>5, <2>1
  <2>2. CASE i # place /\ i > place /\ i \in P
    <3>1. s[i] = i \div 2 /\ s[i] # hole  BY <1>10, <2>2
    <3>2. r[i] = heap[i \div 2]  BY <1>5, <2>2
    <3> QED  BY <3>1, <3>2
  <2>3. CASE i # place /\ ~(i > place /\ i \in P)
    <3>1. s[i] = i  BY <2>3
    <3>2. r[i] = heap[i]  BY <1>5, <2>3
    <3>3. i # hole  BY <1>3, <1>7, <2>3
    <3> QED  BY <3>1, <3>2, <3>3
  <2> QED  BY <2>1, <2>2, <2>3
<1> HIDE DEF s
<1>14. \A i, k \in 1..n : s[i] = s[k] => i = k  BY <1>11
<1> QED  BY <1>6, <1>9, <1>12, <1>13, <1>14 DEF r, SiftedUp

---------------------------------------------------------------------------
(* The order of the heap.                                                  *)

\* compare orders the tasks of S by the time they have left.
ByTime(S) == \A a, b \in S :
  TimeLeft(a) \in Int /\ (Compare(a, b) <=> TimeLeft(a) >= TimeLeft(b))

\* No task has less time left than its parent; the one in the hole may.
OrderedBut(heap, hole) == \A i \in 2..Len(heap) :
  i # hole => TimeLeft(heap[i \div 2]) <= TimeLeft(heap[i])

Ordered(heap) == OrderedBut(heap, 0)

\* The hole is a leaf: the task that goes in there has no children.
LEMMA SiftUpOrders ==
  ASSUME NEW S, ByTime(S), NEW heap \in Seq(S), NEW t \in S,
         NEW hole \in 1..Len(heap), 2 * hole > Len(heap), OrderedBut(heap, hole)
  PROVE  \A i \in 2..Len(heap) : TimeLeft(SiftUp(heap, hole, t)[i \div 2])
                              <= TimeLeft(SiftUp(heap, hole, t)[i])
<1> DEFINE n == Len(heap)
           r == SiftUp(heap, hole, t)
           P == Ancestors(hole)
<1>1. n \in Nat /\ DOMAIN heap = 1..n /\ \A i \in 1..n : heap[i] \in S
  BY LenProperties, ElementOfSeq
<1>2. hole \in 1..n /\ 2 * hole > n /\ hole \in Nat \ {0}  BY <1>1
<1>3. \A i \in 2..n : i # hole => TimeLeft(heap[i \div 2]) <= TimeLeft(heap[i])
  BY DEF OrderedBut
<1> HIDE DEF n
<1>4. PICK place : Place(heap, t, hole, place) /\ r = Risen(heap, hole, t, place)
  BY <1>2, SiftUpRises
<1>5. Way(P, hole)  BY <1>2, AncestorsAreAWay
<1>6. hole \in P /\ P \subseteq 1..hole /\ place \in P  BY <1>4, <1>5 DEF Way, Place
<1>7. /\ \A i \in P : i > 1 => i \div 2 \in P
      /\ \A i, j \in P : j < i => j <= i \div 2
  BY <1>5 DEF Way
<1>8. /\ \A i \in P : i > place => Compare(heap[i \div 2], t)
      /\ place > 1 => ~Compare(heap[place \div 2], t)
  BY <1>4 DEF Place
<1>9. \A i \in 1..n : r[i] = IF i = place THEN t
                             ELSE IF i > place /\ i \in P THEN heap[i \div 2] ELSE heap[i]
  BY <1>1, <1>4 DEF Risen
<1> HIDE DEF r, P
<1> DEFINE L(i) == TimeLeft(heap[i])
<1>10. \A i \in 1..n : L(i) \in Int /\ (Compare(heap[i], t) <=> L(i) >= TimeLeft(t))
  BY <1>1 DEF ByTime
<1>11. TimeLeft(t) \in Int  BY DEF ByTime
<1>12. \A i \in 2..n : i # hole => L(i \div 2) <= L(i)  BY <1>3
<1> HIDE DEF L
<1>13. place \in 1..hole /\ \A i \in P : i \in 1..hole  BY <1>6
<1>14. ASSUME NEW i \in 2..n PROVE TimeLeft(r[i \div 2]) <= TimeLeft(r[i])
  <2> DEFINE p == i \div 2
  <2>1. p \in 1..n /\ p >= 1 /\ p < i /\ i \in 1..n
    <3>1. i \in Nat /\ i >= 2 /\ i <= n  BY <1>1
    <3> QED  BY <1>1, <3>1, HalfOf
  <2>2. p # hole
    <3>1. i \in Nat /\ i <= n  BY <1>1
    <3> QED  BY <1>1, <1>2, <3>1, HalfOf
  <2>3. TimeLeft(r[i]) = IF i = place THEN TimeLeft(t) ELSE IF i > place /\ i \in P THEN L(p) ELSE L(i)
    BY <1>9 DEF L
  <2>4. TimeLeft(r[p]) = IF p = place THEN TimeLeft(t)
                         ELSE IF p > place /\ p \in P THEN L(p \div 2) ELSE L(p)
    BY <1>9, <2>1 DEF L
  <2>5. L(p) \in Int /\ L(i) \in Int  BY <1>10, <2>1
  <2>6. i # hole => L(p) <= L(i)  BY <1>12
  <2>7. i \in P => p \in P  BY <1>7
  <2>8. p > place /\ p \in P => L(p \div 2) \in Int /\ L(p \div 2) <= L(p)
    <3>1. ASSUME p > place, p \in P PROVE L(p \div 2) \in Int /\ L(p \div 2) <= L(p)
      <4>1. p \in Nat /\ p >= 2 /\ p <= n  BY <1>1, <1>13, <2>1, <3>1
      <4>2. p \in 2..n /\ p \div 2 \in 1..n  BY <1>1, <4>1, HalfOf
      <4> QED  BY <1>10, <1>12, <2>2, <4>2
    <3> QED  BY <3>1
  <2>9. i \in P /\ i > place => L(p) >= TimeLeft(t)
    BY <1>8, <1>10, <2>1 DEF L
  <2>10. i = place => L(p) < TimeLeft(t)
    <3>1. ASSUME i = place PROVE L(p) < TimeLeft(t)
      <4>1. ~Compare(heap[p], t)  BY <1>8, <3>1
      <4> QED  BY <1>10, <1>11, <2>1, <2>5, <4>1
    <3> QED  BY <3>1
  <2>11. place < hole => L(place) >= TimeLeft(t)
    <3>1. ASSUME place < hole PROVE L(place) >= TimeLeft(t)
      <4>1. hole \in Nat /\ place \in P /\ place # hole  BY <1>2, <1>6, <1>13, <3>1
      <4>2. PICK c \in P : c > place /\ c > 1 /\ c \div 2 = place  BY <1>5, <4>1, ChildOnWay
      <4>3. Compare(heap[place], t)  BY <1>8, <4>2
      <4>4. place \in 1..n  BY <1>1, <1>2, <1>13
      <4> QED  BY <1>10, <4>3, <4>4
    <3> QED  BY <3>1
  <2> SUFFICES TimeLeft(r[p]) <= TimeLeft(r[i])  OBVIOUS
  <2> HIDE DEF p
  <2>12. CASE i \in P
    <3>1. CASE i < place
      <4>1. TimeLeft(r[i]) = L(i) /\ TimeLeft(r[p]) = L(p)  BY <1>13, <2>1, <2>3, <2>4, <3>1
      <4>2. i # hole  BY <1>13, <3>1
      <4> QED  BY <2>6, <4>1, <4>2
    <3>2. CASE i = place
      <4>1. TimeLeft(r[i]) = TimeLeft(t) /\ TimeLeft(r[p]) = L(p)
        BY <1>13, <2>1, <2>3, <2>4, <3>2
      <4> QED  BY <1>11, <2>5, <2>10, <3>2, <4>1
    <3>3. CASE i > place
      <4>1. TimeLeft(r[i]) = L(p)  BY <1>13, <2>3, <2>12, <3>3
      <4>2. CASE p = place  BY <1>11, <2>4, <2>5, <2>9, <2>12, <3>3, <4>1, <4>2
      <4>3. CASE p # place
        <5>1. place <= p  BY <1>6, <1>7, <2>12, <3>3 DEF p
        <5>2. p > place /\ p \in P  BY <1>13, <2>1, <2>7, <2>12, <4>3, <5>1
        <5>3. TimeLeft(r[p]) = L(p \div 2)  BY <2>4, <4>3, <5>2
        <5> QED  BY <2>8, <4>1, <5>2, <5>3
      <4> QED  BY <4>2, <4>3
    <3> QED  BY <1>13, <3>1, <3>2, <3>3
  <2>13. CASE i \notin P
    <3>1. i # hole /\ i # place  BY <1>6, <2>13
    <3>2. TimeLeft(r[i]) = L(i)  BY <2>3, <2>13, <3>1
    <3>3. CASE p = place
      <4>1. place < hole  BY <1>13, <2>2, <3>3
      <4> QED  BY <1>11, <2>4, <2>5, <2>6, <2>11, <3>1, <3>2, <3>3, <4>1
    <3>4. CASE p # place /\ p > place /\ p \in P
      <4>1. TimeLeft(r[p]) = L(p \div 2)  BY <2>4, <3>4
      <4> QED  BY <2>5, <2>6, <2>8, <3>1, <3>2, <3>4, <4>1
    <3>5. CASE p # place /\ ~(p > place /\ p \in P)
      <4>1. TimeLeft(r[p]) = L(p)  BY <2>4, <3>5
      <4> QED  BY <2>6, <3>1, <3>2, <4>1
    <3> QED  BY <3>3, <3>4, <3>5
  <2> QED  BY <2>12, <2>13
<1> QED  BY <1>14 DEF n, r

---------------------------------------------------------------------------
(* The hole that pop_heap leaves at the root sinks to a leaf.              *)

LEMMA FirstChildIsChild ==
  ASSUME NEW heap, Len(heap) \in Nat, NEW i \in Nat \ {0}, 2*i < Len(heap)
  PROVE  /\ FirstChild(heap, i) \in 1..(Len(heap) - 1)
         /\ FirstChild(heap, i) > i /\ FirstChild(heap, i) > 1
         /\ FirstChild(heap, i) \div 2 = i
<1>1. FirstChild(heap, i) \in {2*i, 2*i + 1} /\ FirstChild(heap, i) < Len(heap)
  BY DEF FirstChild
<1>2. (2*i) \div 2 = i /\ (2*i + 1) \div 2 = i  BY ChildOf
<1> QED  BY <1>1, <1>2

Sinking(heap, last, sink) ==
  sink = [i \in 1..last |-> IF 2*i < last THEN sink[FirstChild(heap, i)] ELSE i]

LEMMA SinkExists ==
  ASSUME NEW heap, NEW last \in Nat, Len(heap) = last
  PROVE  \E sink : Sinking(heap, last, sink)
<1> DEFINE go   == {i \in 1..last : 2*i < last}
           next == [i \in 1..last |-> FirstChild(heap, i)]
           rank == [i \in 1..last |-> last - i]
<1>1. rank \in [1..last -> 0..last]  OBVIOUS
<1>2. ASSUME NEW i \in 1..last, i \in go PROVE next[i] \in 1..last /\ rank[next[i]] < rank[i]
  <2>1. i \in Nat \ {0} /\ 2*i < last  BY <1>2
  <2>2. FirstChild(heap, i) \in 1..(last - 1) /\ FirstChild(heap, i) > i
    BY <2>1, FirstChildIsChild
  <2>3. FirstChild(heap, i) \in 1..last  BY <2>2
  <2>4. next[i] = FirstChild(heap, i)  OBVIOUS
  <2>5. rank[next[i]] = last - next[i] /\ rank[i] = last - i  BY <2>3, <2>4
  <2> QED  BY <2>2, <2>3, <2>4, <2>5
<1>3. \A i \in 1..last : i \in go <=> 2*i < last  OBVIOUS
<1>4. \A i \in 1..last : next[i] = FirstChild(heap, i)  OBVIOUS
<1> HIDE DEF go, next, rank
<1>5. PICK sink : Follow(1..last, go, next, sink)  BY <1>1, <1>2, FollowExists
<1>6. sink = [i \in 1..last |-> IF i \in go THEN sink[next[i]] ELSE i]  BY <1>5 DEF Follow
<1>7. Sinking(heap, last, sink)  BY <1>3, <1>4, <1>6 DEF Sinking
<1> QED  BY <1>7

\* The leaf the hole at m sinks to, along the first children.
Leaf(heap, m, leaf) ==
  /\ leaf \in m..(Len(heap) - 1) /\ 2 * leaf >= Len(heap)
  /\ m \in Ancestors(leaf)
  /\ \A j \in Ancestors(leaf) :
       j >= m /\ j # leaf => 2*j < Len(heap) /\ FirstChild(heap, j) \in Ancestors(leaf)

LEMMA SinkToLeaf ==
  ASSUME NEW heap, NEW last \in Nat, Len(heap) = last, last > 1,
         NEW sink, Sinking(heap, last, sink)
  PROVE  Leaf(heap, 1, sink[1])
<1> DEFINE Bad == {k \in Nat : k < last - 1 /\ ~Leaf(heap, last - 1 - k, sink[last - 1 - k])}
<1>1. Bad = {}
  <2>1. SUFFICES ASSUME Bad # {} PROVE FALSE  OBVIOUS
  <2>2. PICK k \in Bad : \A h \in Bad : k <= h  BY <2>1, Least
  <2> DEFINE m == last - 1 - k
  <2>3. m \in 1..(last - 1) /\ k = last - 1 - m  BY <2>2
  <2>4. ~Leaf(heap, m, sink[m])  BY <2>2
  <2>5. \A h \in Nat : h < k => h \notin Bad
    <3>1. k \in Nat  BY <2>2
    <3> HIDE DEF Bad
    <3> QED  BY <2>2, <3>1
  <2> HIDE DEF m
  <2>6. sink[m] = IF 2*m < last THEN sink[FirstChild(heap, m)] ELSE m
    <3>1. m \in 1..last  BY <2>3
    <3> QED  BY <3>1 DEF Sinking
  <2>7. m \in Nat \ {0}  BY <2>3
  <2>8. CASE 2*m < last
    <3> DEFINE c == FirstChild(heap, m)
               s == sink[c]
    <3>1. c \in 1..(last - 1) /\ c > m /\ c > 1 /\ c \div 2 = m
      BY <2>7, <2>8, FirstChildIsChild
    <3> HIDE DEF c
    <3>2. Leaf(heap, c, s)
      <4>1. last - 1 - c \in Nat /\ last - 1 - c < k  BY <2>3, <3>1
      <4>2. last - 1 - (last - 1 - c) = c /\ last - 1 - c < last - 1  BY <3>1
      <4>3. last - 1 - c \notin Bad  BY <2>5, <4>1
      <4> QED  BY <4>1, <4>2, <4>3
    <3>3. sink[m] = s  BY <2>6, <2>8 DEF c
    <3> HIDE DEF s
    <3>4. s \in c..(last - 1) /\ 2*s >= last /\ c \in Ancestors(s)  BY <3>2 DEF Leaf
    <3>5. s \in Nat \ {0} /\ s \in m..(last - 1)  BY <2>3, <3>1, <3>4
    <3>6. Way(Ancestors(s), s)  BY <3>5, AncestorsAreAWay
    <3>7. \A j \in Ancestors(s) : j \in 1..s  BY <3>6 DEF Way
    <3>8. m \in Ancestors(s)  BY <3>1, <3>4, <3>6 DEF Way
    <3>9. ASSUME NEW j \in Ancestors(s), j >= m, j # s
          PROVE  2*j < last /\ FirstChild(heap, j) \in Ancestors(s)
      <4>1. CASE j = m  BY <2>8, <3>4, <4>1 DEF c
      <4>2. CASE j # m
        <5>1. \A h, i \in Ancestors(s) : i < h => i <= h \div 2  BY <3>6 DEF Way
        <5>2. ~(j < c)  BY <3>1, <3>4, <3>7, <3>9, <4>2, <5>1, <2>3
        <5>3. j >= c  BY <3>1, <3>7, <5>2
        <5> QED  BY <3>2, <3>9, <5>3 DEF Leaf
      <4> QED  BY <4>1, <4>2
    <3>10. Leaf(heap, m, s)  BY <3>4, <3>5, <3>8, <3>9 DEF Leaf
    <3> QED  BY <2>4, <3>3, <3>10
  <2>9. CASE ~(2*m < last)
    <3>1. sink[m] = m  BY <2>6, <2>9
    <3>2. Way(Ancestors(m), m)  BY <2>7, AncestorsAreAWay
    <3>3. m \in Ancestors(m) /\ \A j \in Ancestors(m) : j \in 1..m  BY <3>2 DEF Way
    <3>4. m \in m..(last - 1) /\ 2*m >= last  BY <2>3, <2>9
    <3>5. \A j \in Ancestors(m) : ~(j >= m /\ j # m)  BY <2>7, <3>3
    <3>6. Leaf(heap, m, m)  BY <3>3, <3>4, <3>5 DEF Leaf
    <3> QED  BY <2>4, <3>1, <3>6
  <2> QED  BY <2>8, <2>9
<1>2. last - 2 \in Nat /\ last - 2 < last - 1 /\ last - 1 - (last - 2) = 1  OBVIOUS
<1>3. last - 2 \notin Bad  BY <1>1
<1> QED  BY <1>2, <1>3

\* What is left when the root has gone and the hole has sunk to leaf.
Sunk(heap, leaf) ==
  [i \in DOMAIN SubSeq(heap, 1, Len(heap) - 1) |->
     IF i # leaf /\ i \in Ancestors(leaf) THEN heap[FirstChild(heap, i)] ELSE heap[i]]

LEMMA PoppedSinksAndRises ==
  ASSUME NEW heap, NEW last \in Nat, Len(heap) = last, last > 1
  PROVE  \E leaf : /\ Leaf(heap, 1, leaf)
                   /\ Popped(heap) = SiftUp(Sunk(heap, leaf), leaf, heap[Len(heap)])
<1> DEFINE sink[i \in 1..Len(heap)] ==
             IF 2*i < Len(heap) THEN sink[FirstChild(heap, i)] ELSE i
<1>1. Popped(heap) = SiftUp(Sunk(heap, sink[1]), sink[1], heap[Len(heap)])
  <2>1. last # 1  OBVIOUS
  <2> QED  BY <2>1, Zenon DEF Popped, Sunk
<1>2. Sinking(heap, Len(heap), sink)
  <2>1. \E f : Sinking(heap, Len(heap), f)  BY SinkExists
  <2>2. \E f : f = [i \in 1..Len(heap) |->
                      IF 2*i < Len(heap) THEN f[FirstChild(heap, i)] ELSE i]
    BY <2>1, Zenon DEF Sinking
  <2> QED  BY <2>2, Zenon DEF Sinking
<1> HIDE DEF sink
<1>3. Leaf(heap, 1, sink[1])  BY <1>2, SinkToLeaf
<1> QED  BY <1>1, <1>3

\* The hole's way down, for both lemmas about Sunk.
LEMMA DownTheWay ==
  ASSUME NEW heap, NEW last \in Nat, Len(heap) = last, last > 1, NEW leaf, Leaf(heap, 1, leaf)
  PROVE  /\ leaf \in 1..(last - 1) /\ 2*leaf >= last
         /\ Way(Ancestors(leaf), leaf) /\ 1 \in Ancestors(leaf)
         /\ \A j \in Ancestors(leaf) : j \in 1..leaf
         /\ \A j \in Ancestors(leaf) : j # leaf =>
              /\ FirstChild(heap, j) \in Ancestors(leaf) /\ FirstChild(heap, j) \in 2..(last - 1)
              /\ FirstChild(heap, j) \div 2 = j
         /\ \A j \in Ancestors(leaf) : j > 1 =>
              /\ j \div 2 \in Ancestors(leaf) /\ j \div 2 # leaf
              /\ FirstChild(heap, j \div 2) = j
<1> DEFINE P == Ancestors(leaf)
<1>1. leaf \in 1..(last - 1) /\ 2*leaf >= last /\ 1 \in P  BY DEF Leaf
<1>2. leaf \in Nat \ {0}  BY <1>1
<1>3. Way(P, leaf)  BY <1>2, AncestorsAreAWay
<1>4. \A j \in P : j \in 1..leaf  BY <1>3 DEF Way
<1>5. ASSUME NEW j \in P, j # leaf
      PROVE  /\ FirstChild(heap, j) \in P /\ FirstChild(heap, j) \in 2..(last - 1)
             /\ FirstChild(heap, j) \div 2 = j
  <2>1. j \in Nat \ {0}  BY <1>4
  <2>2. 2*j < last /\ FirstChild(heap, j) \in P  BY <1>5, <2>1 DEF Leaf
  <2> QED  BY <2>1, <2>2, FirstChildIsChild
<1>6. ASSUME NEW j \in P, j > 1
      PROVE  j \div 2 \in P /\ j \div 2 # leaf /\ FirstChild(heap, j \div 2) = j
  <2> DEFINE h == j \div 2
  <2>1. h \in P  BY <1>3, <1>6 DEF Way
  <2>2. h < j /\ j <= leaf
    <3>1. j \in Nat /\ j <= leaf  BY <1>4
    <3> QED  BY <1>6, <3>1, HalfOf
  <2> HIDE DEF h
  <2>3. h # leaf
    <3>1. h \in Nat /\ j \in Nat  BY <1>4, <2>1
    <3> QED  BY <2>2, <3>1
  <2>4. FirstChild(heap, h) \in P /\ FirstChild(heap, h) > 1 /\ FirstChild(heap, h) \div 2 = h
    BY <1>5, <2>1, <2>3
  <2>5. FirstChild(heap, h) = j
    <3>1. FirstChild(heap, h) \div 2 = j \div 2  BY <2>4 DEF h
    <3> QED  BY <1>2, <1>3, <1>6, <2>4, <3>1, OneChildOnWay
  <2> QED  BY <2>1, <2>3, <2>5 DEF h
<1> QED  BY <1>1, <1>3, <1>4, <1>5, <1>6

LEMMA SunkIs ==
  ASSUME NEW S, NEW heap \in Seq(S), NEW last \in Nat, Len(heap) = last, last > 1,
         NEW leaf, Leaf(heap, 1, leaf)
  PROVE  /\ Sunk(heap, leaf) \in Seq(S) /\ Len(Sunk(heap, leaf)) = last - 1
         /\ DOMAIN Sunk(heap, leaf) = 1..(last - 1)
         /\ \A i \in 1..(last - 1) : Sunk(heap, leaf)[i] =
              IF i # leaf /\ i \in Ancestors(leaf) THEN heap[FirstChild(heap, i)] ELSE heap[i]
<1> DEFINE q == Sunk(heap, leaf)
           n == last - 1
<1>1. \A i \in 1..last : heap[i] \in S  BY ElementOfSeq, LenProperties
<1>2. DOMAIN SubSeq(heap, 1, n) = 1..n
  <2>1. \A i \in 1..n : heap[i] \in S  BY <1>1
  <2>2. 1 \in Int /\ n \in Int  OBVIOUS
  <2>3. SubSeq(heap, 1, n) \in Seq(S) /\ Len(SubSeq(heap, 1, n)) = n
    BY <2>1, <2>2, SubSeqProperties
  <2> QED  BY <2>3, LenProperties
<1>3. q = [i \in 1..n |-> IF i # leaf /\ i \in Ancestors(leaf)
                          THEN heap[FirstChild(heap, i)] ELSE heap[i]]
  BY <1>2 DEF Sunk
<1> HIDE DEF q
<1>4. DOMAIN q = 1..n  BY <1>3
<1>5. ASSUME NEW i \in 1..n
      PROVE  q[i] = IF i # leaf /\ i \in Ancestors(leaf)
                    THEN heap[FirstChild(heap, i)] ELSE heap[i]
  BY <1>3
<1>6. ASSUME NEW i \in 1..n PROVE q[i] \in S
  <2>1. i \in 1..last  OBVIOUS
  <2>2. i # leaf /\ i \in Ancestors(leaf) => FirstChild(heap, i) \in 1..last
    BY DownTheWay
  <2> QED  BY <1>1, <1>5, <2>1, <2>2
<1>7. q = [i \in 1..n |-> q[i]]  BY <1>3, <1>4
<1>8. n \in Nat  OBVIOUS
<1> HIDE DEF n
<1>9. q \in Seq(S) /\ Len(q) = n  BY <1>6, <1>7, <1>8, IsASeq, LenProperties
<1> QED  BY <1>4, <1>5, <1>9 DEF n, q

LEMMA SunkOrders ==
  ASSUME NEW S, ByTime(S), NEW heap \in Seq(S), Ordered(heap),
         NEW last \in Nat, Len(heap) = last, last > 1, NEW leaf, Leaf(heap, 1, leaf)
  PROVE  OrderedBut(Sunk(heap, leaf), leaf)
<1> DEFINE P == Ancestors(leaf)
           q == Sunk(heap, leaf)
           L(i) == TimeLeft(heap[i])
<1>1. \A i \in 1..last : heap[i] \in S  BY ElementOfSeq, LenProperties
<1>2. \A i \in 1..last : L(i) \in Int  BY <1>1 DEF ByTime
<1>3. \A i \in 2..last : L(i \div 2) <= L(i)  BY DEF Ordered, OrderedBut
<1>4. \A i, k \in 1..last : Compare(heap[i], heap[k]) <=> L(i) >= L(k)  BY <1>1 DEF ByTime
<1>5. Len(q) = last - 1 /\ \A i \in 1..(last - 1) :
        q[i] = IF i # leaf /\ i \in P THEN heap[FirstChild(heap, i)] ELSE heap[i]
  BY SunkIs
<1>6. leaf \in 1..(last - 1) /\ 2*leaf >= last  BY DownTheWay
<1> HIDE DEF q
<1>7. ASSUME NEW i \in 2..(last - 1), i # leaf
      PROVE  TimeLeft(q[i \div 2]) <= TimeLeft(q[i])
  <2> DEFINE p == i \div 2
  <2>1. i \in Nat /\ i >= 2 /\ i <= last - 1 /\ i \in 1..last  OBVIOUS
  <2>2. /\ p \in Nat /\ p >= 1 /\ p < i /\ i \in {2*p, 2*p + 1}
        /\ p \in 1..(last - 1) /\ p \in 1..last
    BY <2>1, HalfOf
  <2> HIDE DEF p
  <2>3. p # leaf  BY <1>6, <2>1, <2>2
  <2>4. q[i] = IF i \in P THEN heap[FirstChild(heap, i)] ELSE heap[i]  BY <1>5, <1>7
  <2>5. q[p] = IF p \in P THEN heap[FirstChild(heap, p)] ELSE heap[p]  BY <1>5, <2>2, <2>3
  <2>6. CASE i \in P
    <3>1. p \in P /\ FirstChild(heap, p) = i  BY <2>1, <2>6, DownTheWay DEF p
    <3> DEFINE c == FirstChild(heap, i)
    <3>2. c \in 2..(last - 1) /\ c \div 2 = i  BY <1>7, <2>6, DownTheWay
    <3> HIDE DEF c
    <3>3. L(i) <= L(c)
      <4>1. c \in 2..last  BY <3>2
      <4> QED  BY <1>3, <3>2, <4>1
    <3>4. TimeLeft(q[i]) = L(c) /\ TimeLeft(q[p]) = L(i)  BY <2>4, <2>5, <2>6, <3>1 DEF c
    <3> QED  BY <3>3, <3>4 DEF p
  <2>7. CASE i \notin P /\ p \in P
    <3> DEFINE c == FirstChild(heap, p)
    <3>1. c = IF 2*p + 1 < last /\ ~Compare(heap[2*p + 1], heap[2*p]) THEN 2*p + 1 ELSE 2*p
      BY DEF FirstChild
    <3>2. TimeLeft(q[i]) = L(i) /\ TimeLeft(q[p]) = L(c)  BY <2>4, <2>5, <2>7
    <3> HIDE DEF c
    <3>3. 2*p \in 1..last  BY <2>1, <2>2
    <3>4. 2*p + 1 < last => 2*p + 1 \in 1..last  BY <2>2
    <3>5. L(c) <= L(i)
      <4> HIDE DEF L
      <4>1. CASE 2*p + 1 < last
        <5>1. L(2*p) \in Int /\ L(2*p + 1) \in Int  BY <1>2, <3>3, <3>4, <4>1
        <5>2. Compare(heap[2*p + 1], heap[2*p]) <=> L(2*p + 1) >= L(2*p)
          BY <1>4, <3>3, <3>4, <4>1
        <5>3. L(c) <= L(2*p) /\ L(c) <= L(2*p + 1)  BY <3>1, <4>1, <5>1, <5>2
        <5> QED  BY <2>2, <5>3
      <4>2. CASE ~(2*p + 1 < last)
        <5>1. i = 2*p /\ c = 2*p  BY <2>1, <2>2, <3>1, <4>2
        <5> QED  BY <1>2, <3>3, <5>1
      <4> QED  BY <4>1, <4>2
    <3> QED  BY <3>2, <3>5 DEF p
  <2>8. CASE i \notin P /\ p \notin P
    <3>1. TimeLeft(q[i]) = L(i) /\ TimeLeft(q[p]) = L(p)  BY <2>4, <2>5, <2>8
    <3>2. i \in 2..last  BY <2>1
    <3> QED  BY <1>3, <3>1, <3>2 DEF p
  <2> QED  BY <2>6, <2>7, <2>8
<1> QED  BY <1>5, <1>7 DEF OrderedBut, q

---------------------------------------------------------------------------
(* push_heap and pop_heap.                                                 *)

\* push_heap returns the tasks and the new one, in another order, whatever
\* compare answers.
THEOREM PushedRearranges ==
  ASSUME NEW S, NEW heap \in Seq(S), NEW t \in S
  PROVE  /\ Rearranged(Pushed(heap, t), Append(heap, t))
         /\ Pushed(heap, t) = [i \in 1..(Len(heap) + 1) |-> Pushed(heap, t)[i]]
<1> DEFINE h == Append(heap, t)
           n == Len(heap) + 1
           r == SiftUp(h, n, t)
<1>1. h \in Seq(S) /\ Len(h) = n /\ h[n] = t  BY AppendProperties
<1>2. n \in Nat /\ n >= 1  BY LenProperties
<1>3. DOMAIN h = 1..n  BY <1>1, LenProperties
<1>4. Pushed(heap, t) = r  BY DEF Pushed
<1> HIDE DEF h, n
<1>5. n \in 1..n  BY <1>2
<1>6. SiftedUp(r, h, n, t, n)  BY <1>1, <1>2, <1>3, <1>5, SiftUpRearranges
<1> HIDE DEF r
<1>7. PICK s : /\ s \in [1..n -> 1..n]
               /\ \A i, k \in 1..n : s[i] = s[k] => i = k
               /\ \A k \in 1..n : \E i \in 1..n : s[i] = k
               /\ \A i \in 1..n : r[i] = IF s[i] = n THEN t ELSE h[s[i]]
  BY <1>6 DEF SiftedUp
<1>8. \A i \in 1..n : r[i] = h[s[i]]  BY <1>1, <1>7
<1>9. Rearranges(s, r, h)  BY <1>1, <1>7, <1>8 DEF Rearranges
<1>10. r = [i \in 1..n |-> r[i]] /\ DOMAIN r = 1..n  BY <1>6 DEF SiftedUp
<1>11. Len(r) = n  BY <1>2, <1>10
<1>12. Rearranged(r, h)  BY <1>1, <1>9, <1>11 DEF Rearranged
<1> QED  BY <1>4, <1>10, <1>12 DEF h, n

\* pop_heap returns the tasks without the front one, in another order.
THEOREM PoppedRearranges ==
  ASSUME NEW S, NEW heap \in Seq(S), heap # <<>>
  PROVE  /\ Rearranged(Popped(heap), Tail(heap))
         /\ Popped(heap) = [i \in 1..Len(Tail(heap)) |-> Popped(heap)[i]]
<1> DEFINE last == Len(heap)
           n == last - 1
           q == Tail(heap)
<1>1. last \in Nat /\ last >= 1  BY EmptySeq, LenProperties
<1>2. q \in Seq(S) /\ Len(q) = n /\ \A i \in 1..n : q[i] = heap[i + 1]
  BY HeadTailProperties, LenProperties
<1> HIDE DEF last, q
<1>3. n \in Nat  BY <1>1
<1>4. CASE last = 1
  <2>1. Popped(heap) = <<>>  BY <1>4 DEF Popped, last
  <2>2. n = 0  BY <1>4
  <2>3. Rearranges([i \in {} |-> i], <<>>, q)  BY <1>2, <2>2 DEF Rearranges
  <2>4. Len(<<>>) = 0 /\ DOMAIN <<>> = {} /\ <<>> = [i \in 1..0 |-> <<>>[i]]  BY EmptySeq
  <2>5. Rearranged(<<>>, q)  BY <1>2, <2>2, <2>3, <2>4 DEF Rearranged
  <2> QED  BY <1>2, <2>1, <2>2, <2>4, <2>5 DEF q
<1>5. CASE last > 1
  <2> DEFINE t == heap[last]
  <2>1. PICK leaf : Leaf(heap, 1, leaf) /\ Popped(heap) = SiftUp(Sunk(heap, leaf), leaf, t)
    BY <1>1, <1>5, PoppedSinksAndRises DEF last
  <2> DEFINE P == Ancestors(leaf)
             k == Sunk(heap, leaf)
             r == SiftUp(k, leaf, t)
  <2>2. /\ Len(k) = n /\ DOMAIN k = 1..n
        /\ \A i \in 1..n : k[i] = IF i # leaf /\ i \in P THEN heap[FirstChild(heap, i)] ELSE heap[i]
    BY <1>1, <1>5, <2>1, SunkIs DEF last
  <2>3. /\ leaf \in 1..n /\ 1 \in P
        /\ \A j \in P : j \in 1..leaf
        /\ \A j \in P : j # leaf => FirstChild(heap, j) \in P /\ FirstChild(heap, j) \in 2..n
                                    /\ FirstChild(heap, j) \div 2 = j
        /\ \A j \in P : j > 1 => j \div 2 \in P /\ j \div 2 # leaf
                                 /\ FirstChild(heap, j \div 2) = j
    BY <1>1, <1>5, <2>1, DownTheWay DEF last
  <2> HIDE DEF k, P
  <2>4. SiftedUp(r, k, n, t, leaf)  BY <1>3, <2>2, <2>3, SiftUpRearranges
  <2> HIDE DEF r, t
  <2>5. PICK s : /\ s \in [1..n -> 1..n]
                 /\ \A i, j \in 1..n : s[i] = s[j] => i = j
                 /\ \A j \in 1..n : \E i \in 1..n : s[i] = j
                 /\ \A i \in 1..n : r[i] = IF s[i] = leaf THEN t ELSE k[s[i]]
    BY <2>4 DEF SiftedUp
  \* From the places of the sunk heap to those of the tail.
  <2> DEFINE u == [i \in 1..n |-> IF i = leaf THEN n
                                 ELSE IF i \in P THEN FirstChild(heap, i) - 1 ELSE i - 1]
  <2>6. ASSUME NEW i \in 1..n
        PROVE  /\ u[i] \in 1..n
               /\ q[u[i]] = IF i = leaf THEN t ELSE k[i]
    <3>1. CASE i = leaf
      <4>1. n \in 1..n /\ n + 1 = last  BY <1>1, <1>3, <3>1
      <4>2. u[i] = n  BY <3>1
      <4> QED  BY <1>2, <3>1, <4>1, <4>2 DEF t
    <3>2. CASE i # leaf /\ i \in P
      <4> DEFINE c == FirstChild(heap, i)
      <4>1. c \in 2..n /\ u[i] = c - 1  BY <2>3, <3>2
      <4>2. k[i] = heap[c]  BY <2>2, <3>2
      <4> HIDE DEF c
      <4>3. c - 1 \in 1..n /\ (c - 1) + 1 = c  BY <1>3, <4>1
      <4> QED  BY <1>2, <3>2, <4>1, <4>2, <4>3
    <3>3. CASE i # leaf /\ i \notin P
      <4>1. i # 1  BY <2>3, <3>3
      <4>2. u[i] = i - 1 /\ i - 1 \in 1..n /\ (i - 1) + 1 = i  BY <1>3, <3>3, <4>1
      <4> QED  BY <1>2, <2>2, <3>3, <4>2
    <3> QED  BY <3>1, <3>2, <3>3
  <2>7. ASSUME NEW i \in 1..n, NEW j \in 1..n, u[i] = u[j] PROVE i = j
    \* The place in the heap that a place of the sunk heap is filled from.
    <3> DEFINE v(a) == IF a = leaf THEN n + 1 ELSE IF a \in P THEN FirstChild(heap, a) ELSE a
    <3>1. ASSUME NEW a \in 1..n
          PROVE v(a) \in 1..(n + 1) /\ u[a] = v(a) - 1 /\ (v(a) = n + 1 => a = leaf)
      <4>1. a # leaf /\ a \in P => FirstChild(heap, a) \in 2..n  BY <2>3
      <4> QED  BY <1>3, <4>1
    <3>2. v(i) = v(j)
      <4>1. v(i) \in Int /\ v(j) \in Int /\ v(i) - 1 = v(j) - 1  BY <2>7, <3>1
      <4> HIDE DEF v
      <4> QED  BY <4>1
    <3>3. CASE i = leaf \/ j = leaf
      <4>1. v(i) = n + 1 \/ v(j) = n + 1  BY <3>3
      <4> QED  BY <3>1, <3>2, <4>1
    <3>4. CASE i # leaf /\ j # leaf
      <4>1. v(i) = (IF i \in P THEN FirstChild(heap, i) ELSE i)
            /\ v(j) = IF j \in P THEN FirstChild(heap, j) ELSE j
        BY <3>4
      <4>2. \A a \in P : a # leaf => FirstChild(heap, a) \in P /\ FirstChild(heap, a) \div 2 = a
        BY <2>3
      <4> HIDE DEF v
      <4>3. i \in P <=> j \in P  BY <3>2, <3>4, <4>1, <4>2
      <4>4. CASE i \in P
        <5>1. FirstChild(heap, i) = FirstChild(heap, j)  BY <3>2, <4>1, <4>3, <4>4
        <5> QED  BY <3>4, <4>2, <4>3, <4>4, <5>1
      <4>5. CASE i \notin P  BY <3>2, <4>1, <4>3, <4>5
      <4> QED  BY <4>4, <4>5
    <3> QED  BY <3>3, <3>4
  <2>8. ASSUME NEW j \in 1..n PROVE \E i \in 1..n : u[i] = j
    <3>1. CASE j = n
      <4>1. leaf \in 1..n /\ u[leaf] = n  BY <2>3
      <4> QED  BY <3>1, <4>1
    <3>2. CASE j < n /\ j + 1 \in P
      <4> DEFINE c == j + 1
      <4>1. c > 1 /\ c \in P  BY <3>2
      <4>2. c \div 2 \in P /\ c \div 2 # leaf /\ FirstChild(heap, c \div 2) = c  BY <2>3, <4>1
      <4>3. c \div 2 \in 1..n
        <5>1. c \div 2 \in 1..leaf /\ leaf \in 1..n  BY <2>3, <4>2
        <5> QED  BY <1>3, <5>1
      <4>4. u[c \div 2] = c - 1  BY <4>2, <4>3
      <4> QED  BY <4>3, <4>4
    <3>3. CASE j < n /\ j + 1 \notin P
      <4>1. j + 1 # leaf
        <5>1. Way(P, leaf)  BY <1>1, <1>5, <2>1, DownTheWay DEF last, P
        <5> QED  BY <3>3, <5>1 DEF Way
      <4>2. j + 1 \in 1..n /\ u[j + 1] = (j + 1) - 1  BY <1>3, <3>3, <4>1
      <4> QED  BY <4>2
    <3> QED  BY <1>3, <3>1, <3>2, <3>3
  <2>9. u \in [1..n -> 1..n]
    <3>1. u = [i \in 1..n |-> u[i]]  OBVIOUS
    <3> HIDE DEF u
    <3>2. \A i \in 1..n : u[i] \in 1..n  BY <2>6
    <3> QED  BY <3>1, <3>2
  <2> HIDE DEF u
  <2> DEFINE w == [i \in 1..n |-> u[s[i]]]
  <2>10. w \in [1..n -> 1..n]  BY <2>5, <2>9
  <2>11. \A i, j \in 1..n : w[i] = w[j] => i = j
    <3>1. ASSUME NEW i \in 1..n, NEW j \in 1..n, w[i] = w[j] PROVE i = j
      <4>1. s[i] \in 1..n /\ s[j] \in 1..n /\ u[s[i]] = u[s[j]]  BY <2>5, <3>1
      <4>2. s[i] = s[j]  BY <2>7, <4>1
      <4> QED  BY <2>5, <4>2
    <3> QED  BY <3>1
  <2>12. \A j \in 1..n : \E i \in 1..n : w[i] = j
    <3>1. ASSUME NEW j \in 1..n PROVE \E i \in 1..n : w[i] = j
      <4>1. PICK a \in 1..n : u[a] = j  BY <2>8
      <4>2. PICK i \in 1..n : s[i] = a  BY <2>5
      <4> QED  BY <4>1, <4>2
    <3> QED  BY <3>1
  <2>13. \A i \in 1..n : r[i] = q[w[i]]
    <3>1. ASSUME NEW i \in 1..n PROVE r[i] = q[w[i]]
      <4>1. s[i] \in 1..n /\ w[i] = u[s[i]]  BY <2>5
      <4>2. q[u[s[i]]] = IF s[i] = leaf THEN t ELSE k[s[i]]  BY <2>6, <4>1
      <4> QED  BY <2>5, <4>1, <4>2
    <3> QED  BY <3>1
  <2> HIDE DEF w
  <2>14. Rearranges(w, r, q)  BY <1>2, <2>10, <2>11, <2>12, <2>13 DEF Rearranges
  <2>15. r = [i \in 1..n |-> r[i]] /\ DOMAIN r = 1..n  BY <2>4 DEF SiftedUp
  <2>16. Len(r) = n  BY <1>3, <2>15
  <2>17. Rearranged(r, q)  BY <1>2, <2>14, <2>16 DEF Rearranged
  <2>18. Popped(heap) = r  BY <2>1 DEF r, k
  <2> QED  BY <1>2, <2>15, <2>17, <2>18 DEF q
<1> QED  BY <1>1, <1>4, <1>5

\* As long as compare orders the tasks by the time they have left, push_heap
\* keeps the heap in order.
THEOREM PushedIsOrdered ==
  ASSUME NEW S, ByTime(S), NEW heap \in Seq(S), NEW t \in S, Ordered(heap)
  PROVE  Ordered(Pushed(heap, t))
<1> DEFINE h == Append(heap, t)
           n == Len(heap) + 1
           r == Pushed(heap, t)
<1>1. h \in Seq(S) /\ Len(h) = n /\ \A i \in 1..Len(heap) : h[i] = heap[i]  BY AppendProperties
<1>2. n \in Nat /\ n >= 1 /\ Len(heap) \in Nat  BY LenProperties
<1>3. OrderedBut(h, n)
  <2>1. ASSUME NEW i \in 2..n, i # n PROVE TimeLeft(h[i \div 2]) <= TimeLeft(h[i])
    <3>1. i \in 2..Len(heap) /\ i \in 1..Len(heap)  BY <1>2, <2>1
    <3>2. i \div 2 \in 1..Len(heap)  BY <1>2, <3>1, HalfOf
    <3>3. TimeLeft(heap[i \div 2]) <= TimeLeft(heap[i])  BY <3>1 DEF Ordered, OrderedBut
    <3>4. h[i] = heap[i] /\ h[i \div 2] = heap[i \div 2]  BY <1>1, <3>1, <3>2
    <3> QED  BY <3>3, <3>4
  <2> QED  BY <1>1, <2>1 DEF OrderedBut
<1>4. r = SiftUp(h, n, t)  BY DEF Pushed
<1>5. Len(r) = n
  <2>1. DOMAIN r = 1..n  BY PushedRearranges
  <2> QED  BY <1>2, <2>1
<1> HIDE DEF h, n, r
<1>6. n \in 1..Len(h) /\ 2*n > Len(h)  BY <1>1, <1>2
<1>7. \A i \in 2..n : TimeLeft(r[i \div 2]) <= TimeLeft(r[i])
  BY <1>1, <1>3, <1>4, <1>6, SiftUpOrders
<1> QED  BY <1>5, <1>7 DEF Ordered, OrderedBut, r

\* So does pop_heap.
THEOREM PoppedIsOrdered ==
  ASSUME NEW S, ByTime(S), NEW heap \in Seq(S), heap # <<>>, Ordered(heap)
  PROVE  Ordered(Popped(heap))
<1> DEFINE last == Len(heap)
           r == Popped(heap)
<1>1. last \in Nat /\ last >= 1 /\ \A i \in 1..last : heap[i] \in S
  BY EmptySeq, LenProperties, ElementOfSeq
<1>2. Len(r) = last - 1
  <2>1. DOMAIN r = 1..Len(Tail(heap)) /\ Len(Tail(heap)) = last - 1
    BY PoppedRearranges, HeadTailProperties
  <2> DEFINE n == last - 1
  <2>2. n \in Nat  BY <1>1
  <2>3. DOMAIN r = 1..n  BY <2>1
  <2> HIDE DEF n, r
  <2>4. Len(r) = n  BY <2>2, <2>3
  <2> QED  BY <2>4 DEF n
<1> HIDE DEF last, r
<1>3. CASE last = 1  BY <1>2, <1>3 DEF Ordered, OrderedBut, r
<1>4. CASE last > 1
  <2>1. PICK leaf : Leaf(heap, 1, leaf) /\ r = SiftUp(Sunk(heap, leaf), leaf, heap[last])
    BY <1>1, <1>4, PoppedSinksAndRises DEF last, r
  <2> DEFINE q == Sunk(heap, leaf)
  <2>2. q \in Seq(S) /\ Len(q) = last - 1  BY <1>1, <1>4, <2>1, SunkIs DEF last
  <2>3. leaf \in 1..(last - 1) /\ 2*leaf >= last  BY <1>1, <1>4, <2>1, DownTheWay DEF last
  <2>4. OrderedBut(q, leaf)  BY <1>1, <1>4, <2>1, SunkOrders DEF last
  <2>5. heap[last] \in S  BY <1>1, <1>4
  <2> HIDE DEF q
  <2>6. leaf \in 1..Len(q) /\ 2*leaf > Len(q)  BY <1>1, <2>2, <2>3
  <2>7. \A i \in 2..Len(q) : TimeLeft(SiftUp(q, leaf, heap[last])[i \div 2])
                          <= TimeLeft(SiftUp(q, leaf, heap[last])[i])
    BY <2>2, <2>4, <2>5, <2>6, SiftUpOrders
  <2>8. r = SiftUp(q, leaf, heap[last])  BY <2>1 DEF q
  <2> QED  BY <1>2, <2>2, <2>7, <2>8 DEF Ordered, OrderedBut, r
<1> QED  BY <1>1, <1>3, <1>4

\* The front task of a heap in order has the least time left of all.
THEOREM FrontIsFirst ==
  ASSUME NEW S, ByTime(S), NEW heap \in Seq(S), Ordered(heap), NEW i \in DOMAIN heap
  PROVE  TimeLeft(Head(heap)) <= TimeLeft(heap[i])
<1> DEFINE L(k) == TimeLeft(heap[k])
           n == Len(heap)
           Bad == {k \in Nat : k \in 1..n /\ ~(L(1) <= L(k))}
<1>1. n \in Nat /\ i \in 1..n  BY LenProperties
<1>2. 1 \in 1..n /\ heap # <<>>  BY <1>1, EmptySeq
<1>3. Head(heap) = heap[1]  BY <1>2, HeadTailProperties
<1>4. \A k \in 1..n : L(k) \in Int  BY ElementOfSeq DEF ByTime
<1>5. \A k \in 2..n : L(k \div 2) <= L(k)  BY DEF Ordered, OrderedBut
<1> HIDE DEF L, n
<1>6. Bad = {}
  <2>1. SUFFICES ASSUME Bad # {} PROVE FALSE  OBVIOUS
  <2>2. PICK k \in Bad : \A h \in Bad : k <= h  BY <2>1, Least
  <2>3. k \in 1..n /\ ~(L(1) <= L(k))  BY <2>2
  <2>4. k # 1  BY <1>2, <1>4, <2>3
  <2>5. k \in 2..n /\ k \in Nat /\ k >= 2 /\ k <= n  BY <1>1, <2>3, <2>4
  <2>6. k \div 2 \in Nat /\ k \div 2 >= 1 /\ k \div 2 < k /\ k \div 2 \in 1..n
    BY <1>1, <2>5, HalfOf
  <2>7. k \div 2 \notin Bad
    <3>1. ~(k <= k \div 2)  BY <2>5, <2>6
    <3> HIDE DEF Bad
    <3> QED  BY <2>2, <3>1
  <2>8. L(1) <= L(k \div 2)  BY <2>6, <2>7
  <2>9. L(k \div 2) <= L(k)  BY <1>5, <2>5
  <2>10. L(1) \in Int /\ L(k) \in Int /\ L(k \div 2) \in Int  BY <1>2, <1>4, <2>3, <2>6
  <2> QED  BY <2>3, <2>8, <2>9, <2>10
<1>7. i \in Nat  BY <1>1
<1>8. L(1) <= L(i)
  <2>1. i \notin Bad  BY <1>6
  <2> QED  BY <1>1, <1>7, <2>1
<1> QED  BY <1>3, <1>8 DEF L

---------------------------------------------------------------------------
(* Deadlines that wrap.                                                    *)

Deadlines == 0..W-1

\* A task of the clock's half of the range, or of a later time.
SameHalf(t) == clock + TimeLeft(t) >= IF clock > Half THEN Half + 1 ELSE 0

\* The signed distance of a deadline from a time.
Signed(now, due) == ((due - now + W \div 2) % W) - (W \div 2)

LEMMA ModOf ==
    ASSUME NEW n \in Nat, n > 0, NEW x \in Int, NEW k \in {-1, 0, 1}, x - k*n \in 0..n-1
    PROVE  x % n = x - k*n
  OBVIOUS

LEMMA HalfFacts == W \in Nat /\ W > 0 /\ Half \in Nat /\ W = 2 * Half + 2 /\ W \div 2 = Half + 1
  <1>1. W \in Nat /\ W > 0 /\ W % 2 = 0 /\ Half = W \div 2 - 1
      BY SchedulerAssumption DEF Half
  <1>2. W = 2 * (W \div 2)  BY <1>1
  <1> QED  BY <1>1, <1>2

\* It is the only one within half the range.
LEMMA Distance ==
    ASSUME NEW now \in Deadlines, NEW due \in Deadlines
    PROVE  /\ Signed(now, due) \in -(Half + 1)..Half
           /\ \E k \in {-1, 0, 1} : due = now + Signed(now, due) - k*W
  <1> DEFINE x == due - now + W \div 2
  <1>1. x \in Int /\ x > -W /\ x < 2*W  BY HalfFacts DEF Deadlines
  <1>2. PICK k \in {-1, 0, 1} : x - k*W \in 0..W-1  BY <1>1, HalfFacts
  <1>3. x % W = x - k*W  BY <1>1, <1>2, HalfFacts, ModOf
  <1>4. Signed(now, due) = due - now - k*W  BY <1>3, HalfFacts DEF Signed, Deadlines
  <1>5. Signed(now, due) \in -(Half + 1)..Half  BY <1>2, <1>4, HalfFacts DEF Deadlines
  <1>6. due = now + Signed(now, due) - (-k)*W  BY <1>4, HalfFacts DEF Deadlines
  <1>7. -k \in {-1, 0, 1}  OBVIOUS
  <1> QED  BY <1>5, <1>6, <1>7

LEMMA OnlyDistance ==
    ASSUME NEW now \in Deadlines, NEW due \in Deadlines, NEW left \in -(Half + 1)..Half,
           NEW k \in {-1, 0, 1}, due = now + left - k*W
    PROVE  Signed(now, due) = left
  <1>1. PICK l \in {-1, 0, 1} : due = now + Signed(now, due) - l*W  BY Distance
  <1>2. Signed(now, due) \in -(Half + 1)..Half  BY Distance
  <1> QED  BY <1>1, <1>2, HalfFacts DEF Deadlines

LEMMA LeftIsSigned == \A t : TimeLeft(t) = Signed(clock, t.due)
  BY DEF TimeLeft, Signed

\* A deadline of the clock's half or later has wrapped at most once.
LEMMA DueOf ==
    ASSUME clock \in Deadlines, NEW t, t.due \in Deadlines, SameHalf(t)
    PROVE  /\ TimeLeft(t) \in Int
           /\ clock <= Half => t.due = clock + TimeLeft(t)
           /\ clock > Half => \/ t.due > Half /\ t.due = clock + TimeLeft(t)
                              \/ t.due <= Half /\ t.due = clock + TimeLeft(t) - W
  <1>1. TimeLeft(t) \in -(Half + 1)..Half  BY Distance, LeftIsSigned
  <1>2. PICK k \in {-1, 0, 1} : t.due = clock + TimeLeft(t) - k*W  BY Distance, LeftIsSigned
  <1>3. CASE clock <= Half
      BY <1>1, <1>2, <1>3, HalfFacts DEF SameHalf, Deadlines
  <1>4. CASE clock > Half
      BY <1>1, <1>2, <1>4, HalfFacts DEF SameHalf, Deadlines
  <1> QED  BY <1>1, <1>3, <1>4, HalfFacts DEF Deadlines

\* compare, which looks at the deadlines modulo the width of the clock, orders
\* tasks by the real time they have left.
THEOREM CompareIsRealTime ==
    ASSUME clock \in Deadlines, NEW a, a.due \in Deadlines, NEW b, b.due \in Deadlines,
           SameHalf(a), SameHalf(b)
    PROVE  Compare(a, b) <=> TimeLeft(a) >= TimeLeft(b)
  <1>1. CASE clock <= Half
      BY <1>1, DueOf, HalfFacts DEF Compare, Deadlines
  <1>2. CASE clock > Half
    <2>1. CASE (a.due <= Half) # (b.due <= Half)
        BY <1>2, <2>1, DueOf, HalfFacts DEF Compare, Deadlines
    <2>2. CASE (a.due <= Half) = (b.due <= Half)
        BY <1>2, <2>2, DueOf, HalfFacts DEF Compare, Deadlines
    <2> QED  BY <2>1, <2>2
  <1> QED  BY <1>1, <1>2, HalfFacts DEF Deadlines

\* deadline_elapsed tells the tasks whose time has come, if they are less than
\* half the range late.
THEOREM ElapsedIsDue ==
    ASSUME clock \in Deadlines, NEW t, t.due \in Deadlines, TimeLeft(t) > -Half
    PROVE  DeadlineElapsed(t.due) <=> TimeLeft(t) <= 0
  <1> DEFINE left == TimeLeft(t)
             x == clock - t.due
  <1>1. left \in -(Half + 1)..Half  BY Distance, LeftIsSigned
  <1>2. PICK k \in {-1, 0, 1} : t.due = clock + left - k*W  BY Distance, LeftIsSigned
  <1> HIDE DEF left
  <1>3. x = k*W - left /\ x \in Int  BY <1>1, <1>2, HalfFacts DEF Deadlines
  <1>4. x > -W /\ x < W  BY HalfFacts DEF Deadlines
  <1>5. PICK j \in {-1, 0, 1} : x - j*W \in 0..W-1  BY <1>4, HalfFacts DEF Deadlines
  <1>6. x % W = x - j*W  BY <1>3, <1>5, HalfFacts, ModOf
  <1>7. x % W = IF left <= 0 THEN -left ELSE W - left
      BY <1>1, <1>3, <1>5, <1>6, HalfFacts
  <1> QED  BY <1>1, <1>7, HalfFacts DEF DeadlineElapsed, AfterB, left

\* A task that is scheduled has its delay left, and belongs to the clock's half.
THEOREM ScheduledInOrder ==
    ASSUME clock \in Deadlines, NEW j, NEW delay \in 0..Half
    PROVE  LET t == Task(j, delay)
           IN  t.due \in Deadlines /\ TimeLeft(t) = delay /\ SameHalf(t)
  <1> DEFINE t == Task(j, delay)
  <1>1. PICK k \in {0, 1} : clock + delay - k*W \in Deadlines
      BY HalfFacts DEF Deadlines
  <1>2. t.due = clock + delay - k*W
      BY <1>1, HalfFacts, ModOf DEF Task, Deadlines
  <1>3. t.due \in Deadlines  BY <1>1, <1>2
  <1>4. TimeLeft(t) = delay
      BY <1>2, <1>3, OnlyDistance, LeftIsSigned, HalfFacts
  <1> QED  BY <1>3, <1>4, HalfFacts DEF SameHalf, Deadlines

\* A tick takes a millisecond from every waiting task; if none is late when the
\* clock leaves a half of its range, all still belong to the clock's half.
THEOREM TickKeepsOrder ==
    ASSUME clock \in Deadlines, Punctual, Tick,
           NEW i \in DOMAIN tasks, tasks[i].due \in Deadlines, SameHalf(tasks[i])
    PROVE  /\ TimeLeft(tasks[i])' = TimeLeft(tasks[i]) - 1
           /\ SameHalf(tasks[i])'
  <1> DEFINE t == tasks[i]
             left == TimeLeft(t)
  <1>1. clock' = (clock + 1) % W /\ tasks' = tasks /\ left > -MaxLate
      BY DEF Tick, OnTime
  <1>2. clock \in {Half, W - 1} => left > 0
      BY DEF Tick, OnTime
  <1>3. clock' = IF clock = W - 1 THEN 0 ELSE clock + 1
    <2>1. PICK k \in {0, 1} : clock + 1 - k*W \in 0..W-1 /\ (k = 1 <=> clock = W - 1)
        BY HalfFacts DEF Deadlines
    <2>2. clock' = clock + 1 - k*W  BY <1>1, <2>1, HalfFacts, ModOf DEF Deadlines
    <2> QED  BY <2>1, <2>2, HalfFacts DEF Deadlines
  <1>4. left \in -(Half + 1)..Half  BY Distance, LeftIsSigned
  <1>5. left - 1 \in -(Half + 1)..Half
      BY <1>1, <1>4, HalfFacts, SchedulerAssumption
  <1>6. PICK k \in {-1, 0, 1} : t.due = clock + left - k*W  BY Distance, LeftIsSigned
  <1>7. clock' \in Deadlines  BY <1>3, HalfFacts DEF Deadlines
  <1> HIDE DEF left
  <1>8. PICK l \in {-1, 0, 1} : t.due = clock' + (left - 1) - l*W
    <2>1. CASE clock = W - 1
      <3>1. left > 0  BY <1>2, <2>1
      <3>2. k = 1  BY <1>4, <1>6, <2>1, <3>1, HalfFacts DEF Deadlines
      <3>3. t.due = clock' + (left - 1) - 0*W
          BY <1>3, <1>4, <1>6, <2>1, <3>2, HalfFacts
      <3> QED  BY <3>3
    <2>2. CASE clock # W - 1
      <3>1. t.due = clock' + (left - 1) - k*W
          BY <1>3, <1>4, <1>6, <2>2, HalfFacts DEF Deadlines
      <3> QED  BY <3>1
    <2> QED  BY <2>1, <2>2
  <1>9. Signed(clock', t.due) = left - 1  BY <1>5, <1>7, <1>8, OnlyDistance
  <1>10. TimeLeft(tasks[i])' = left - 1  BY <1>1, <1>9 DEF TimeLeft, Signed
  <1>11. SameHalf(tasks[i])'
      BY <1>1, <1>2, <1>3, <1>4, <1>10, HalfFacts DEF SameHalf, Deadlines, left, Half
  <1> QED  BY <1>10, <1>11 DEF left

---------------------------------------------------------------------------
(* The waiting tasks.                                                      *)

Tasks == [job : Jobs, due : Deadlines]

\* What scheduling adds to the heap.
LEMMA TaskIsPushed ==
  ASSUME NEW q \in Seq(Tasks), OneEach(q), NEW t \in Tasks,
         \A i \in DOMAIN q : q[i].job # t.job
  PROVE  /\ Pushed(q, t) \in Seq(Tasks) /\ OneEach(Pushed(q, t))
         /\ Held(Pushed(q, t)) = Held(q) \cup {t}
  <1> DEFINE h == Append(q, t)
             n == Len(q)
             r == Pushed(q, t)
  <1>1. /\ h \in Seq(Tasks) /\ Len(h) = n + 1 /\ h[n + 1] = t
        /\ \A i \in 1..n : h[i] = q[i]
      BY AppendProperties
  <1>2. n \in Nat /\ DOMAIN q = 1..n /\ DOMAIN h = 1..(n + 1)  BY <1>1, LenProperties
  <1>3. Rearranged(r, h) /\ r = [i \in 1..Len(h) |-> r[i]]  BY <1>1, PushedRearranges
  <1> HIDE DEF h, n, r
  <1>4. \A i \in 1..(n + 1) : (i \in 1..n /\ h[i] = q[i]) \/ (i = n + 1 /\ h[i] = t)
      BY <1>1, <1>2
  <1>5. 1..n \subseteq 1..(n + 1) /\ n + 1 \in 1..(n + 1)  BY <1>2
  <1>6. OneEach(h)
    <2>1. SUFFICES ASSUME NEW i \in 1..(n + 1), NEW k \in 1..(n + 1), h[i].job = h[k].job
                   PROVE  i = k
        BY <1>2 DEF OneEach
    <2>2. CASE i = n + 1 /\ k = n + 1  BY <2>2
    <2>3. CASE i \in 1..n /\ h[i] = q[i] /\ k = n + 1 /\ h[k] = t  BY <1>2, <2>1, <2>3
    <2>4. CASE k \in 1..n /\ h[k] = q[k] /\ i = n + 1 /\ h[i] = t  BY <1>2, <2>1, <2>4
    <2>5. CASE i \in 1..n /\ k \in 1..n /\ h[i] = q[i] /\ h[k] = q[k]
        BY <1>2, <2>1, <2>5 DEF OneEach
    <2> QED  BY <1>4, <2>2, <2>3, <2>4, <2>5
  <1>7. Held(h) = Held(q) \cup {t}
    <2>1. ASSUME NEW x \in Held(h) PROVE x \in Held(q) \cup {t}
        BY <1>2, <1>4 DEF Held
    <2>2. ASSUME NEW x \in Held(q) PROVE x \in Held(h)
      <3>1. PICK i \in 1..n : x = q[i]  BY <1>2 DEF Held
      <3>2. i \in 1..(n + 1) /\ h[i] = x  BY <1>1, <1>5, <3>1
      <3> QED  BY <1>2, <3>2 DEF Held
    <2>3. t \in Held(h)  BY <1>1, <1>2, <1>5 DEF Held
    <2> QED  BY <2>1, <2>2, <2>3
  <1>8. r \in Seq(Tasks) /\ Held(r) = Held(h) /\ OneEach(r)
      BY <1>1, <1>3, <1>6, RearrangedKeeps
  <1>9. Held(r) = Held(q) \cup {t}  BY <1>7, <1>8 DEF Held
  <1> QED  BY <1>8, <1>9 DEF r

\* What running the front task takes from the heap.
LEMMA FrontIsPopped ==
  ASSUME NEW q \in Seq(Tasks), OneEach(q), q # <<>>
  PROVE  /\ Popped(q) \in Seq(Tasks) /\ OneEach(Popped(q))
         /\ Head(q) \in Held(q)
         /\ Held(Popped(q)) = {x \in Held(q) : x.job # Head(q).job}
  <1> DEFINE h == Tail(q)
             n == Len(q)
             r == Popped(q)
  <1>1. /\ h \in Seq(Tasks) /\ Len(h) = n - 1 /\ Head(q) = q[1]
        /\ \A i \in 1..(n - 1) : h[i] = q[i + 1]
      BY HeadTailProperties, LenProperties
  <1>2. n \in Nat /\ n >= 1 /\ DOMAIN q = 1..n /\ DOMAIN h = 1..(n - 1)
      BY <1>1, EmptySeq, LenProperties
  <1>3. Rearranged(r, h) /\ r = [i \in 1..Len(h) |-> r[i]]  BY PoppedRearranges
  <1> HIDE DEF h, n, r
  <1>4. 1 \in 1..n  BY <1>2
  <1>5. \A i \in 1..(n - 1) : i + 1 \in 1..n /\ i + 1 # 1  BY <1>2
  <1>6. \A i, k \in 1..n : q[i].job = q[k].job => i = k  BY <1>2 DEF OneEach
  <1>7. OneEach(h)
    <2>1. SUFFICES ASSUME NEW i \in 1..(n - 1), NEW k \in 1..(n - 1), h[i].job = h[k].job
                   PROVE  i = k
        BY <1>2 DEF OneEach
    <2>2. i + 1 = k + 1  BY <1>1, <1>5, <1>6, <2>1
    <2> QED  BY <2>2
  <1>8. Held(h) = {x \in Held(q) : x.job # Head(q).job}
    <2>1. ASSUME NEW x \in Held(h) PROVE x \in Held(q) /\ x.job # Head(q).job
      <3>1. PICK i \in 1..(n - 1) : x = h[i]  BY <1>2 DEF Held
      <3>2. i + 1 \in 1..n /\ i + 1 # 1 /\ x = q[i + 1]  BY <1>1, <1>5, <3>1
      <3>3. x.job # q[1].job  BY <1>4, <1>6, <3>2
      <3>4. x \in Held(q)  BY <1>2, <3>2 DEF Held
      <3> QED  BY <1>1, <3>3, <3>4
    <2>2. ASSUME NEW x \in Held(q), x.job # Head(q).job PROVE x \in Held(h)
      <3>1. PICK i \in 1..n : x = q[i]  BY <1>2 DEF Held
      <3>2. i # 1  BY <1>1, <2>2, <3>1
      <3>3. i - 1 \in 1..(n - 1) /\ (i - 1) + 1 = i  BY <1>2, <3>2
      <3>4. h[i - 1] = x  BY <1>1, <3>1, <3>3
      <3> QED  BY <1>2, <3>3, <3>4 DEF Held
    <2> QED  BY <2>1, <2>2
  <1>9. r \in Seq(Tasks) /\ Held(r) = Held(h) /\ OneEach(r)
      BY <1>1, <1>3, <1>7, RearrangedKeeps
  <1>10. Head(q) \in Held(q)  BY <1>1, <1>2, <1>4 DEF Held
  <1>11. Held(r) = {x \in Held(q) : x.job # Head(q).job}  BY <1>8, <1>9 DEF Held
  <1> QED  BY <1>9, <1>10, <1>11 DEF r

\* The type invariant, in terms of the tasks held.
LEMMA TypesOfTasks ==
  /\ TypeOK <=> /\ clock \in Deadlines /\ tasks \in Seq(Tasks) /\ OneEach(tasks)
                /\ running \subseteq Jobs /\ running \cap Waiting = {}
  /\ Waiting = {x.job : x \in Held(tasks)}
  <1>1. Waiting = {x.job : x \in Held(tasks)}  BY DEF Waiting, Held
  <1>2. TypeOK <=> /\ clock \in Deadlines /\ tasks \in Seq(Tasks) /\ OneEach(tasks)
                   /\ running \subseteq Jobs /\ running \cap Waiting = {}
      BY Zenon DEF TypeOK, Deadlines, Tasks, OneEach
  <1> QED  BY <1>1, <1>2

\* The task a job is scheduled with.
LEMMA TaskIsATask ==
  ASSUME clock \in Deadlines, NEW j \in Jobs, NEW delay \in Nat
  PROVE  Task(j, delay) \in Tasks /\ Task(j, delay).job = j
  <1>1. clock + delay \in Int  BY HalfFacts DEF Deadlines
  <1>2. (clock + delay) % W \in Deadlines  BY <1>1, HalfFacts DEF Deadlines
  <1> QED  BY <1>2 DEF Task, Tasks

---------------------------------------------------------------------------
(* The invariants.                                                         *)

\* Scheduling a job that neither waits nor runs.
LEMMA TypesAreScheduled ==
  ASSUME TypeOK, NEW j \in Jobs, NEW delay \in Nat, j \notin Waiting,
         tasks' = Pushed(tasks, Task(j, delay))
  PROVE  /\ tasks' \in Seq(Tasks) /\ OneEach(tasks)'
         /\ Held(tasks') = Held(tasks) \cup {Task(j, delay)}
         /\ Waiting' = Waiting \cup {j}
  <1> DEFINE t == Task(j, delay)
  <1>1. t \in Tasks /\ t.job = j  BY TypesOfTasks, TaskIsATask
  <1>2. \A i \in DOMAIN tasks : tasks[i].job # t.job  BY <1>1 DEF Waiting
  <1>3. tasks \in Seq(Tasks) /\ OneEach(tasks)  BY TypesOfTasks
  <1> HIDE DEF t
  <1>4. tasks' \in Seq(Tasks) /\ OneEach(tasks') /\ Held(tasks') = Held(tasks) \cup {t}
      BY <1>1, <1>2, <1>3, TaskIsPushed DEF t
  <1>5. Waiting' = {x.job : x \in Held(tasks')}  BY DEF Waiting, Held
  <1>6. Waiting' = Waiting \cup {j}  BY <1>1, <1>4, <1>5, TypesOfTasks
  <1> QED  BY <1>4, <1>6 DEF t, OneEach

\* Running the front task.
LEMMA TypesAreRun ==
  ASSUME TypeOK, RunFront
  PROVE  /\ tasks' \in Seq(Tasks) /\ OneEach(tasks)'
         /\ Head(tasks) \in Held(tasks)
         /\ Held(tasks') = {x \in Held(tasks) : x.job # Head(tasks).job}
         /\ Waiting' = Waiting \ {Head(tasks).job} /\ Head(tasks).job \in Waiting
         /\ Waiting \subseteq Jobs
  <1>1. tasks' = Popped(tasks) /\ tasks # <<>>  BY DEF RunFront
  <1>2. tasks \in Seq(Tasks) /\ OneEach(tasks)  BY TypesOfTasks
  <1>3. /\ tasks' \in Seq(Tasks) /\ OneEach(tasks')
        /\ Head(tasks) \in Held(tasks)
        /\ Held(tasks') = {x \in Held(tasks) : x.job # Head(tasks).job}
      BY <1>1, <1>2, FrontIsPopped
  <1>4. Waiting' = {x.job : x \in Held(tasks')}  BY DEF Waiting, Held
  <1>5. Waiting' = Waiting \ {Head(tasks).job} /\ Head(tasks).job \in Waiting
      BY <1>3, <1>4, TypesOfTasks
  <1>6. Waiting \subseteq Jobs
    <2>1. \A i \in DOMAIN tasks : tasks[i] \in Tasks  BY <1>2, ElementOfSeq, LenProperties
    <2> QED  BY <2>1 DEF Waiting, Tasks
  <1> QED  BY <1>3, <1>5, <1>6 DEF OneEach

LEMMA InitTypes == Init => TypeOK
  <1> SUFFICES ASSUME Init PROVE TypeOK  OBVIOUS
  <1>1. clock \in Deadlines  BY HalfFacts DEF Init, Deadlines
  <1>2. tasks \in Seq(Tasks) /\ DOMAIN tasks = {} /\ running = {}
      BY EmptySeq, LenProperties DEF Init
  <1>3. OneEach(tasks)  BY <1>2 DEF OneEach
  <1> QED  BY <1>1, <1>2, <1>3, TypesOfTasks

LEMMA ClockTicks ==
  ASSUME clock \in Deadlines, Tick
  PROVE  clock' \in Deadlines
  <1>1. clock + 1 \in Int  BY HalfFacts DEF Deadlines
  <1> QED  BY <1>1, HalfFacts DEF Tick, Deadlines

LEMMA StepTypes == TypeOK /\ [Next]_vars => TypeOK'
  <1> SUFFICES ASSUME TypeOK, [Next]_vars PROVE TypeOK'  OBVIOUS
  <1>1. /\ clock \in Deadlines /\ tasks \in Seq(Tasks) /\ OneEach(tasks)
        /\ running \subseteq Jobs /\ running \cap Waiting = {}
      BY TypesOfTasks
  <1>2. SUFFICES /\ clock' \in Deadlines /\ tasks' \in Seq(Tasks) /\ OneEach(tasks)'
                 /\ running' \subseteq Jobs /\ running' \cap Waiting' = {}
      BY TypesOfTasks, Zenon DEF TypeOK, Deadlines, Tasks, OneEach
  <1>3. ASSUME NEW j \in Jobs, NEW delay \in FirstDelays, Schedule(j, delay)
        PROVE  /\ clock' \in Deadlines /\ tasks' \in Seq(Tasks) /\ OneEach(tasks)'
               /\ running' \subseteq Jobs /\ running' \cap Waiting' = {}
    <2>1. delay \in Nat  BY SchedulerAssumption
    <2>2. j \notin Waiting /\ j \notin running /\ tasks' = Pushed(tasks, Task(j, delay))
          /\ clock' = clock /\ running' = running
        BY <1>3 DEF Schedule
    <2>3. tasks' \in Seq(Tasks) /\ OneEach(tasks)' /\ Waiting' = Waiting \cup {j}
        BY <2>1, <2>2, TypesAreScheduled
    <2> QED  BY <1>1, <2>2, <2>3
  <1>4. ASSUME RunFront
        PROVE  /\ clock' \in Deadlines /\ tasks' \in Seq(Tasks) /\ OneEach(tasks)'
               /\ running' \subseteq Jobs /\ running' \cap Waiting' = {}
    <2>1. clock' = clock /\ running' = {Head(tasks).job}  BY <1>4 DEF RunFront
    <2>2. tasks' \in Seq(Tasks) /\ OneEach(tasks)' /\ Waiting' = Waiting \ {Head(tasks).job}
          /\ Head(tasks).job \in Waiting /\ Waiting \subseteq Jobs
        BY <1>4, TypesAreRun
    <2> QED  BY <1>1, <2>1, <2>2
  <1>5. ASSUME FunctionEnds
        PROVE  /\ clock' \in Deadlines /\ tasks' \in Seq(Tasks) /\ OneEach(tasks)'
               /\ running' \subseteq Jobs /\ running' \cap Waiting' = {}
    <2>1. PICK j \in running :
            tasks' = IF j \in Once THEN tasks ELSE Pushed(tasks, Task(j, Delay[j]))
        BY <1>5 DEF FunctionEnds
    <2>2. running' = {} /\ clock' = clock  BY <1>5 DEF FunctionEnds
    <2>3. j \in Jobs /\ j \notin Waiting  BY <1>1
    <2>4. CASE j \in Once
      <3>1. tasks' = tasks  BY <2>1, <2>4
      <3> QED  BY <1>1, <2>2, <3>1 DEF OneEach
    <2>5. CASE j \notin Once
      <3>1. Delay[j] \in Nat  BY <2>3, <2>5, SchedulerAssumption
      <3>2. tasks' = Pushed(tasks, Task(j, Delay[j]))  BY <2>1, <2>5
      <3>3. tasks' \in Seq(Tasks) /\ OneEach(tasks)'  BY <2>3, <3>1, <3>2, TypesAreScheduled
      <3> QED  BY <1>1, <2>2, <3>3
    <2> QED  BY <2>4, <2>5
  <1>6. CASE Tick
    <2>1. tasks' = tasks /\ running' = running  BY <1>6 DEF Tick
    <2>2. clock' \in Deadlines  BY <1>1, <1>6, ClockTicks
    <2> QED  BY <1>1, <2>1, <2>2 DEF OneEach, Waiting
  <1>7. CASE UNCHANGED vars
      BY <1>1, <1>7 DEF vars, OneEach, Waiting
  <1>8. CASE NothingToRun  BY <1>7, <1>8 DEF NothingToRun
  <1> QED  BY <1>3, <1>4, <1>5, <1>6, <1>7, <1>8 DEF Next

\* Whatever the deadlines: no task is lost or doubled by the heap, no job waits
\* twice or waits while it runs.
THEOREM JobsWaitOnce == Spec => []TypeOK
  <1> QED  BY InitTypes, StepTypes, PTL DEF Spec

\* The tasks that wait belong to the clock's half of the range or to a later
\* time, none is later than MaxLate, and the heap is in the order of the time
\* they have left; one function runs at most.
InOrder ==
  /\ TypeOK
  /\ \A t \in Held(tasks) : SameHalf(t) /\ TimeLeft(t) >= -MaxLate
  /\ Ordered(tasks)
  /\ running = {} \/ \E j \in Jobs : running = {j}

LEMMA HeldTypes ==
  ASSUME NEW S, NEW q \in Seq(S)
  PROVE  Held(q) \subseteq S /\ q \in Seq(Held(q))
  <1>1. DOMAIN q = 1..Len(q) /\ Len(q) \in Nat /\ \A i \in 1..Len(q) : q[i] \in S
      BY LenProperties, ElementOfSeq
  <1>2. Held(q) \subseteq S  BY <1>1 DEF Held
  <1>3. \A i \in 1..Len(q) : q[i] \in Held(q)  BY <1>1 DEF Held
  <1>4. q = [i \in 1..Len(q) |-> q[i]]  BY <1>1
  <1>5. q \in Seq(Held(q))  BY <1>1, <1>3, <1>4, IsASeq
  <1> QED  BY <1>2, <1>5

LEMMA InOrderByTime ==
  ASSUME clock \in Deadlines, NEW S, \A t \in S : t.due \in Deadlines /\ SameHalf(t)
  PROVE  ByTime(S)
  <1>1. \A a \in S : TimeLeft(a) \in Int  BY DueOf
  <1>2. \A a, b \in S : Compare(a, b) <=> TimeLeft(a) >= TimeLeft(b)  BY CompareIsRealTime
  <1> QED  BY <1>1, <1>2 DEF ByTime

LEMMA OrderedLater ==
  ASSUME clock' = clock, Ordered(tasks')
  PROVE  Ordered(tasks)'
  <1>1. \A t : TimeLeft(t)' = TimeLeft(t)  BY DEF TimeLeft
  <1>2. ASSUME NEW i \in 2..Len(tasks')
        PROVE  TimeLeft(tasks[i \div 2])' <= TimeLeft(tasks[i])'
      BY <1>2 DEF Ordered, OrderedBut, TimeLeft
  <1> QED  BY <1>2 DEF Ordered, OrderedBut

\* Scheduling keeps the order.
LEMMA OrderIsScheduled ==
  ASSUME InOrder, NEW j \in Jobs, NEW delay \in Nat, delay + MaxLate < Half, j \notin Waiting,
         tasks' = Pushed(tasks, Task(j, delay)), clock' = clock
  PROVE  /\ (\A t \in Held(tasks) : SameHalf(t) /\ TimeLeft(t) >= -MaxLate)'
         /\ Ordered(tasks)'
  <1> DEFINE new == Task(j, delay)
             S == Held(tasks) \cup {new}
  <1>1. TypeOK /\ Ordered(tasks) /\ \A t \in Held(tasks) : SameHalf(t) /\ TimeLeft(t) >= -MaxLate
      BY DEF InOrder
  <1>2. clock \in Deadlines /\ tasks \in Seq(Tasks) /\ OneEach(tasks)  BY <1>1, TypesOfTasks
  <1>3. delay \in 0..Half /\ MaxLate \in Nat  BY HalfFacts, SchedulerAssumption
  <1>4. new \in Tasks /\ TimeLeft(new) = delay /\ SameHalf(new)
      BY <1>2, <1>3, TaskIsATask, ScheduledInOrder
  <1>5. Held(tasks') = S  BY <1>1, TypesAreScheduled
  <1>6. Held(tasks) \subseteq Tasks /\ tasks \in Seq(Held(tasks))  BY <1>2, HeldTypes
  <1>7. \A t \in S : t.due \in Deadlines /\ SameHalf(t) /\ TimeLeft(t) >= -MaxLate
    <2>1. TimeLeft(new) >= -MaxLate  BY <1>3, <1>4
    <2>2. \A t \in Tasks : t.due \in Deadlines  BY DEF Tasks
    <2> HIDE DEF new
    <2> QED  BY <1>1, <1>4, <1>6, <2>1, <2>2
  <1>8. ByTime(S)  BY <1>2, <1>7, InOrderByTime
  <1>9. tasks \in Seq(S) /\ new \in S  BY <1>6, SeqMonotonic
  <1> HIDE DEF S, new
  <1>10. Ordered(tasks')  BY <1>1, <1>8, <1>9, PushedIsOrdered DEF new
  <1>11. Ordered(tasks)'  BY <1>10, OrderedLater
  <1>12. (\A t \in Held(tasks) : SameHalf(t) /\ TimeLeft(t) >= -MaxLate)'
    <2>1. ASSUME NEW t \in Held(tasks') PROVE SameHalf(t)' /\ (TimeLeft(t) >= -MaxLate)'
      <3>1. SameHalf(t) /\ TimeLeft(t) >= -MaxLate  BY <1>5, <1>7, <2>1
      <3> QED  BY <3>1 DEF SameHalf, TimeLeft
    <2> QED  BY <2>1
  <1> QED  BY <1>11, <1>12

LEMMA StepInOrder == Punctual /\ InOrder /\ [Next]_vars => InOrder'
  <1> SUFFICES ASSUME Punctual, InOrder, [Next]_vars PROVE InOrder'  OBVIOUS
  <1>1. /\ TypeOK /\ Ordered(tasks)
        /\ \A t \in Held(tasks) : SameHalf(t) /\ TimeLeft(t) >= -MaxLate
        /\ running = {} \/ \E j \in Jobs : running = {j}
      BY DEF InOrder
  <1>2. clock \in Deadlines /\ tasks \in Seq(Tasks) /\ OneEach(tasks) /\ running \subseteq Jobs
        /\ running \cap Waiting = {}
      BY <1>1, TypesOfTasks
  <1>3. TypeOK'  BY <1>1, StepTypes
  <1> SUFFICES /\ (\A t \in Held(tasks) : SameHalf(t) /\ TimeLeft(t) >= -MaxLate)'
               /\ Ordered(tasks)'
               /\ running' = {} \/ \E j \in Jobs : running' = {j}
      BY <1>3 DEF InOrder
  <1>4. ASSUME UNCHANGED vars
        PROVE  /\ (\A t \in Held(tasks) : SameHalf(t) /\ TimeLeft(t) >= -MaxLate)'
               /\ Ordered(tasks)'
               /\ running' = {} \/ \E j \in Jobs : running' = {j}
    <2>1. tasks' = tasks /\ clock' = clock /\ running' = running  BY <1>4 DEF vars
    <2>2. Ordered(tasks)'  BY <1>1, <2>1, OrderedLater
    <2>3. (\A t \in Held(tasks) : SameHalf(t) /\ TimeLeft(t) >= -MaxLate)'
        BY <1>1, <2>1 DEF SameHalf, TimeLeft, Held
    <2> QED  BY <1>1, <2>1, <2>2, <2>3
  <1>5. ASSUME NEW j \in Jobs, NEW delay \in FirstDelays, Schedule(j, delay)
        PROVE  /\ (\A t \in Held(tasks) : SameHalf(t) /\ TimeLeft(t) >= -MaxLate)'
               /\ Ordered(tasks)'
               /\ running' = {} \/ \E k \in Jobs : running' = {k}
    <2>1. delay \in Nat /\ delay + MaxLate < Half  BY SchedulerAssumption
    <2>2. j \notin Waiting /\ tasks' = Pushed(tasks, Task(j, delay))
          /\ clock' = clock /\ running' = running
        BY <1>5 DEF Schedule
    <2>3. (\A t \in Held(tasks) : SameHalf(t) /\ TimeLeft(t) >= -MaxLate)' /\ Ordered(tasks)'
        BY <2>1, <2>2, OrderIsScheduled
    <2> QED  BY <1>1, <2>2, <2>3
  <1>6. ASSUME RunFront
        PROVE  /\ (\A t \in Held(tasks) : SameHalf(t) /\ TimeLeft(t) >= -MaxLate)'
               /\ Ordered(tasks)'
               /\ running' = {} \/ \E k \in Jobs : running' = {k}
    <2>1. /\ clock' = clock /\ running' = {Head(tasks).job} /\ tasks' = Popped(tasks)
          /\ tasks # <<>>
        BY <1>6 DEF RunFront
    <2>2. Held(tasks') = {x \in Held(tasks) : x.job # Head(tasks).job}
          /\ Head(tasks).job \in Jobs
        BY <1>1, <1>6, TypesAreRun
    <2>3. Held(tasks) \subseteq Tasks /\ tasks \in Seq(Held(tasks))  BY <1>2, HeldTypes
    <2>4. ByTime(Held(tasks))
      <3>1. \A t \in Held(tasks) : t.due \in Deadlines /\ SameHalf(t)
          BY <1>1, <2>3 DEF Tasks
      <3> QED  BY <1>2, <3>1, InOrderByTime
    <2>5. Ordered(tasks')  BY <1>1, <2>1, <2>3, <2>4, PoppedIsOrdered
    <2>6. Ordered(tasks)'  BY <2>1, <2>5, OrderedLater
    <2>7. (\A t \in Held(tasks) : SameHalf(t) /\ TimeLeft(t) >= -MaxLate)'
      <3>1. ASSUME NEW t \in Held(tasks') PROVE SameHalf(t)' /\ (TimeLeft(t) >= -MaxLate)'
        <4>1. SameHalf(t) /\ TimeLeft(t) >= -MaxLate  BY <1>1, <2>2, <3>1
        <4> QED  BY <2>1, <4>1 DEF SameHalf, TimeLeft
      <3> QED  BY <3>1
    <2> QED  BY <2>1, <2>2, <2>6, <2>7
  <1>7. ASSUME FunctionEnds
        PROVE  /\ (\A t \in Held(tasks) : SameHalf(t) /\ TimeLeft(t) >= -MaxLate)'
               /\ Ordered(tasks)'
               /\ running' = {} \/ \E k \in Jobs : running' = {k}
    <2>1. PICK j \in running :
            tasks' = IF j \in Once THEN tasks ELSE Pushed(tasks, Task(j, Delay[j]))
        BY <1>7 DEF FunctionEnds
    <2>2. running' = {} /\ clock' = clock  BY <1>7 DEF FunctionEnds
    <2>3. j \in Jobs /\ j \notin Waiting  BY <1>2
    <2>4. CASE j \in Once
      <3>1. tasks' = tasks  BY <2>1, <2>4
      <3>2. Ordered(tasks)'  BY <1>1, <2>2, <3>1, OrderedLater
      <3>3. (\A t \in Held(tasks) : SameHalf(t) /\ TimeLeft(t) >= -MaxLate)'
          BY <1>1, <2>2, <3>1 DEF SameHalf, TimeLeft, Held
      <3> QED  BY <2>2, <3>2, <3>3
    <2>5. CASE j \notin Once
      <3>1. Delay[j] \in Nat /\ Delay[j] + MaxLate < Half  BY <2>3, <2>5, SchedulerAssumption
      <3>2. tasks' = Pushed(tasks, Task(j, Delay[j]))  BY <2>1, <2>5
      <3>3. (\A t \in Held(tasks) : SameHalf(t) /\ TimeLeft(t) >= -MaxLate)' /\ Ordered(tasks)'
          BY <2>2, <2>3, <3>1, <3>2, OrderIsScheduled
      <3> QED  BY <2>2, <3>3
    <2> QED  BY <2>4, <2>5
  <1>8. ASSUME Tick
        PROVE  /\ (\A t \in Held(tasks) : SameHalf(t) /\ TimeLeft(t) >= -MaxLate)'
               /\ Ordered(tasks)'
               /\ running' = {} \/ \E k \in Jobs : running' = {k}
    <2>1. tasks' = tasks /\ running' = running /\ OnTime(MaxLate)  BY <1>8 DEF Tick
    <2>2. DOMAIN tasks = 1..Len(tasks) /\ Len(tasks) \in Nat
          /\ \A i \in 1..Len(tasks) : tasks[i] \in Tasks
        BY <1>2, LenProperties, ElementOfSeq
    <2>3. \A i \in DOMAIN tasks : tasks[i] \in Held(tasks) /\ tasks[i].due \in Deadlines
        BY <2>2 DEF Held, Tasks
    <2>4. \A i \in DOMAIN tasks :
            TimeLeft(tasks[i])' = TimeLeft(tasks[i]) - 1 /\ SameHalf(tasks[i])'
        BY <1>1, <1>2, <1>8, <2>3, TickKeepsOrder
    <2>5. \A i \in DOMAIN tasks : TimeLeft(tasks[i]) \in Int  BY <1>1, <1>2, <2>3, DueOf
    <2>6. MaxLate \in Nat  BY SchedulerAssumption
    <2>7. \A i \in DOMAIN tasks : TimeLeft(tasks[i])' >= -MaxLate
      <3>1. ASSUME NEW i \in DOMAIN tasks PROVE TimeLeft(tasks[i])' >= -MaxLate
        <4>1. TimeLeft(tasks[i]) > -MaxLate  BY <2>1 DEF OnTime
        <4>2. TimeLeft(tasks[i])' = TimeLeft(tasks[i]) - 1 /\ TimeLeft(tasks[i]) \in Int
            BY <2>4, <2>5
        <4> QED  BY <2>6, <4>1, <4>2
      <3> QED  BY <3>1
    <2>8. (\A t \in Held(tasks) : SameHalf(t) /\ TimeLeft(t) >= -MaxLate)'
      <3>1. ASSUME NEW t \in Held(tasks)' PROVE SameHalf(t)' /\ (TimeLeft(t) >= -MaxLate)'
        <4>1. PICK i \in DOMAIN tasks : t = tasks[i] /\ t = tasks'[i]  BY <2>1 DEF Held
        <4>2. SameHalf(tasks[i])' /\ TimeLeft(tasks[i])' >= -MaxLate  BY <2>4, <2>7
        <4> QED  BY <4>1, <4>2 DEF SameHalf, TimeLeft
      <3> QED  BY <3>1
    <2>9. Ordered(tasks)'
      <3>1. ASSUME NEW i \in 2..Len(tasks)
            PROVE  TimeLeft(tasks[i \div 2])' <= TimeLeft(tasks[i])'
        <4>1. i \in Nat /\ i >= 2 /\ i <= Len(tasks)  BY <2>2
        <4>2. i \in DOMAIN tasks /\ i \div 2 \in DOMAIN tasks  BY <2>2, <4>1, HalfOf
        <4>3. TimeLeft(tasks[i \div 2]) <= TimeLeft(tasks[i])
            BY <1>1, <4>1 DEF Ordered, OrderedBut
        <4> QED  BY <2>4, <2>5, <4>2, <4>3
      <3> QED  BY <2>1, <3>1 DEF Ordered, OrderedBut
    <2> QED  BY <1>1, <2>1, <2>8, <2>9
  <1>9. CASE NothingToRun  BY <1>4, <1>9 DEF NothingToRun
  <1> QED  BY <1>4, <1>5, <1>6, <1>7, <1>8, <1>9 DEF Next

\* While no task is late when the clock leaves a half of its range, the heap is
\* in the order of real time.
THEOREM HeapInOrder == ASSUME Punctual PROVE Spec => []InOrder
  <1>1. Init => InOrder
    <2> SUFFICES ASSUME Init PROVE InOrder  OBVIOUS
    <2>1. TypeOK  BY InitTypes
    <2>2. tasks = <<>> /\ running = {}  BY DEF Init
    <2>3. DOMAIN tasks = {} /\ Len(tasks) = 0  BY <2>2, EmptySeq
    <2>4. Held(tasks) = {}  BY <2>3 DEF Held
    <2>5. Ordered(tasks)  BY <2>3 DEF Ordered, OrderedBut
    <2> QED  BY <2>1, <2>2, <2>4, <2>5 DEF InOrder
  <1>2. InOrder /\ [Next]_vars => InOrder'  BY StepInOrder
  <1> QED  BY <1>1, <1>2, PTL DEF Spec

---------------------------------------------------------------------------
(* A queue of timers.                                                      *)

\* The task of a job, and the times left, of a heap of tasks at a time.
Taken(q, j) == CHOOSE t \in Held(q) : t.job = j

TimesLeft(q, now) == [j \in {x.job : x \in Held(q)} |-> Signed(now, Taken(q, j).due)]

LEMMA TimesLeftAre ==
  ASSUME NEW q, OneEach(q), NEW now
  PROVE  /\ DOMAIN TimesLeft(q, now) = {x.job : x \in Held(q)}
         /\ TimesLeft(q, now) = [j \in {x.job : x \in Held(q)} |-> TimesLeft(q, now)[j]]
         /\ \A x \in Held(q) : TimesLeft(q, now)[x.job] = Signed(now, x.due)
  <1>1. ASSUME NEW x \in Held(q) PROVE Taken(q, x.job) = x
    <2>1. \A y \in Held(q) : y.job = x.job => y = x  BY DEF OneEach, Held
    <2> QED  BY <2>1 DEF Taken
  <1>2. ASSUME NEW x \in Held(q) PROVE TimesLeft(q, now)[x.job] = Signed(now, x.due)
      BY <1>1 DEF TimesLeft
  <1>3. DOMAIN TimesLeft(q, now) = {x.job : x \in Held(q)}  BY DEF TimesLeft
  <1>4. TimesLeft(q, now) = [j \in DOMAIN TimesLeft(q, now) |-> TimesLeft(q, now)[j]]
      BY Zenon DEF TimesLeft
  <1> QED  BY <1>2, <1>3, <1>4

\* The mapping of the refinement is made of them.
LEMMA MappedTimes ==
  /\ [j \in Waiting |-> TimeLeft(TimerOf(j))] = TimesLeft(tasks, clock)
  /\ ([j \in Waiting |-> TimeLeft(TimerOf(j))])' = TimesLeft(tasks', clock')
  <1>1. \A j : TimerOf(j) = Taken(tasks, j)  BY DEF TimerOf, Taken, Held
  <1>2. \A j : TimerOf(j)' = Taken(tasks', j)  BY DEF TimerOf, Taken, Held
  <1>3. Waiting = {x.job : x \in Held(tasks)} /\ Waiting' = {x.job : x \in Held(tasks')}
      BY DEF Waiting, Held
  <1>4. \A j : TimeLeft(TimerOf(j)) = Signed(clock, Taken(tasks, j).due)
      BY <1>1 DEF TimeLeft, Signed
  <1>5. \A j : TimeLeft(TimerOf(j))' = Signed(clock', Taken(tasks', j).due)
      BY <1>2 DEF TimeLeft, Signed
  <1>6. [j \in Waiting |-> TimeLeft(TimerOf(j))] = TimesLeft(tasks, clock)
      BY <1>3, <1>4 DEF TimesLeft
  <1>7. ([j \in Waiting |-> TimeLeft(TimerOf(j))])' = TimesLeft(tasks', clock')
      BY <1>3, <1>5 DEF TimesLeft
  <1> QED  BY <1>6, <1>7

Added(A, j, time) == [k \in DOMAIN A \cup {j} |-> IF k = j THEN time ELSE A[k]]

Without(A, j) == [k \in DOMAIN A \ {j} |-> A[k]]

LEMMA TimesWithTask ==
  ASSUME NEW q, OneEach(q), NEW r, OneEach(r), NEW t, Held(r) = Held(q) \cup {t},
         \A x \in Held(q) : x.job # t.job, NEW now
  PROVE  TimesLeft(r, now) = Added(TimesLeft(q, now), t.job, Signed(now, t.due))
  <1> DEFINE A == TimesLeft(q, now)
             B == TimesLeft(r, now)
             C == [k \in DOMAIN A \cup {t.job} |-> IF k = t.job THEN Signed(now, t.due) ELSE A[k]]
  <1>1. /\ DOMAIN A = {x.job : x \in Held(q)} /\ DOMAIN B = {x.job : x \in Held(r)}
        /\ B = [k \in {x.job : x \in Held(r)} |-> B[k]]
        /\ \A x \in Held(q) : A[x.job] = Signed(now, x.due)
        /\ \A x \in Held(r) : B[x.job] = Signed(now, x.due)
    <2>1. /\ DOMAIN TimesLeft(q, now) = {x.job : x \in Held(q)}
          /\ \A x \in Held(q) : TimesLeft(q, now)[x.job] = Signed(now, x.due)
        BY TimesLeftAre
    <2>2. /\ DOMAIN TimesLeft(r, now) = {x.job : x \in Held(r)}
          /\ TimesLeft(r, now) = [k \in {x.job : x \in Held(r)} |-> TimesLeft(r, now)[k]]
          /\ \A x \in Held(r) : TimesLeft(r, now)[x.job] = Signed(now, x.due)
        BY TimesLeftAre
    <2> QED  BY <2>1, <2>2
  <1> HIDE DEF A, B
  <1>2. {x.job : x \in Held(r)} = DOMAIN A \cup {t.job}  BY <1>1
  <1>3. ASSUME NEW k \in DOMAIN A \cup {t.job} PROVE B[k] = C[k]
    <2>1. PICK x \in Held(r) : k = x.job  BY <1>2
    <2>2. CASE x = t  BY <1>1, <2>1, <2>2
    <2>3. CASE x # t
      <3>1. x \in Held(q) /\ k # t.job  BY <2>1, <2>3
      <3> QED  BY <1>1, <2>1, <3>1
    <2> QED  BY <2>2, <2>3
  <1>4. B = [k \in DOMAIN A \cup {t.job} |-> B[k]]  BY <1>1, <1>2
  <1> QED  BY <1>3, <1>4 DEF A, B, Added

LEMMA TimesWithoutTask ==
  ASSUME NEW q, OneEach(q), NEW r, OneEach(r), NEW j,
         Held(r) = {x \in Held(q) : x.job # j}, NEW now
  PROVE  TimesLeft(r, now) = Without(TimesLeft(q, now), j)
  <1> DEFINE A == TimesLeft(q, now)
             B == TimesLeft(r, now)
  <1>1. /\ DOMAIN A = {x.job : x \in Held(q)} /\ DOMAIN B = {x.job : x \in Held(r)}
        /\ B = [k \in {x.job : x \in Held(r)} |-> B[k]]
        /\ \A x \in Held(q) : A[x.job] = Signed(now, x.due)
        /\ \A x \in Held(r) : B[x.job] = Signed(now, x.due)
    <2>1. /\ DOMAIN TimesLeft(q, now) = {x.job : x \in Held(q)}
          /\ \A x \in Held(q) : TimesLeft(q, now)[x.job] = Signed(now, x.due)
        BY TimesLeftAre
    <2>2. /\ DOMAIN TimesLeft(r, now) = {x.job : x \in Held(r)}
          /\ TimesLeft(r, now) = [k \in {x.job : x \in Held(r)} |-> TimesLeft(r, now)[k]]
          /\ \A x \in Held(r) : TimesLeft(r, now)[x.job] = Signed(now, x.due)
        BY TimesLeftAre
    <2> QED  BY <2>1, <2>2
  <1> HIDE DEF A, B
  <1>2. {x.job : x \in Held(r)} = DOMAIN A \ {j}  BY <1>1
  <1>3. ASSUME NEW k \in DOMAIN A \ {j} PROVE B[k] = A[k]
    <2>1. PICK x \in Held(r) : k = x.job  BY <1>2
    <2> QED  BY <1>1, <2>1
  <1>4. B = [k \in DOMAIN A \ {j} |-> B[k]]  BY <1>1, <1>2
  <1> QED  BY <1>3, <1>4 DEF A, B, Without

\* Every step is a step of the queue of timers, or none.
LEMMA StepIsATimersStep ==
  ASSUME Punctual, InOrder, InOrder', [Next]_vars
  PROVE  [Timers!Next]_(Timers!vars)
  <1> DEFINE A == TimesLeft(tasks, clock)
             B == TimesLeft(tasks', clock')
  <1>1. /\ TypeOK /\ Ordered(tasks)
        /\ \A t \in Held(tasks) : SameHalf(t) /\ TimeLeft(t) >= -MaxLate
        /\ running = {} \/ \E j \in Jobs : running = {j}
      BY DEF InOrder
  <1>2. clock \in Deadlines /\ tasks \in Seq(Tasks) /\ OneEach(tasks) /\ running \subseteq Jobs
        /\ running \cap Waiting = {}
      BY <1>1, TypesOfTasks
  <1>3. OneEach(tasks')
    <2>1. TypeOK'  BY DEF InOrder
    <2> QED  BY <2>1 DEF TypeOK, OneEach
  <1>4. /\ DOMAIN A = Waiting /\ DOMAIN B = Waiting'
        /\ A = [k \in Waiting |-> A[k]] /\ B = [k \in Waiting' |-> B[k]]
        /\ \A x \in Held(tasks) : A[x.job] = TimeLeft(x)
        /\ \A x \in Held(tasks') : B[x.job] = Signed(clock', x.due)
    <2>1. Waiting = {x.job : x \in Held(tasks)} /\ Waiting' = {x.job : x \in Held(tasks')}
        BY DEF Waiting, Held
    <2>2. /\ A = [k \in {x.job : x \in Held(tasks)} |-> A[k]]
          /\ \A x \in Held(tasks) : A[x.job] = Signed(clock, x.due)
        BY <1>2, TimesLeftAre
    <2>3. /\ B = [k \in {x.job : x \in Held(tasks')} |-> B[k]]
          /\ \A x \in Held(tasks') : B[x.job] = Signed(clock', x.due)
        BY <1>3, TimesLeftAre
    <2> HIDE DEF A, B
    <2>4. A = [k \in Waiting |-> A[k]] /\ B = [k \in Waiting' |-> B[k]]  BY <2>1, <2>2, <2>3
    <2>5. DOMAIN A = Waiting /\ DOMAIN B = Waiting'  BY <2>4
    <2>6. \A x \in Held(tasks) : A[x.job] = TimeLeft(x)  BY <2>2, LeftIsSigned
    <2> QED  BY <2>3, <2>4, <2>5, <2>6
  \* The steps of the abstract queue, of the times left and the running jobs.
  <1> DEFINE With(j, time) == [k \in Waiting \cup {j} |-> IF k = j THEN time ELSE A[k]]
             AbsSchedule(j) == /\ j \notin Waiting \cup running
                               /\ j \in Waiting' /\ B[j] >= 0 /\ B = With(j, B[j])
                               /\ running' = running
             AbsRun(j) == /\ running = {} /\ j \in Waiting
                          /\ A[j] <= 0 /\ \A k \in Waiting : A[j] <= A[k]
                          /\ running' = {j}
                          /\ B = [k \in Waiting \ {j} |-> A[k]]
             AbsEnd(j) == /\ running = {j} /\ running' = {}
                          /\ B = IF j \in Once THEN A ELSE With(j, Delay[j])
             AbsTick == B = [k \in Waiting |-> A[k] - 1] /\ running' = running
  <1>5. SUFFICES \/ AbsTick \/ \E j \in Jobs : AbsSchedule(j) \/ AbsRun(j) \/ AbsEnd(j)
                 \/ B = A /\ running' = running
    <2>1. /\ [j \in Waiting |-> TimeLeft(TimerOf(j))] = A
          /\ ([j \in Waiting |-> TimeLeft(TimerOf(j))])' = B
        BY MappedTimes
    <2>2. AbsTick => Timers!Tick
        BY <1>4, <2>1 DEF Timers!Tick, Timers!Waiting
    <2>3. ASSUME NEW j \in Jobs PROVE AbsSchedule(j) => Timers!Schedule(j)
        BY <1>4, <2>1 DEF Timers!Schedule, Timers!Waiting, Timers!With
    <2>4. ASSUME NEW j \in Jobs PROVE AbsRun(j) => Timers!Run(j)
        BY <1>4, <2>1 DEF Timers!Run, Timers!Waiting
    <2>5. ASSUME NEW j \in Jobs PROVE AbsEnd(j) => Timers!End(j)
        BY <1>4, <2>1 DEF Timers!End, Timers!Waiting, Timers!With
    <2>6. B = A /\ running' = running => UNCHANGED Timers!vars
        BY <2>1 DEF Timers!vars
    <2> HIDE DEF AbsTick, AbsSchedule, AbsRun, AbsEnd
    <2> QED  BY <2>2, <2>3, <2>4, <2>5, <2>6 DEF Timers!Next
  <1>6. ASSUME NEW j \in Jobs, NEW delay \in Nat, delay + MaxLate < Half, j \notin Waiting,
               tasks' = Pushed(tasks, Task(j, delay)), clock' = clock
        PROVE  j \in Waiting' /\ B = With(j, delay) /\ B[j] = delay
    <2> DEFINE t == Task(j, delay)
    <2>1. Held(tasks') = Held(tasks) \cup {t} /\ Waiting' = Waiting \cup {j}
        BY <1>1, <1>6, TypesAreScheduled
    <2>2. delay \in 0..Half  BY <1>6, HalfFacts, SchedulerAssumption
    <2>3. t.job = j /\ Signed(clock, t.due) = delay
        BY <1>2, <2>2, TaskIsATask, ScheduledInOrder, LeftIsSigned
    <2>4. \A x \in Held(tasks) : x.job # t.job  BY <1>6, <2>3 DEF Waiting, Held
    <2> HIDE DEF t
    <2>5. B = Added(A, t.job, Signed(clock, t.due))
        BY <1>2, <1>3, <1>6, <2>1, <2>4, TimesWithTask
    <2> HIDE DEF A, B
    <2>6. B = With(j, delay)  BY <1>4, <2>3, <2>5 DEF Added
    <2>7. B[j] = delay  BY <2>6
    <2> QED  BY <2>1, <2>6, <2>7
  <1>7. ASSUME NEW j \in Jobs, NEW delay \in FirstDelays, Schedule(j, delay)
        PROVE  AbsSchedule(j)
    <2>1. delay \in Nat /\ delay + MaxLate < Half  BY SchedulerAssumption
    <2>2. j \notin Waiting /\ j \notin running /\ tasks' = Pushed(tasks, Task(j, delay))
          /\ clock' = clock /\ running' = running
        BY <1>7 DEF Schedule
    <2>3. j \in Waiting' /\ B = With(j, delay) /\ B[j] = delay  BY <1>6, <2>1, <2>2
    <2> HIDE DEF A, B
    <2> QED  BY <2>1, <2>2, <2>3
  <1>8. ASSUME RunFront PROVE \E j \in Jobs : AbsRun(j)
    <2> DEFINE x == Head(tasks)
    <2>1. /\ clock' = clock /\ running' = {x.job} /\ running = {} /\ tasks # <<>>
          /\ DeadlineElapsed(x.due)
        BY <1>8 DEF RunFront
    <2>2. /\ x \in Held(tasks) /\ Held(tasks') = {y \in Held(tasks) : y.job # x.job}
          /\ x.job \in Waiting /\ x.job \in Jobs
        BY <1>1, <1>8, TypesAreRun
    <2>3. Held(tasks) \subseteq Tasks /\ tasks \in Seq(Held(tasks))  BY <1>2, HeldTypes
    <2>4. \A y \in Held(tasks) : y.due \in Deadlines /\ SameHalf(y)
        BY <1>1, <2>3 DEF Tasks
    <2>5. TimeLeft(x) <= 0
      <3>1. TimeLeft(x) \in Int  BY <1>2, <2>2, <2>4, DueOf
      <3>2. TimeLeft(x) >= -MaxLate /\ MaxLate \in Nat /\ MaxLate < Half /\ Half \in Nat
          BY <1>1, <2>2, SchedulerAssumption, HalfFacts
      <3>3. TimeLeft(x) > -Half  BY <3>1, <3>2
      <3> QED  BY <1>2, <2>1, <2>2, <2>4, <3>3, ElapsedIsDue
    <2>6. \A y \in Held(tasks) : TimeLeft(x) <= TimeLeft(y)
      <3>1. ByTime(Held(tasks))  BY <1>2, <2>4, InOrderByTime
      <3>2. \A i \in DOMAIN tasks : TimeLeft(x) <= TimeLeft(tasks[i])
          BY <1>1, <2>3, <3>1, FrontIsFirst
      <3> QED  BY <3>2 DEF Held
    <2>7. B = Without(A, x.job)
        BY <1>2, <1>3, <2>1, <2>2, TimesWithoutTask
    <2>8. \A k \in Waiting : \E y \in Held(tasks) : y.job = k  BY DEF Waiting, Held
    <2> HIDE DEF A, B, x
    <2>9. A[x.job] <= 0 /\ \A k \in Waiting : A[x.job] <= A[k]
      <3>1. A[x.job] = TimeLeft(x)  BY <1>4, <2>2
      <3>2. ASSUME NEW k \in Waiting PROVE A[x.job] <= A[k]
        <4>1. PICK y \in Held(tasks) : y.job = k  BY <2>8
        <4> QED  BY <1>4, <2>6, <3>1, <4>1
      <3> QED  BY <2>5, <3>1, <3>2
    <2>10. B = [k \in Waiting \ {x.job} |-> A[k]]  BY <1>4, <2>7 DEF Without
    <2>11. AbsRun(x.job)  BY <2>1, <2>2, <2>9, <2>10
    <2> QED  BY <2>2, <2>11
  <1>9. ASSUME FunctionEnds PROVE \E j \in Jobs : AbsEnd(j)
    <2>1. PICK j \in running :
            tasks' = IF j \in Once THEN tasks ELSE Pushed(tasks, Task(j, Delay[j]))
        BY <1>9 DEF FunctionEnds
    <2>2. running' = {} /\ clock' = clock  BY <1>9 DEF FunctionEnds
    <2>3. j \in Jobs /\ j \notin Waiting /\ running = {j}  BY <1>1, <1>2
    <2>4. CASE j \in Once
      <3>1. tasks' = tasks  BY <2>1, <2>4
      <3>2. B = A  BY <2>2, <3>1
      <3> HIDE DEF A, B
      <3>3. AbsEnd(j)  BY <2>2, <2>3, <2>4, <3>2
      <3> QED  BY <2>3, <3>3
    <2>5. CASE j \notin Once
      <3>1. Delay[j] \in Nat /\ Delay[j] + MaxLate < Half  BY <2>3, <2>5, SchedulerAssumption
      <3>2. tasks' = Pushed(tasks, Task(j, Delay[j]))  BY <2>1, <2>5
      <3>3. B = With(j, Delay[j])  BY <1>6, <2>2, <2>3, <3>1, <3>2
      <3> HIDE DEF A, B
      <3>4. AbsEnd(j)  BY <2>2, <2>3, <2>5, <3>3
      <3> QED  BY <2>3, <3>4
    <2> QED  BY <2>4, <2>5
  <1>10. ASSUME Tick PROVE AbsTick
    <2>1. tasks' = tasks /\ running' = running /\ Waiting' = Waiting  BY <1>10 DEF Tick, Waiting
    <2>2. DOMAIN tasks = 1..Len(tasks) /\ \A i \in 1..Len(tasks) : tasks[i] \in Tasks
        BY <1>2, LenProperties, ElementOfSeq
    <2>3. \A i \in DOMAIN tasks :
            tasks[i] \in Held(tasks) /\ tasks[i].due \in Deadlines /\ SameHalf(tasks[i])
      <3>1. \A i \in DOMAIN tasks : tasks[i] \in Held(tasks)  BY DEF Held
      <3> QED  BY <1>1, <2>2, <3>1 DEF Tasks
    <2>4. \A i \in DOMAIN tasks : TimeLeft(tasks[i])' = TimeLeft(tasks[i]) - 1
        BY <1>2, <1>10, <2>3, TickKeepsOrder
    <2>5. ASSUME NEW k \in Waiting PROVE B[k] = A[k] - 1
      <3>1. PICK i \in DOMAIN tasks : tasks[i].job = k  BY DEF Waiting
      <3>2. A[k] = TimeLeft(tasks[i])  BY <1>4, <2>3, <3>1
      <3>3. TimeLeft(tasks[i])' = Signed(clock', tasks[i].due)  BY <2>1 DEF TimeLeft, Signed
      <3>4. B[k] = Signed(clock', tasks[i].due)  BY <1>4, <2>1, <2>3, <3>1
      <3> HIDE DEF A, B
      <3> QED  BY <2>4, <3>2, <3>3, <3>4
    <2> HIDE DEF A, B
    <2>6. B = [k \in Waiting |-> A[k] - 1]  BY <1>4, <2>1, <2>5
    <2> QED  BY <2>1, <2>6
  <1>11. CASE UNCHANGED vars
    <2>1. tasks' = tasks /\ clock' = clock /\ running' = running  BY <1>11 DEF vars
    <2>2. B = A  BY <2>1
    <2> QED  BY <2>1, <2>2
  <1>12. CASE NothingToRun  BY <1>11, <1>12 DEF NothingToRun
  <1> HIDE DEF A, B, AbsTick, AbsSchedule, AbsRun, AbsEnd
  <1> QED  BY <1>7, <1>8, <1>9, <1>10, <1>11, <1>12 DEF Next

\* While no task is late when the clock leaves a half of its range, the heap of
\* deadlines that wrap is a queue of timers in the order of real time, for any
\* number of jobs, any delays and any width of the clock.
THEOREM SchedulerIsATimerQueue == ASSUME Punctual PROVE Spec => ImplementsTimers
  <1>1. Init => Timers!Init
    <2> SUFFICES ASSUME Init PROVE Timers!Init  OBVIOUS
    <2>1. tasks = <<>> /\ running = {}  BY DEF Init
    <2>2. DOMAIN tasks = {}  BY <2>1, EmptySeq
    <2>3. Waiting = {}  BY <2>2 DEF Waiting
    <2> QED  BY <2>1, <2>3 DEF Timers!Init
  <1>2. InOrder /\ InOrder' /\ [Next]_vars => [Timers!Next]_(Timers!vars)
      BY StepIsATimersStep
  <1>3. Spec => []InOrder  BY HeapInOrder
  <1> QED  BY <1>1, <1>2, <1>3, PTL DEF Spec, ImplementsTimers, Timers!Spec
=============================================================================
