----------------------------- MODULE FiniteSums -----------------------------
(***************************************************************************)
(* The sum of a function's values over its finite domain: it does not      *)
(* depend on the order in which the values are added.  SumFunction is the  *)
(* fold of the community modules; induction is over the cardinality of     *)
(* subsets, by the least counterexample.                                   *)
(***************************************************************************)
EXTENDS Functions, Integers, FiniteSetTheorems, WellFoundedInduction, TLAPS

\* A set of naturals closed under successor holds them all.
LEMMA NaturalsByInduction ==
  ASSUME NEW S, 0 \in S, \A n \in Nat : n \in S => n + 1 \in S
  PROVE  Nat \subseteq S
<1> SUFFICES ASSUME Nat \ S # {} PROVE FALSE
  OBVIOUS
<1>1. PICK n \in Nat \ S : \A m \in Nat \ S : ~(<<m, n>> \in OpToRel(<, Nat))
  BY NatLessThanWellFounded, WFMin, Zenon
<1>2. \A m \in Nat \ S : ~(m < n)
  BY <1>1, Zenon DEF OpToRel
<1>3. n \in Nat /\ n \notin S /\ n # 0
  BY <1>1
<1> DEFINE m == n - 1
<1>4. m \in Nat /\ m < n /\ m + 1 = n
  BY <1>3
<1> HIDE DEF m
<1>5. m \in S
  BY <1>2, <1>4
<1>6. m + 1 \in S
  BY <1>4, <1>5
<1> QED
  BY <1>3, <1>4, <1>6

Pick(s) == CHOOSE x \in s : TRUE

\* h adds up f over every subset of D, taking one element off at a time.
AddsUp(h, f, D) ==
  /\ h \in [SUBSET D -> Nat] /\ h[{}] = 0
  /\ \A s \in SUBSET D : s # {} => h[s] = f[Pick(s)] + h[s \ {Pick(s)}]

\* The subsets of a finite set, and what taking out an element does to them.
LEMMA SubsetsSmaller ==
  ASSUME NEW D, IsFiniteSet(D), NEW s \in SUBSET D
  PROVE  /\ IsFiniteSet(s) /\ Cardinality(s) \in Nat
         /\ s = {} <=> Cardinality(s) = 0
         /\ \A x \in s : s \ {x} \in SUBSET D /\ Cardinality(s \ {x}) = Cardinality(s) - 1
         /\ s # {} => Pick(s) \in s
<1>1. IsFiniteSet(s) /\ Cardinality(s) \in Nat
  BY FS_Subset, FS_CardinalityType
<1>2. s = {} <=> Cardinality(s) = 0
  BY <1>1, FS_EmptySet
<1>3. \A x \in s : s \ {x} \in SUBSET D /\ Cardinality(s \ {x}) = Cardinality(s) - 1
  BY <1>1, FS_RemoveElement
<1> QED
  BY <1>1, <1>2, <1>3 DEF Pick

\* There is a function that sums f over every subset of its domain.
LEMMA SumsExist ==
  ASSUME NEW D, IsFiniteSet(D), NEW f \in [D -> Nat]
  PROVE  \E h : AddsUp(h, f, D)
<1> DEFINE upTo(h, n) == /\ h \in [SUBSET D -> Nat] /\ h[{}] = 0
                         /\ \A s \in SUBSET D : s # {} /\ Cardinality(s) <= n => h[s] = f[Pick(s)] + h[s \ {Pick(s)}]
           N == {n \in Nat : \E h : upTo(h, n)}
<1>1. 0 \in N
  <2> DEFINE h == [s \in SUBSET D |-> 0]
  <2>1. upTo(h, 0)
    BY SubsetsSmaller
  <2> QED
    BY <2>1
<1>2. ASSUME NEW n \in Nat, n \in N
      PROVE  n + 1 \in N
  <2>1. PICK h : upTo(h, n)
    BY <1>2
  <2> DEFINE g == [s \in SUBSET D |-> IF Cardinality(s) <= n THEN h[s] ELSE f[Pick(s)] + h[s \ {Pick(s)}]]
  <2>2. g \in [SUBSET D -> Nat]
    <3>1. ASSUME NEW s \in SUBSET D
          PROVE  (IF Cardinality(s) <= n THEN h[s] ELSE f[Pick(s)] + h[s \ {Pick(s)}]) \in Nat
      <4>1. h[s] \in Nat
        BY <2>1
      <4>2. CASE ~(Cardinality(s) <= n)
        <5>1. s # {} /\ Pick(s) \in D /\ s \ {Pick(s)} \in SUBSET D
          BY <4>2, SubsetsSmaller
        <5> QED
          BY <2>1, <5>1
      <4> QED
        BY <4>1, <4>2
    <3> QED
      BY <3>1
  <2>3. g[{}] = 0
    BY <2>1, FS_EmptySet
  <2>4. ASSUME NEW s \in SUBSET D, s # {}, Cardinality(s) <= n + 1
        PROVE  g[s] = f[Pick(s)] + g[s \ {Pick(s)}]
    <3>1. /\ s \ {Pick(s)} \in SUBSET D /\ Cardinality(s \ {Pick(s)}) <= n
          /\ Cardinality(s) \in Nat
      BY <2>4, SubsetsSmaller
    <3>2. g[s \ {Pick(s)}] = h[s \ {Pick(s)}]
      BY <3>1
    <3>3. g[s] = f[Pick(s)] + h[s \ {Pick(s)}]
      BY <2>1, <2>4
    <3> QED
      BY <3>2, <3>3
  <2>5. upTo(g, n + 1)
    BY <2>2, <2>3, <2>4
  <2> HIDE DEF g
  <2>6. \E k : upTo(k, n + 1)
    BY <2>5
  <2> QED
    BY <2>6
<1>3. Cardinality(D) \in N
  BY <1>1, <1>2, NaturalsByInduction, FS_CardinalityType
<1>4. PICK h : upTo(h, Cardinality(D))
  BY <1>3
<1>5. \A s \in SUBSET D : Cardinality(s) <= Cardinality(D)
  BY FS_Subset
<1> QED
  BY <1>4, <1>5 DEF AddsUp

\* The fold of the community modules is such a sum.
LEMMA SumIsOne ==
  ASSUME NEW D, IsFiniteSet(D), NEW f \in [D -> Nat]
  PROVE  \E h : AddsUp(h, f, D) /\ SumFunction(f) = h[D]
<1> DEFINE body(iter) == [s \in SUBSET D |-> IF s = {} THEN 0 ELSE f[Pick(s)] + iter[s \ {Pick(s)}]]
           it == CHOOSE iter : iter = body(iter)
<1>1. SumFunction(f) = it[D]
  <2>1. DOMAIN f = D
    OBVIOUS
  <2> QED
    BY <2>1, Zenon DEF SumFunction, SumFunctionOnSet, FoldFunctionOnSet, MapThenFoldSet, Pick
<1>2. PICK h : AddsUp(h, f, D)
  BY SumsExist
<1>3. h = body(h)
  BY <1>2 DEF AddsUp
<1>4. it = body(it)
  BY <1>3, Zenon
<1>5. it = h
  <2> DEFINE N == {n \in Nat : \A s \in SUBSET D : Cardinality(s) = n => it[s] = h[s]}
  <2> HIDE DEF it
  <2>1. \A s \in SUBSET D : it[s] = IF s = {} THEN 0 ELSE f[Pick(s)] + it[s \ {Pick(s)}]
    BY <1>4
  <2>2. 0 \in N
    BY <1>2, <2>1, SubsetsSmaller DEF AddsUp
  <2>3. ASSUME NEW n \in Nat, n \in N
        PROVE  n + 1 \in N
    <3> SUFFICES ASSUME NEW s \in SUBSET D, Cardinality(s) = n + 1
                 PROVE  it[s] = h[s]
      OBVIOUS
    <3>1. s # {} /\ s \ {Pick(s)} \in SUBSET D /\ Cardinality(s \ {Pick(s)}) = n
      BY SubsetsSmaller
    <3>2. it[s \ {Pick(s)}] = h[s \ {Pick(s)}]
      BY <2>3, <3>1
    <3> QED
      BY <1>2, <2>1, <3>1, <3>2 DEF AddsUp
  <2>4. \A s \in SUBSET D : it[s] = h[s]
    <3>1. Nat \subseteq N
      BY <2>2, <2>3, NaturalsByInduction
    <3> QED
      BY <3>1, SubsetsSmaller
  <2>5. it = [s \in SUBSET D |-> it[s]] /\ h = [s \in SUBSET D |-> h[s]]
    BY <1>2, <1>4 DEF AddsUp
  <2> QED
    BY <2>4, <2>5
<1> HIDE DEF it
<1> QED
  BY <1>1, <1>2, <1>5

\* Any element may be taken off first.
LEMMA AnyFirst ==
  ASSUME NEW D, IsFiniteSet(D), NEW f \in [D -> Nat], NEW h, AddsUp(h, f, D)
  PROVE  \A s \in SUBSET D : \A x \in s : h[s] = f[x] + h[s \ {x}]
<1> DEFINE N == {n \in Nat : \A s \in SUBSET D : Cardinality(s) = n => \A x \in s : h[s] = f[x] + h[s \ {x}]}
<1>1. 0 \in N
  BY SubsetsSmaller
<1>2. ASSUME NEW n \in Nat, n \in N
      PROVE  n + 1 \in N
  <2> SUFFICES ASSUME NEW s \in SUBSET D, Cardinality(s) = n + 1, NEW x \in s
               PROVE  h[s] = f[x] + h[s \ {x}]
    OBVIOUS
  <2> DEFINE p == Pick(s)
             rest == s \ {x, p}
  <2>1. /\ p \in s /\ s \ {p} \in SUBSET D /\ s \ {x} \in SUBSET D /\ rest \in SUBSET D
        /\ Cardinality(s \ {p}) = n /\ Cardinality(s \ {x}) = n
    BY SubsetsSmaller
  <2>2. h[s] = f[p] + h[s \ {p}]
    BY DEF AddsUp
  <2> HIDE DEF p
  <2>3. CASE x = p
    BY <2>2, <2>3
  <2>4. CASE x # p
    <3>1. /\ x \in s \ {p} /\ (s \ {p}) \ {x} = rest
          /\ p \in s \ {x} /\ (s \ {x}) \ {p} = rest
      BY <2>1, <2>4
    <3>2. h[s \ {p}] = f[x] + h[rest]
      BY <1>2, <2>1, <3>1
    <3>3. h[s \ {x}] = f[p] + h[rest]
      BY <1>2, <2>1, <3>1
    <3>4. f[x] \in Nat /\ f[p] \in Nat /\ h[rest] \in Nat
      BY <2>1 DEF AddsUp
    <3> HIDE DEF rest
    <3> QED
      BY <2>2, <3>2, <3>3, <3>4
  <2> QED
    BY <2>3, <2>4
<1>3. Nat \subseteq N
  BY <1>1, <1>2, NaturalsByInduction
<1>4. \A s \in SUBSET D : Cardinality(s) \in Nat
  BY SubsetsSmaller
<1> QED
  BY <1>3, <1>4

\* Sums of two functions agree where the functions do.
LEMMA SumsAgree ==
  ASSUME NEW D, IsFiniteSet(D), NEW f \in [D -> Nat], NEW h, AddsUp(h, f, D),
         NEW E \in SUBSET D, NEW g \in [E -> Nat], NEW k, AddsUp(k, g, E),
         \A x \in E : g[x] = f[x]
  PROVE  \A s \in SUBSET E : k[s] = h[s]
<1> DEFINE N == {n \in Nat : \A s \in SUBSET E : Cardinality(s) = n => k[s] = h[s]}
<1>0. IsFiniteSet(E) /\ SUBSET E \subseteq SUBSET D
  BY FS_Subset
<1>1. 0 \in N
  BY <1>0, SubsetsSmaller DEF AddsUp
<1>2. ASSUME NEW n \in Nat, n \in N
      PROVE  n + 1 \in N
  <2> SUFFICES ASSUME NEW s \in SUBSET E, Cardinality(s) = n + 1
               PROVE  k[s] = h[s]
    OBVIOUS
  <2>1. s # {} /\ Pick(s) \in s /\ s \ {Pick(s)} \in SUBSET E /\ Cardinality(s \ {Pick(s)}) = n
    BY <1>0, SubsetsSmaller
  <2>2. k[s] = g[Pick(s)] + k[s \ {Pick(s)}]
    BY <2>1 DEF AddsUp
  <2>3. s \in SUBSET D /\ h[s] = f[Pick(s)] + h[s \ {Pick(s)}]
    BY <1>0, <2>1 DEF AddsUp
  <2>4. k[s \ {Pick(s)}] = h[s \ {Pick(s)}]
    BY <1>2, <2>1
  <2> QED
    BY <2>1, <2>2, <2>3, <2>4
<1>3. Nat \subseteq N
  BY <1>1, <1>2, NaturalsByInduction
<1> QED
  BY <1>0, <1>3, SubsetsSmaller

\* The sum over nothing, and the sum split at one element.
LEMMA SumSplit ==
  ASSUME NEW D, IsFiniteSet(D), NEW f \in [D -> Nat]
  PROVE  /\ SumFunction(f) \in Nat
         /\ D = {} => SumFunction(f) = 0
         /\ \A x \in D : SumFunction(f) = f[x] + SumFunction([y \in D \ {x} |-> f[y]])
<1>1. PICK h : AddsUp(h, f, D) /\ SumFunction(f) = h[D]
  BY SumIsOne
<1>2. SumFunction(f) \in Nat /\ (D = {} => SumFunction(f) = 0)
  BY <1>1 DEF AddsUp
<1>3. ASSUME NEW x \in D
      PROVE  SumFunction(f) = f[x] + SumFunction([y \in D \ {x} |-> f[y]])
  <2> DEFINE E == D \ {x}
             g == [y \in E |-> f[y]]
  <2>1. IsFiniteSet(E) /\ E \in SUBSET D
    BY FS_RemoveElement
  <2>2. g \in [E -> Nat] /\ \A y \in E : g[y] = f[y]
    OBVIOUS
  <2> HIDE DEF g
  <2>3. PICK k : AddsUp(k, g, E) /\ SumFunction(g) = k[E]
    BY <2>1, <2>2, SumIsOne
  <2>4. k[E] = h[E]
    <3> HIDE DEF E
    <3> QED
      BY <1>1, <2>1, <2>2, <2>3, SumsAgree
  <2>5. h[D] = f[x] + h[E]
    BY <1>1, AnyFirst
  <2>6. SumFunction(f) = f[x] + SumFunction(g)
    BY <1>1, <2>3, <2>4, <2>5
  <2> QED
    BY <2>6 DEF g
<1> QED
  BY <1>2, <1>3

\* A sum is one value and the sum of the others.
LEMMA SumTaken ==
  ASSUME NEW D, IsFiniteSet(D), NEW f, f \in [D -> Nat], NEW x, x \in D
  PROVE  SumFunction(f) = f[x] + SumFunction([y \in D \ {x} |-> f[y]])
  BY SumSplit

\* One value more or less, one element more.
LEMMA SumChanged ==
  ASSUME NEW D, IsFiniteSet(D), NEW f \in [D -> Nat], NEW x \in D, NEW n \in Nat
  PROVE  SumFunction([f EXCEPT ![x] = n]) + f[x] = SumFunction(f) + n
<1> DEFINE g == [f EXCEPT ![x] = n]
           rest == [y \in D \ {x} |-> f[y]]
<1>1. g \in [D -> Nat] /\ g[x] = n /\ [y \in D \ {x} |-> g[y]] = rest
  OBVIOUS
<1>2. SumFunction(g) = n + SumFunction([y \in D \ {x} |-> g[y]])
  <2> HIDE DEF g
  <2> QED
    BY <1>1, SumSplit
<1>3. SumFunction(f) = f[x] + SumFunction(rest)
  BY SumSplit
<1>4. SumFunction(rest) \in Nat /\ f[x] \in Nat
  <2>1. IsFiniteSet(D \ {x}) /\ rest \in [D \ {x} -> Nat]
    BY FS_RemoveElement
  <2> HIDE DEF rest
  <2> QED
    BY <2>1, SumSplit
<1> HIDE DEF g, rest
<1>5. SumFunction(g) + f[x] = SumFunction(f) + n
  BY <1>1, <1>2, <1>3, <1>4
<1> QED
  BY <1>5 DEF g

\* A value more adds itself to the sum.
LEMMA SumExtended ==
  ASSUME NEW D, IsFiniteSet(D), NEW x, x \notin D, NEW g \in [D \cup {x} -> Nat]
  PROVE  SumFunction(g) = g[x] + SumFunction([y \in D |-> g[y]])
<1>1. IsFiniteSet(D \cup {x}) /\ (D \cup {x}) \ {x} = D /\ x \in D \cup {x}
  BY FS_AddElement
<1>2. SumFunction(g) = g[x] + SumFunction([y \in (D \cup {x}) \ {x} |-> g[y]])
  <2> DEFINE C == D \cup {x}
  <2>1. IsFiniteSet(C) /\ g \in [C -> Nat] /\ x \in C
    BY <1>1
  <2> HIDE DEF C
  <2>2. SumFunction(g) = g[x] + SumFunction([y \in C \ {x} |-> g[y]])
    BY <2>1, SumSplit
  <2> QED
    BY <2>2 DEF C
<1> QED
  BY <1>1, <1>2

\* order lists D, each element once; r has the values of f in that order from
\* n + 1 on.
ListsOnce(order, k, D) ==
  /\ order \in [1..k -> D]
  /\ \A i, j \in 1..k : order[i] = order[j] => i = j
  /\ \A x \in D : \E i \in 1..k : order[i] = x
HasAfter(r, n, k, order, f) ==
  /\ r \in [1..n + k -> Nat]
  /\ \A i \in 1..k : r[n + i] = f[order[i]]

\* A sequence that lists a set of values once each after others adds them up.
LEMMA SumListed ==
  ASSUME NEW D, IsFiniteSet(D), NEW f, f \in [D -> Nat],
         NEW n, n \in Nat, NEW k, k \in Nat, NEW order, ListsOnce(order, k, D),
         NEW r, HasAfter(r, n, k, order, f)
  PROVE  SumFunction(r) = SumFunction([i \in 1..n |-> r[i]]) + SumFunction(f)
<1> USE DEF ListsOnce, HasAfter
<1> DEFINE taken(m) == {order[i] : i \in 1..m}
           part(m) == [y \in taken(m) |-> f[y]]
           start(m) == [i \in 1..m |-> r[i]]
           N == {m \in Nat : m <= k => SumFunction(start(n + m)) = SumFunction(start(n)) + SumFunction(part(m))}
<1>0. start(n) \in [1..n -> Nat] /\ IsFiniteSet(1..n)
  <2>1. start(n) \in [1..n -> Nat]
    OBVIOUS
  <2>2. IsFiniteSet(1..n)
    BY FS_Interval
  <2> QED
    BY <2>1, <2>2
<1>1. ASSUME NEW m \in Nat, m <= k
      PROVE  /\ taken(m) \subseteq D /\ IsFiniteSet(taken(m)) /\ part(m) \in [taken(m) -> Nat]
             /\ start(n + m) \in [1..n + m -> Nat] /\ IsFiniteSet(1..n + m)
  <2>1. taken(m) \subseteq D
    BY <1>1
  <2>2. start(n + m) \in [1..n + m -> Nat]
    BY <1>1
  <2>3. part(m) \in [taken(m) -> Nat]
    BY <2>1
  <2>4. IsFiniteSet(taken(m)) /\ IsFiniteSet(1..n + m)
    <3> HIDE DEF taken
    <3> QED
      BY <1>1, <2>1, FS_Subset, FS_Interval
  <2> QED
    BY <2>1, <2>2, <2>3, <2>4
<1>2. 0 \in N
  <2>1. taken(0) = {} /\ n + 0 = n
    OBVIOUS
  <2> HIDE DEF part, start, taken
  <2>2. part(0) \in [taken(0) -> Nat] /\ IsFiniteSet(taken(0))
    BY <1>1
  <2>3. SumFunction(part(0)) = 0 /\ SumFunction(start(n)) \in Nat
    BY <1>0, <2>1, <2>2, SumSplit
  <2> QED
    BY <2>1, <2>3
<1>3. ASSUME NEW m \in Nat, m \in N
      PROVE  m + 1 \in N
  <2> SUFFICES ASSUME m + 1 <= k
               PROVE  SumFunction(start(n + (m + 1))) = SumFunction(start(n)) + SumFunction(part(m + 1))
    OBVIOUS
  <2> DEFINE last == order[m + 1]
             l == n + (m + 1)
  <2>1. m <= k /\ m + 1 \in Nat /\ m + 1 \in 1..k /\ last \in D
    OBVIOUS
  <2>2. taken(m + 1) = taken(m) \cup {last} /\ last \notin taken(m)
    <3>1. 1..(m + 1) = 1..m \cup {m + 1} /\ m + 1 \notin 1..m
      OBVIOUS
    <3> QED
      BY <2>1, <3>1
  <2>3. 1..l = 1..(n + m) \cup {l} /\ l \notin 1..(n + m) /\ l \in Nat
    OBVIOUS
  <2>4. r[l] = f[last] /\ f[last] \in Nat
    BY <2>1
  <2>5. SumFunction(start(n + m)) = SumFunction(start(n)) + SumFunction(part(m))
    BY <1>3, <2>1
  <2>6. part(m + 1)[last] = f[last] /\ [y \in taken(m) |-> part(m + 1)[y]] = part(m)
    BY <2>2
  <2>7. start(l)[l] = r[l] /\ [y \in 1..(n + m) |-> start(l)[y]] = start(n + m)
    BY <2>3
  <2> HIDE DEF part, start, taken, last
  <2>8. SumFunction(part(m + 1)) = f[last] + SumFunction(part(m))
    <3>1. part(m + 1) \in [taken(m) \cup {last} -> Nat] /\ IsFiniteSet(taken(m))
      BY <1>1, <2>1, <2>2
    <3> DEFINE g == part(m + 1)
               C == taken(m + 1)
    <3>2. g \in [C -> Nat] /\ IsFiniteSet(C) /\ last \in C /\ C \ {last} = taken(m)
      <4>1. g \in [C -> Nat] /\ IsFiniteSet(C)
        BY <1>1, <2>1
      <4>2. last \in C /\ C \ {last} = taken(m)
        BY <2>2
      <4> QED
        BY <4>1, <4>2
    <3> HIDE DEF g, C
    <3>3. SumFunction(g) = g[last] + SumFunction([y \in C \ {last} |-> g[y]])
      BY ONLY <3>2, SumTaken
    <3> QED
      BY <2>6, <3>2, <3>3 DEF g
  <2>9. SumFunction(start(l)) = f[last] + SumFunction(start(n + m))
    <3>1. start(l) \in [1..l -> Nat] /\ IsFiniteSet(1..n + m)
      BY <1>1, <2>1
    <3> DEFINE g == start(l)
               C == 1..l
    <3>2. g \in [C -> Nat] /\ IsFiniteSet(C) /\ l \in C /\ C \ {l} = 1..n + m
      <4>1. g \in [C -> Nat] /\ IsFiniteSet(1..n + m)
        BY <1>1, <2>1
      <4>2. IsFiniteSet(C) /\ l \in C /\ C \ {l} = 1..n + m
        BY <2>3, FS_Interval
      <4> QED
        BY <4>1, <4>2
    <3> HIDE DEF g, C, l
    <3>3. SumFunction(g) = g[l] + SumFunction([y \in C \ {l} |-> g[y]])
      BY ONLY <3>2, SumTaken
    <3> QED
      BY <2>4, <2>7, <3>2, <3>3 DEF g
  <2>10. SumFunction(start(n)) \in Nat /\ SumFunction(part(m)) \in Nat
    BY <1>0, <1>1, <2>1, SumSplit
  <2>11. SumFunction(start(l)) = SumFunction(start(n)) + SumFunction(part(m + 1))
    <3> DEFINE all == SumFunction(start(l))
               before == SumFunction(start(n + m))
               first == SumFunction(start(n))
               value == f[last]
               listed == SumFunction(part(m))
               more == SumFunction(part(m + 1))
    <3>1. /\ value \in Nat /\ before = first + listed /\ more = value + listed /\ all = value + before
          /\ first \in Nat /\ listed \in Nat
      BY <2>4, <2>5, <2>8, <2>9, <2>10
    <3> HIDE DEF all, before, first, value, listed, more
    <3>2. all = first + more
      BY <3>1
    <3> QED
      BY <3>2 DEF all, first, more
  <2> QED
    BY <2>11
<1>4. SumFunction(start(n + k)) = SumFunction(start(n)) + SumFunction(part(k))
  <2>1. k \in N
    <3> HIDE DEF N
    <3> QED
      BY <1>2, <1>3, NaturalsByInduction
  <2> HIDE DEF start, part
  <2> QED
    BY <2>1
<1>5. start(n + k) = r /\ part(k) = f
  <2>1. taken(k) = D
    OBVIOUS
  <2> QED
    BY <2>1
<1> QED
  BY <1>4, <1>5
=============================================================================
