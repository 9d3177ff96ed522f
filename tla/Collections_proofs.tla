-------------------------- MODULE Collections_proofs --------------------------
(***************************************************************************)
(* Lemmas about numbers, sequences and sums that the other proofs share.   *)
(* The library's induction theorems take an operator, which the provers    *)
(* cannot instantiate: the inductions here take the least counterexample.  *)
(***************************************************************************)
EXTENDS Collections, SequenceTheorems, FiniteSetTheorems, TLAPS

\* A set of numbers has a least element.
LEMMA LeastNumber ==
  ASSUME NEW T, T \subseteq Nat, T # {}
  PROVE  \E m \in T : \A n \in T : m <= n
<1> DEFINE R == {p \in Nat \X Nat : p[1] < p[2]}
<1>1. R = OpToRel(<, Nat)
  BY DEF OpToRel
<1>2. IsWellFoundedOn(R, Nat)
  BY <1>1, NatLessThanWellFounded, Zenon
<1> HIDE DEF R
<1>3. PICK m \in T : \A n \in T : ~ (<<n, m>> \in R)
  BY <1>2, WFMin
<1>4. ASSUME NEW n \in T PROVE m <= n
  <2>1. <<n, m>> \notin R /\ n \in Nat /\ m \in Nat
    BY <1>3
  <2> QED BY <2>1 DEF R
<1> QED BY <1>4

\* Induction up to a bound, for a set of numbers.
LEMMA AllUpTo ==
  ASSUME NEW b \in Nat, NEW T, 0 \in T, \A n \in 0..b - 1 : n \in T => n + 1 \in T
  PROVE  0..b \subseteq T
<1> DEFINE bad == {n \in 0..b : n \notin T}
<1>1. SUFFICES ASSUME bad # {} PROVE FALSE
  OBVIOUS
<1>2. PICK m \in bad : \A n \in bad : m <= n
  <2>1. bad \subseteq Nat
    OBVIOUS
  <2> HIDE DEF bad
  <2> QED BY <1>1, <2>1, LeastNumber
<1>3. m \in Nat /\ m <= b /\ m # 0 /\ m \notin T
  BY <1>2
<1>4. m - 1 \in 0..b - 1 /\ m - 1 \notin bad
  BY <1>2, <1>3
<1>5. m - 1 \in T
  BY <1>4
<1> QED BY <1>3, <1>4, <1>5

\* The recursion of Sift: what it has kept of the first n elements.
LEMMA SiftRecursion ==
  ASSUME NEW X, NEW s \in Seq(X), NEW S
  PROVE  \E kept :
           /\ Sift(s, S) = kept[Len(s)]
           /\ kept[0] = <<>>
           /\ \A n \in 1..Len(s) :
                kept[n] = IF s[n] \in S THEN Append(kept[n - 1], s[n]) ELSE kept[n - 1]
<1> DEFINE Def(f, m) == f = [n \in 0..m |->
             IF n = 0 THEN <<>>
             ELSE IF s[n] \in S THEN Append(f[n - 1], s[n]) ELSE f[n - 1]]
           T == {m \in Nat : \E f : Def(f, m)}
<1>1. Len(s) \in Nat
  OBVIOUS
<1>2. 0 \in T
  <2>1. Def([n \in 0..0 |-> <<>>], 0)
    OBVIOUS
  <2> QED BY <2>1
<1>3. ASSUME NEW m \in 0..Len(s) - 1, m \in T
      PROVE  m + 1 \in T
  <2>1. PICK f : Def(f, m)
    BY <1>3
  <2> DEFINE g == [n \in 0..m + 1 |->
               IF n <= m THEN f[n]
               ELSE IF s[n] \in S THEN Append(f[n - 1], s[n]) ELSE f[n - 1]]
  <2>2. \A n \in 0..m : g[n] = f[n]
    BY <1>1
  <2>3. \A n \in 0..m : f[n] = IF n = 0 THEN <<>>
             ELSE IF s[n] \in S THEN Append(f[n - 1], s[n]) ELSE f[n - 1]
    BY <2>1, Zenon
  <2>4. \A n \in 0..m + 1 : g[n] = IF n = 0 THEN <<>>
             ELSE IF s[n] \in S THEN Append(g[n - 1], s[n]) ELSE g[n - 1]
    <3> SUFFICES ASSUME NEW n \in 0..m + 1
                 PROVE g[n] = IF n = 0 THEN <<>>
                         ELSE IF s[n] \in S THEN Append(g[n - 1], s[n]) ELSE g[n - 1]
      OBVIOUS
    <3>1. CASE n <= m
      <4>1. n \in 0..m /\ (n # 0 => n - 1 \in 0..m)
        BY <3>1, <1>1
      <4> QED BY <4>1, <2>2, <2>3, Zenon
    <3>2. CASE n = m + 1
      <4>1. n # 0 /\ ~(n <= m) /\ n - 1 \in 0..m /\ n - 1 = m
        BY <3>2, <1>1
      <4>2. g[n] = IF s[n] \in S THEN Append(f[n - 1], s[n]) ELSE f[n - 1]
        BY <4>1
      <4> QED BY <4>1, <4>2, <2>2, Zenon
    <3> QED BY <3>1, <3>2, <1>1
  <2>5. Def(g, m + 1)
    <3> HIDE DEF g
    <3>1. g = [n \in 0..m + 1 |-> g[n]]
      BY Zenon DEF g
    <3> QED BY <2>4, <3>1, Zenon
  <2>6. \E h : Def(h, m + 1)
    <3> HIDE DEF Def, g
    <3> QED BY <2>5
  <2>7. m + 1 \in Nat
    BY <1>1
  <2> HIDE DEF Def
  <2> QED BY <2>6, <2>7
<1>4. Len(s) \in T
  <2> HIDE DEF T
  <2>1. \A n \in 0..Len(s) - 1 : n \in T => n + 1 \in T
    BY <1>3
  <2>2. 0..Len(s) \subseteq T
    BY <1>1, <1>2, <2>1, AllUpTo
  <2> QED BY <1>1, <2>2
<1> DEFINE k == CHOOSE f : Def(f, Len(s))
<1>5. Def(k, Len(s))
  <2>1. \E f : Def(f, Len(s))
    BY <1>4
  <2> HIDE DEF Def
  <2> QED BY <2>1
<1>6. Sift(s, S) = k[Len(s)]
  BY DEF Sift
<1>7. k[0] = <<>>
  <2>1. 0 \in 0..Len(s)
    BY <1>1
  <2> QED BY <1>5, <2>1, Zenon
<1>8. \A n \in 1..Len(s) : n \in 0..Len(s) /\ n # 0
  BY <1>1
<1>9. \A n \in 1..Len(s) :
        k[n] = IF s[n] \in S THEN Append(k[n - 1], s[n]) ELSE k[n - 1]
  BY <1>5, <1>8, Zenon
<1> HIDE DEF k
<1> QED BY <1>6, <1>7, <1>9

\* e[k] is the place in the first n elements of s of the k-th element of t.
Places(e, t, s, S, n) ==
  /\ e \in [1..Len(t) -> 1..n]
  /\ \A k \in 1..Len(t) : t[k] = s[e[k]] /\ t[k] \in S
  /\ \A j, k \in 1..Len(t) : j < k => e[j] < e[k]
  /\ \A i \in 1..n : s[i] \in S => \E k \in 1..Len(t) : e[k] = i
  /\ \A k \in 1..Len(t) : k <= e[k]
  /\ \A k \in 1..Len(t) : \A i \in 1..e[k] : s[i] \notin S => k < e[k]
  /\ Len(t) <= n
  /\ \A i \in 1..n : s[i] \notin S => Len(t) < n

\* Sift keeps the elements in S, and moves each up by the others before it.
LEMMA SiftPlaces ==
  ASSUME NEW X, NEW s \in Seq(X), NEW S
  PROVE  Sift(s, S) \in Seq(X) /\ \E e : Places(e, Sift(s, S), s, S, Len(s))
<1>1. PICK kept :
        /\ Sift(s, S) = kept[Len(s)]
        /\ kept[0] = <<>>
        /\ \A n \in 1..Len(s) :
             kept[n] = IF s[n] \in S THEN Append(kept[n - 1], s[n]) ELSE kept[n - 1]
  BY SiftRecursion
<1>2. Len(s) \in Nat /\ \A i \in 1..Len(s) : s[i] \in X
  BY ElementOfSeq
<1> DEFINE T == {n \in Nat : kept[n] \in Seq(X) /\ \E e : Places(e, kept[n], s, S, n)}
<1>3. 0 \in T
  <2>1. kept[0] \in Seq(X) /\ Len(kept[0]) = 0
    BY <1>1
  <2>2. Places([k \in 1..0 |-> k], kept[0], s, S, 0)
    BY <2>1 DEF Places
  <2> QED BY <2>1, <2>2
<1>4. ASSUME NEW m \in 0..Len(s) - 1, m \in T
      PROVE  m + 1 \in T
  <2>1. m \in Nat /\ kept[m] \in Seq(X) /\ m + 1 \in 1..Len(s) /\ s[m + 1] \in X
    BY <1>2, <1>4
  <2>2. PICK e : Places(e, kept[m], s, S, m)
    BY <1>4
  <2>3. kept[m + 1] = IF s[m + 1] \in S THEN Append(kept[m], s[m + 1]) ELSE kept[m]
    <3>1. (m + 1) - 1 = m
      BY <2>1
    <3> QED BY <1>1, <2>1, <3>1
  <2> DEFINE t == kept[m]
  <2>t. t \in Seq(X) /\ Len(t) \in Nat
    BY <2>1
  <2>4. CASE s[m + 1] \notin S
    <3>1. kept[m + 1] = t
      BY <2>3, <2>4
    <3> HIDE DEF t
    <3>2. 1..m \subseteq 1..m + 1 /\ \A i \in 1..m + 1 : i \in 1..m \/ i = m + 1
      BY <2>1
    <3>3. e \in [1..Len(t) -> 1..m + 1]
      BY <2>2, <3>2 DEF Places, t
    <3>4. \A i \in 1..m + 1 : s[i] \in S => \E k \in 1..Len(t) : e[k] = i
      BY <2>2, <2>4, <3>2 DEF Places, t
    <3>5. Len(t) <= m
      BY <2>2 DEF Places, t
    <3>6. Len(t) <= m + 1 /\ Len(t) < m + 1
      BY <3>5, <2>t, <2>1
    <3>7. Places(e, t, s, S, m + 1)
      BY <2>2, <3>3, <3>4, <3>6 DEF Places, t
    <3> QED BY <3>1, <3>7, <2>1, <2>t
  <2>5. CASE s[m + 1] \in S
    <3> DEFINE u == Append(t, s[m + 1])
               l == Len(t)
               f == [k \in 1..l + 1 |-> IF k = l + 1 THEN m + 1 ELSE e[k]]
    <3>1. kept[m + 1] = u
      BY <2>3, <2>5
    <3>2. /\ u \in Seq(X) /\ Len(u) = l + 1 /\ u[l + 1] = s[m + 1]
          /\ \A k \in 1..l : u[k] = t[k]
      BY <2>1, <2>t
    <3> HIDE DEF u, t
    <3>3. /\ \A k \in 1..l : f[k] = e[k] /\ e[k] \in 1..m
          /\ f[l + 1] = m + 1
          /\ \A k \in 1..l + 1 : k \in 1..l \/ k = l + 1
          /\ l \in Nat /\ l <= m
      <4>1. e \in [1..l -> 1..m] /\ l <= m
        BY <2>2 DEF Places, t
      <4>2. l \in Nat /\ \A k \in 1..l + 1 : (k \in 1..l \/ k = l + 1) /\ k \in Int
        BY <2>t
      <4>3. \A k \in 1..l : k # l + 1 /\ k \in 1..l + 1
        BY <2>t
      <4>4. \A k \in 1..l : f[k] = e[k] /\ e[k] \in 1..m
        BY <4>1, <4>3
      <4>5. f[l + 1] = m + 1
        BY <4>2
      <4> QED BY <4>1, <4>2, <4>4, <4>5
    <3>d. f = [k \in 1..l + 1 |-> f[k]]
      OBVIOUS
    <3> HIDE DEF f
    <3>4. f \in [1..l + 1 -> 1..m + 1]
      <4>1. \A k \in 1..l + 1 : f[k] \in 1..m + 1
        BY <3>3, <2>1
      <4> QED BY <4>1, <3>d
    <3>5. \A k \in 1..l + 1 : u[k] = s[f[k]] /\ u[k] \in S
      <4>1. \A k \in 1..l : t[k] = s[e[k]] /\ t[k] \in S
        BY <2>2 DEF Places, t
      <4>2. \A k \in 1..l : u[k] = s[f[k]] /\ u[k] \in S
        BY <4>1, <3>2, <3>3
      <4> QED BY <4>2, <3>2, <3>3, <2>5
    <3>6. \A j, k \in 1..l + 1 : j < k => f[j] < f[k]
      <4>1. \A j, k \in 1..l : j < k => e[j] < e[k]
        BY <2>2 DEF Places, t
      <4> SUFFICES ASSUME NEW j \in 1..l + 1, NEW k \in 1..l + 1, j < k
                   PROVE  f[j] < f[k]
        OBVIOUS
      <4>2. j \in 1..l
        BY <3>3
      <4>3. CASE k \in 1..l
        BY <4>1, <4>2, <4>3, <3>3
      <4>4. CASE k = l + 1
        <5>1. f[j] \in 1..m /\ f[k] = m + 1
          BY <3>3, <4>2, <4>4
        <5> QED BY <5>1, <2>1
      <4> QED BY <4>3, <4>4, <3>3
    <3>7. \A i \in 1..m + 1 : s[i] \in S => \E k \in 1..l + 1 : f[k] = i
      <4>1. \A i \in 1..m : s[i] \in S => \E k \in 1..l : e[k] = i
        BY <2>2 DEF Places, t
      <4>2. 1..l \subseteq 1..l + 1 /\ l + 1 \in 1..l + 1
        BY <3>3
      <4>3. \A i \in 1..m : s[i] \in S => \E k \in 1..l + 1 : f[k] = i
        BY <4>1, <4>2, <3>3
      <4>4. \A i \in 1..m + 1 : i \in 1..m \/ i = m + 1
        BY <2>1
      <4> QED BY <4>2, <4>3, <4>4, <3>3
    <3>8. \A k \in 1..l + 1 : k <= f[k] /\ \A i \in 1..f[k] : s[i] \notin S => k < f[k]
      <4>1. \A k \in 1..l : k <= e[k] /\ \A i \in 1..e[k] : s[i] \notin S => k < e[k]
        BY <2>2 DEF Places, t
      <4>2. \A k \in 1..l : k <= f[k] /\ \A i \in 1..f[k] : s[i] \notin S => k < f[k]
        BY <4>1, <3>3
      <4>3. l <= m /\ \A i \in 1..m : s[i] \notin S => l < m
        BY <2>2 DEF Places, t
      <4>4. l + 1 <= m + 1 /\ \A i \in 1..m + 1 : s[i] \notin S => l + 1 < m + 1
        <5>1. \A i \in 1..m + 1 : s[i] \notin S => i \in 1..m
          BY <2>1, <2>5
        <5> QED BY <5>1, <4>3, <3>3, <2>1
      <4> QED BY <4>2, <4>4, <3>3
    <3>9. l + 1 <= m + 1 /\ \A i \in 1..m + 1 : s[i] \notin S => l + 1 < m + 1
      BY <3>8, <3>3
    <3>10. Places(f, u, s, S, m + 1)
      BY <3>2, <3>4, <3>5, <3>6, <3>7, <3>8, <3>9 DEF Places
    <3> QED BY <3>1, <3>2, <3>10, <2>1
  <2> QED BY <2>4, <2>5
<1>5. Len(s) \in T
  <2> HIDE DEF T
  <2>1. \A n \in 0..Len(s) - 1 : n \in T => n + 1 \in T
    BY <1>4
  <2>2. 0..Len(s) \subseteq T
    BY <1>2, <1>3, <2>1, AllUpTo
  <2> QED BY <1>2, <2>2
<1> QED BY <1>1, <1>5

\* The members and the uniqueness of what Sift keeps.
LEMMA SiftMembers ==
  ASSUME NEW X, NEW s \in Seq(X), NEW S
  PROVE  /\ Sift(s, S) \in Seq(X)
         /\ Len(Sift(s, S)) <= Len(s)
         /\ {Sift(s, S)[k] : k \in 1..Len(Sift(s, S))} = {s[i] : i \in 1..Len(s)} \cap S
         /\ (\A i, j \in 1..Len(s) : s[i] = s[j] => i = j) =>
              \A j, k \in 1..Len(Sift(s, S)) : Sift(s, S)[j] = Sift(s, S)[k] => j = k
<1> DEFINE t == Sift(s, S)
<1>1. PICK e : t \in Seq(X) /\ Places(e, t, s, S, Len(s))
  BY SiftPlaces
<1> HIDE DEF t
<1>2. Len(t) \in Nat /\ Len(s) \in Nat
  BY <1>1
<1>3. /\ \A k \in 1..Len(t) : e[k] \in 1..Len(s) /\ t[k] = s[e[k]] /\ t[k] \in S
      /\ \A i \in 1..Len(s) : s[i] \in S => \E k \in 1..Len(t) : e[k] = i
  BY <1>1 DEF Places
<1>4. {t[k] : k \in 1..Len(t)} = {s[i] : i \in 1..Len(s)} \cap S
  <2>1. ASSUME NEW i \in 1..Len(s), s[i] \in S
        PROVE  s[i] \in {t[k] : k \in 1..Len(t)}
    <3>1. PICK k \in 1..Len(t) : e[k] = i
      BY <1>3, <2>1
    <3> QED BY <1>3, <3>1
  <2>2. \A k \in 1..Len(t) : t[k] \in {s[i] : i \in 1..Len(s)} \cap S
    BY <1>3
  <2> QED BY <2>1, <2>2
<1>5. ASSUME \A i, j \in 1..Len(s) : s[i] = s[j] => i = j,
             NEW j \in 1..Len(t), NEW k \in 1..Len(t), t[j] = t[k]
      PROVE  j = k
  <2>1. e[j] = e[k]
    BY <1>3, <1>5
  <2>2. \A a, b \in 1..Len(t) : a < b => e[a] < e[b]
    BY <1>1 DEF Places
  <2>3. e[j] \in Int /\ e[k] \in Int /\ j \in Int /\ k \in Int
    BY <1>3
  <2> QED BY <2>1, <2>2, <2>3
<1>6. Len(t) <= Len(s)
  BY <1>1 DEF Places
<1> QED BY <1>1, <1>4, <1>5, <1>6 DEF t

-------------------------------------------------------------------------------
(* Sums *)

Pick(s) == CHOOSE x \in s : TRUE

\* g is the function the recursion of Total defines over D.
SumsOver(g, f, D) ==
  g = [s \in D |-> IF s = {} THEN 0 ELSE g[s \ {Pick(s)}] + f[Pick(s)]]

\* The fold behind Total is a recursive function on the subsets of a finite set.
LEMMA TotalRecursion ==
  ASSUME NEW S, IsFiniteSet(S), NEW f
  PROVE  \E g : SumsOver(g, f, SUBSET S) /\ Total(f, S) = g[S]
<1> DEFINE D(m) == {s \in SUBSET S : Cardinality(s) <= m}
           T == {m \in Nat : \E g : SumsOver(g, f, D(m))}
<1>1. \A s \in SUBSET S : IsFiniteSet(s) /\ Cardinality(s) \in Nat
                          /\ Cardinality(s) <= Cardinality(S)
  BY FS_Subset, FS_CardinalityType
<1>2. Cardinality(S) \in Nat
  BY FS_CardinalityType
<1>3. 0 \in T
  <2>1. \A s \in D(0) : s = {}
    BY <1>1, FS_EmptySet
  <2>2. SumsOver([s \in D(0) |-> 0], f, D(0))
    BY <2>1, Zenon DEF SumsOver
  <2> HIDE DEF D
  <2> QED BY <2>2
<1>4. ASSUME NEW m \in Nat, m \in T
      PROVE  m + 1 \in T
  <2>1. PICK g : SumsOver(g, f, D(m))
    BY <1>4
  <2> DEFINE h == [s \in D(m + 1) |->
               IF s \in D(m) THEN g[s] ELSE g[s \ {Pick(s)}] + f[Pick(s)]]
  <2>2. ASSUME NEW s \in D(m + 1), s # {}
        PROVE  s \ {Pick(s)} \in D(m)
    <3>1. Pick(s) \in s
      BY <2>2 DEF Pick
    <3>2. IsFiniteSet(s) /\ Cardinality(s) \in Nat /\ Cardinality(s) <= m + 1
      BY <1>1
    <3>3. Cardinality(s \ {Pick(s)}) = Cardinality(s) - 1
      BY <3>1, <3>2, FS_RemoveElement
    <3> QED BY <3>2, <3>3
  <2>3. D(m) \subseteq D(m + 1)
    BY <1>1
  <2>4. \A s \in D(m) : s # {} => s \ {Pick(s)} \in D(m)
    <3> SUFFICES ASSUME NEW s \in D(m), s # {}
                 PROVE  s \ {Pick(s)} \in D(m)
      OBVIOUS
    <3>1. Pick(s) \in s
      BY DEF Pick
    <3>2. IsFiniteSet(s) /\ Cardinality(s) \in Nat /\ Cardinality(s) <= m
      BY <1>1
    <3>3. Cardinality(s \ {Pick(s)}) = Cardinality(s) - 1
      BY <3>1, <3>2, FS_RemoveElement
    <3> QED BY <3>2, <3>3
  <2>5. {} \in D(m)
    BY FS_EmptySet
  <2> HIDE DEF D
  <2>6. \A s \in D(m) : g[s] = IF s = {} THEN 0 ELSE g[s \ {Pick(s)}] + f[Pick(s)]
    BY <2>1, Zenon DEF SumsOver
  <2>7. /\ \A s \in D(m) : h[s] = g[s]
        /\ \A s \in D(m + 1) : s \notin D(m) => h[s] = g[s \ {Pick(s)}] + f[Pick(s)]
        /\ h = [s \in D(m + 1) |-> h[s]]
    BY <2>3, Zenon
  <2> HIDE DEF h
  <2>8. \A s \in D(m + 1) : h[s] = IF s = {} THEN 0 ELSE h[s \ {Pick(s)}] + f[Pick(s)]
    BY <2>2, <2>4, <2>5, <2>6, <2>7, Zenon
  <2>9. SumsOver(h, f, D(m + 1))
    BY <2>7, <2>8, Zenon DEF SumsOver
  <2>10. m + 1 \in Nat
    OBVIOUS
  <2> QED BY <2>9, <2>10
<1>5. Cardinality(S) \in T
  <2> HIDE DEF T
  <2>1. \A n \in 0..Cardinality(S) - 1 : n \in T => n + 1 \in T
    BY <1>4, <1>2
  <2>2. 0..Cardinality(S) \subseteq T
    BY <1>2, <1>3, <2>1, AllUpTo
  <2> QED BY <1>2, <2>2
<1>6. D(Cardinality(S)) = SUBSET S
  BY <1>1
<1>7. \E g : SumsOver(g, f, SUBSET S)
  <2> HIDE DEF D
  <2> QED BY <1>5, <1>6
<1>8. Total(f, S) = (CHOOSE g : SumsOver(g, f, SUBSET S))[S]
  BY DEF Total, FoldSet, MapThenFoldSet, SumsOver, Pick
<1> QED BY <1>7, <1>8

\* That function does not depend on the set whose subsets are its domain.
LEMMA SumsAgree ==
  ASSUME NEW S, IsFiniteSet(S), NEW S1, S1 \subseteq S, NEW f, NEW g, NEW h,
         SumsOver(g, f, SUBSET S), SumsOver(h, f, SUBSET S1)
  PROVE  \A s \in SUBSET S1 : g[s] = h[s]
<1> DEFINE bad == {s \in SUBSET S1 : g[s] # h[s]}
           T == {Cardinality(s) : s \in bad}
<1>1. SUFFICES ASSUME bad # {} PROVE FALSE
  OBVIOUS
<1>2. \A s \in SUBSET S1 : IsFiniteSet(s) /\ Cardinality(s) \in Nat
  BY FS_Subset, FS_CardinalityType
<1>3. T \subseteq Nat /\ T # {}
  BY <1>1, <1>2
<1>4. PICK m \in T : \A n \in T : m <= n
  <2> HIDE DEF T
  <2> QED BY <1>3, LeastNumber
<1>5. PICK s \in bad : Cardinality(s) = m
  OBVIOUS
<1>6. /\ \A u \in SUBSET S : g[u] = IF u = {} THEN 0 ELSE g[u \ {Pick(u)}] + f[Pick(u)]
      /\ \A u \in SUBSET S1 : h[u] = IF u = {} THEN 0 ELSE h[u \ {Pick(u)}] + f[Pick(u)]
  BY Zenon DEF SumsOver
<1>7. s \in SUBSET S1 /\ s \in SUBSET S /\ g[s] # h[s]
  OBVIOUS
<1>8. s # {}
  BY <1>6, <1>7
<1>9. s \ {Pick(s)} \in bad
  <2>1. s \ {Pick(s)} \in SUBSET S1
    BY <1>7
  <2>2. g[s \ {Pick(s)}] # h[s \ {Pick(s)}]
    BY <1>6, <1>7, <1>8, Zenon
  <2> QED BY <2>1, <2>2
<1>10. Cardinality(s \ {Pick(s)}) = Cardinality(s) - 1
  <2>1. Pick(s) \in s
    BY <1>8 DEF Pick
  <2> QED BY <2>1, <1>2, <1>7, FS_RemoveElement
<1>11. m <= Cardinality(s \ {Pick(s)})
  BY <1>4, <1>9
<1>12. m \in Nat
  BY <1>3, <1>4
<1> QED BY <1>5, <1>10, <1>11, <1>12

\* The empty sum.
LEMMA TotalEmpty == \A f : Total(f, {}) = 0
<1> TAKE f
<1>1. IsFiniteSet({})
  BY FS_EmptySet
<1>2. PICK g : SumsOver(g, f, SUBSET {}) /\ Total(f, {}) = g[{}]
  BY <1>1, TotalRecursion
<1> QED BY <1>2, Zenon DEF SumsOver

\* One turn of the fold.
LEMMA TotalTurn ==
  ASSUME NEW S, IsFiniteSet(S), S # {}, NEW f
  PROVE  Pick(S) \in S /\ Total(f, S) = Total(f, S \ {Pick(S)}) + f[Pick(S)]
<1> DEFINE R == S \ {Pick(S)}
<1>1. Pick(S) \in S
  BY DEF Pick
<1>2. IsFiniteSet(R) /\ R \subseteq S
  BY FS_Subset
<1>3. PICK g : SumsOver(g, f, SUBSET S) /\ Total(f, S) = g[S]
  BY TotalRecursion
<1> HIDE DEF R
<1>4. PICK h : SumsOver(h, f, SUBSET R) /\ Total(f, R) = h[R]
  BY <1>2, TotalRecursion
<1>5. g[R] = h[R]
  <2>1. \A s \in SUBSET R : g[s] = h[s]
    <3>1. IsFiniteSet(S) /\ R \subseteq S
      BY <1>2
    <3>2. SumsOver(g, f, SUBSET S) /\ SumsOver(h, f, SUBSET R)
      BY <1>3, <1>4
    <3> QED BY ONLY <3>1, <3>2, SumsAgree, SMTT(40)
  <2> QED BY <2>1
<1>6. g[S] = g[R] + f[Pick(S)]
  <2>1. \A u \in SUBSET S : g[u] = IF u = {} THEN 0 ELSE g[u \ {Pick(u)}] + f[Pick(u)]
    BY <1>3, Zenon DEF SumsOver
  <2>2. S \in SUBSET S
    OBVIOUS
  <2> QED BY <2>1, <2>2, Zenon DEF R
<1> QED BY <1>1, <1>3, <1>4, <1>5, <1>6 DEF R

\* Functions that agree on S have the same total over S.
LEMMA TotalAgree ==
  ASSUME NEW S, IsFiniteSet(S), NEW f, NEW g, \A x \in S : f[x] = g[x]
  PROVE  Total(f, S) = Total(g, S)
<1> DEFINE bad == {s \in SUBSET S : Total(f, s) # Total(g, s)}
           T == {Cardinality(s) : s \in bad}
<1>1. SUFFICES ASSUME bad # {} PROVE FALSE
  <2>1. S \in SUBSET S
    OBVIOUS
  <2> QED BY <2>1, Zenon
<1>2. \A s \in SUBSET S : IsFiniteSet(s) /\ Cardinality(s) \in Nat
  BY FS_Subset, FS_CardinalityType
<1>3. T \subseteq Nat /\ T # {}
  BY <1>1, <1>2
<1>4. PICK m \in T : \A n \in T : m <= n
  <2> HIDE DEF T
  <2> QED BY <1>3, LeastNumber
<1>5. PICK s \in bad : Cardinality(s) = m
  OBVIOUS
<1>6. s \in SUBSET S /\ Total(f, s) # Total(g, s)
  OBVIOUS
<1>7. s # {}
  BY <1>6, TotalEmpty
<1>8. /\ Pick(s) \in s
      /\ Total(f, s) = Total(f, s \ {Pick(s)}) + f[Pick(s)]
      /\ Total(g, s) = Total(g, s \ {Pick(s)}) + g[Pick(s)]
  BY <1>2, <1>6, <1>7, TotalTurn
<1>9. s \ {Pick(s)} \in bad
  BY <1>6, <1>8
<1>10. Cardinality(s \ {Pick(s)}) = Cardinality(s) - 1
  BY <1>2, <1>6, <1>8, FS_RemoveElement
<1>11. m <= Cardinality(s \ {Pick(s)})
  BY <1>4, <1>9
<1>12. m \in Nat
  BY <1>3, <1>4
<1> QED BY <1>5, <1>10, <1>11, <1>12

\* The total does not depend on the order: any element can come last.
LEMMA TotalRemove ==
  ASSUME NEW S, IsFiniteSet(S), NEW f, \A x \in S : f[x] \in Int
  PROVE  /\ Total(f, S) \in Int
         /\ \A x \in S : Total(f, S) = Total(f, S \ {x}) + f[x]
<1> DEFINE good(s) == /\ Total(f, s) \in Int
                      /\ \A x \in s : Total(f, s) = Total(f, s \ {x}) + f[x]
           bad == {s \in SUBSET S : ~good(s)}
           T == {Cardinality(s) : s \in bad}
<1>1. SUFFICES ASSUME bad # {} PROVE FALSE
  <2>1. S \in SUBSET S
    OBVIOUS
  <2> HIDE DEF good
  <2>2. good(S) => /\ Total(f, S) \in Int
                   /\ \A x \in S : Total(f, S) = Total(f, S \ {x}) + f[x]
    BY Zenon DEF good
  <2> QED BY <2>1, <2>2
<1>2. \A s \in SUBSET S : IsFiniteSet(s) /\ Cardinality(s) \in Nat
  BY FS_Subset, FS_CardinalityType
<1>3. T \subseteq Nat /\ T # {}
  <2> HIDE DEF good
  <2> QED BY <1>1, <1>2
<1>4. PICK m \in T : \A n \in T : m <= n
  <2> HIDE DEF T
  <2> QED BY <1>3, LeastNumber
<1>5. PICK s \in bad : Cardinality(s) = m
  <2> HIDE DEF good
  <2> QED OBVIOUS
<1>6. s \in SUBSET S /\ ~good(s)
  <2> HIDE DEF good
  <2> QED OBVIOUS
<1>12. m \in Nat
  BY <1>3, <1>4
<1>7. ASSUME NEW x \in s
      PROVE  good(s \ {x})
  <2>1. Cardinality(s \ {x}) = m - 1
    BY <1>2, <1>5, <1>6, FS_RemoveElement
  <2>2. s \ {x} \notin bad
    <3> HIDE DEF bad
    <3>1. s \ {x} \in bad => Cardinality(s \ {x}) \in T
      OBVIOUS
    <3> HIDE DEF T
    <3> QED BY <2>1, <3>1, <1>4, <1>12
  <2> HIDE DEF good
  <2> QED BY <2>2, <1>6
<1>8. s # {}
  <2>1. good({})
    BY TotalEmpty
  <2> HIDE DEF good
  <2> QED BY <2>1, <1>6
<1> DEFINE c == Pick(s)
<1>9. c \in s /\ Total(f, s) = Total(f, s \ {c}) + f[c]
  BY <1>2, <1>6, <1>8, TotalTurn
<1> HIDE DEF c
<1>10. Total(f, s) \in Int
  <2>1. Total(f, s \ {c}) \in Int
    BY <1>7, <1>9
  <2>2. f[c] \in Int
    BY <1>6, <1>9
  <2> QED BY <2>1, <2>2, <1>9
<1>11. ASSUME NEW x \in s, x # c
       PROVE  Total(f, s) = Total(f, s \ {x}) + f[x]
  <2>1. Total(f, s \ {c}) = Total(f, (s \ {c}) \ {x}) + f[x]
    BY <1>7, <1>9, <1>11
  <2>2. Total(f, s \ {x}) = Total(f, (s \ {x}) \ {c}) + f[c]
    BY <1>7, <1>9, <1>11
  <2>3. (s \ {c}) \ {x} = (s \ {x}) \ {c}
    OBVIOUS
  <2> DEFINE u == Total(f, (s \ {x}) \ {c})
             a == f[x]
             b == f[c]
  <2>4. u \in Int
    <3>1. good((s \ {x}))
      BY <1>7
    <3>2. Total(f, s \ {x}) \in Int
      BY <3>1
    <3>3. (s \ {x}) \ {c} \in SUBSET S
      BY <1>6
    <3>4. (s \ {x}) \ {c} \notin bad
      <4>1. Cardinality(s \ {x}) = m - 1
        BY <1>2, <1>5, <1>6, FS_RemoveElement
      <4>2. c \in s \ {x} /\ s \ {x} \in SUBSET S
        BY <1>6, <1>9, <1>11
      <4>3. Cardinality((s \ {x}) \ {c}) = m - 2
        <5>1. Cardinality((s \ {x}) \ {c}) = Cardinality(s \ {x}) - 1
          BY <4>2, <1>2, FS_RemoveElement
        <5> QED BY <5>1, <4>1, <1>12
      <4> HIDE DEF bad
      <4>4. (s \ {x}) \ {c} \in bad => Cardinality((s \ {x}) \ {c}) \in T
        OBVIOUS
      <4> HIDE DEF T
      <4> QED BY <4>3, <4>4, <1>4, <1>12
    <3>5. good((s \ {x}) \ {c})
      <4> HIDE DEF good
      <4> QED BY <3>3, <3>4
    <3> QED BY <3>5
  <2>5. a \in Int /\ b \in Int
    BY <1>6, <1>9
  <2>6. Total(f, s) = (u + a) + b
    BY <2>1, <2>3, <1>9
  <2>7. Total(f, s \ {x}) + f[x] = (u + b) + a
    BY <2>2
  <2> HIDE DEF u, a, b
  <2> QED BY <2>4, <2>5, <2>6, <2>7
<1>13. good(s)
  BY <1>9, <1>10, <1>11
<1> HIDE DEF good
<1> QED BY <1>6, <1>13

\* Two sets apart from each other.
LEMMA TotalUnion ==
  ASSUME NEW A, NEW B, IsFiniteSet(A), IsFiniteSet(B), A \cap B = {},
         NEW f, \A x \in A \cup B : f[x] \in Int
  PROVE  /\ Total(f, A) \in Int /\ Total(f, B) \in Int
         /\ Total(f, A \cup B) = Total(f, A) + Total(f, B)
<1> DEFINE T == {m \in Nat : \A s \in SUBSET B :
                   Cardinality(s) = m => Total(f, A \cup s) = Total(f, A) + Total(f, s)}
<1>1. \A s \in SUBSET B : IsFiniteSet(s) /\ Cardinality(s) \in Nat
  BY FS_Subset, FS_CardinalityType
<1>2. Total(f, A) \in Int /\ \A s \in SUBSET B : Total(f, s) \in Int
  <2>1. \A x \in A : f[x] \in Int
    OBVIOUS
  <2>2. ASSUME NEW s \in SUBSET B PROVE Total(f, s) \in Int
    <3>1. IsFiniteSet(s) /\ \A x \in s : f[x] \in Int
      BY <1>1
    <3> QED BY <3>1, TotalRemove
  <2> QED BY <2>1, <2>2, TotalRemove
<1>3. 0 \in T
  <2>1. ASSUME NEW s \in SUBSET B, Cardinality(s) = 0
        PROVE  Total(f, A \cup s) = Total(f, A) + Total(f, s)
    <3>1. s = {} /\ A \cup s = A
      BY <1>1, <2>1, FS_EmptySet
    <3>2. Total(f, s) = 0
      BY <3>1, TotalEmpty
    <3> QED BY <3>1, <3>2, <1>2
  <2> QED BY <2>1
<1>4. ASSUME NEW m \in Nat, m \in T
      PROVE  m + 1 \in T
  <2>1. ASSUME NEW s \in SUBSET B, Cardinality(s) = m + 1
        PROVE  Total(f, A \cup s) = Total(f, A) + Total(f, s)
    <3>1. IsFiniteSet(s) /\ s # {}
      BY <1>1, <2>1, FS_EmptySet
    <3>2. PICK x \in s : TRUE
      BY <3>1
    <3> DEFINE r == s \ {x}
    <3>3. Cardinality(r) = m /\ r \in SUBSET B
      <4>1. Cardinality(r) = Cardinality(s) - 1
        BY <3>1, <3>2, FS_RemoveElement
      <4> QED BY <4>1, <2>1
    <3>4. Total(f, A \cup r) = Total(f, A) + Total(f, r)
      BY <3>3, <1>4
    <3>5. Total(f, s) = Total(f, r) + f[x]
      <4>1. \A y \in s : f[y] \in Int
        OBVIOUS
      <4> QED BY <4>1, <3>1, TotalRemove
    <3>6. Total(f, A \cup s) = Total(f, A \cup r) + f[x]
      <4>1. IsFiniteSet(A \cup s) /\ x \in A \cup s
        BY <3>1, FS_Union
      <4>2. \A y \in A \cup s : f[y] \in Int
        OBVIOUS
      <4>3. Total(f, A \cup s) = Total(f, (A \cup s) \ {x}) + f[x]
        BY <4>1, <4>2, TotalRemove
      <4>4. (A \cup s) \ {x} = A \cup r
        OBVIOUS
      <4> QED BY <4>3, <4>4
    <3>7. f[x] \in Int /\ Total(f, r) \in Int
      BY <1>2, <3>3
    <3> HIDE DEF r
    <3> QED BY <3>4, <3>5, <3>6, <3>7, <1>2
  <2> QED BY <2>1
<1>5. Cardinality(B) \in T
  <2>1. Cardinality(B) \in Nat
    BY <1>1
  <2> HIDE DEF T
  <2>2. \A n \in 0..Cardinality(B) - 1 : n \in T => n + 1 \in T
    BY <1>4, <2>1
  <2>3. 0..Cardinality(B) \subseteq T
    BY <2>1, <1>3, <2>2, AllUpTo
  <2> QED BY <2>1, <2>3
<1>6. Total(f, A \cup B) = Total(f, A) + Total(f, B)
  BY <1>5
<1> QED BY <1>2, <1>6

\* Sums of naturals.
LEMMA TotalNat ==
  ASSUME NEW S, IsFiniteSet(S), NEW f, \A x \in S : f[x] \in Nat
  PROVE  Total(f, S) \in Nat
<1> DEFINE T == {m \in Nat : \A s \in SUBSET S : Cardinality(s) = m => Total(f, s) \in Nat}
<1>1. \A s \in SUBSET S : IsFiniteSet(s) /\ Cardinality(s) \in Nat
  BY FS_Subset, FS_CardinalityType
<1>2. 0 \in T
  <2>1. ASSUME NEW s \in SUBSET S, Cardinality(s) = 0
        PROVE  Total(f, s) \in Nat
    <3>1. s = {}
      BY <1>1, <2>1, FS_EmptySet
    <3> QED BY <3>1, TotalEmpty
  <2> QED BY <2>1
<1>3. ASSUME NEW m \in Nat, m \in T
      PROVE  m + 1 \in T
  <2>1. ASSUME NEW s \in SUBSET S, Cardinality(s) = m + 1
        PROVE  Total(f, s) \in Nat
    <3>1. IsFiniteSet(s) /\ s # {}
      BY <1>1, <2>1, FS_EmptySet
    <3>2. Pick(s) \in s /\ Total(f, s) = Total(f, s \ {Pick(s)}) + f[Pick(s)]
      BY <3>1, TotalTurn
    <3>3. Cardinality(s \ {Pick(s)}) = m
      <4>1. Cardinality(s \ {Pick(s)}) = Cardinality(s) - 1
        BY <3>1, <3>2, FS_RemoveElement
      <4> QED BY <4>1, <2>1
    <3>4. Total(f, s \ {Pick(s)}) \in Nat
      BY <3>3, <1>3
    <3>5. f[Pick(s)] \in Nat
      BY <3>2
    <3> QED BY <3>2, <3>4, <3>5
  <2> QED BY <2>1
<1>4. Cardinality(S) \in T
  <2>1. Cardinality(S) \in Nat
    BY <1>1
  <2> HIDE DEF T
  <2>2. \A n \in 0..Cardinality(S) - 1 : n \in T => n + 1 \in T
    BY <1>3, <2>1
  <2>3. 0..Cardinality(S) \subseteq T
    BY <2>1, <1>2, <2>2, AllUpTo
  <2> QED BY <2>1, <2>3
<1> QED BY <1>4

\* A sum of natural numbers grows with its set.
LEMMA TotalSubset ==
  ASSUME NEW S, IsFiniteSet(S), NEW A, A \subseteq S, NEW f, \A x \in S : f[x] \in Nat
  PROVE  Total(f, A) \in Nat /\ Total(f, S) \in Nat /\ Total(f, A) <= Total(f, S)
<1>1. IsFiniteSet(A) /\ IsFiniteSet(S \ A) /\ A \cup (S \ A) = S /\ A \cap (S \ A) = {}
  BY FS_Subset
<1>2. Total(f, A) \in Nat /\ Total(f, S \ A) \in Nat /\ Total(f, S) \in Nat
  <2>1. \A x \in A : f[x] \in Nat
    OBVIOUS
  <2>2. \A x \in S \ A : f[x] \in Nat
    OBVIOUS
  <2> QED BY <1>1, <2>1, <2>2, TotalNat
<1>3. Total(f, S) = Total(f, A) + Total(f, S \ A)
  <2>1. \A x \in A \cup (S \ A) : f[x] \in Int
    OBVIOUS
  <2>2. Total(f, A \cup (S \ A)) = Total(f, A) + Total(f, S \ A)
    BY <1>1, <2>1, TotalUnion
  <2> QED BY <1>1, <2>2
<1> QED BY <1>2, <1>3

\* A sum of zeros.
LEMMA TotalZero ==
  ASSUME NEW S, IsFiniteSet(S), NEW f, \A x \in S : f[x] = 0
  PROVE  Total(f, S) = 0
<1> DEFINE T == {m \in Nat : \A s \in SUBSET S : Cardinality(s) = m => Total(f, s) = 0}
<1>1. \A s \in SUBSET S : IsFiniteSet(s) /\ Cardinality(s) \in Nat
  BY FS_Subset, FS_CardinalityType
<1>2. 0 \in T
  <2>1. ASSUME NEW s \in SUBSET S, Cardinality(s) = 0
        PROVE  Total(f, s) = 0
    <3>1. s = {}
      BY <1>1, <2>1, FS_EmptySet
    <3> QED BY <3>1, TotalEmpty
  <2> QED BY <2>1
<1>3. ASSUME NEW m \in Nat, m \in T
      PROVE  m + 1 \in T
  <2>1. ASSUME NEW s \in SUBSET S, Cardinality(s) = m + 1
        PROVE  Total(f, s) = 0
    <3>1. IsFiniteSet(s) /\ s # {}
      BY <1>1, <2>1, FS_EmptySet
    <3>2. Pick(s) \in s /\ Total(f, s) = Total(f, s \ {Pick(s)}) + f[Pick(s)]
      BY <3>1, TotalTurn
    <3>3. Cardinality(s \ {Pick(s)}) = m
      <4>1. Cardinality(s \ {Pick(s)}) = Cardinality(s) - 1
        BY <3>1, <3>2, FS_RemoveElement
      <4> QED BY <4>1, <2>1
    <3>4. Total(f, s \ {Pick(s)}) = 0
      BY <3>3, <1>3
    <3>5. f[Pick(s)] = 0
      BY <3>2
    <3> QED BY <3>2, <3>4, <3>5
  <2> QED BY <2>1
<1>4. Cardinality(S) \in T
  <2>1. Cardinality(S) \in Nat
    BY <1>1
  <2> HIDE DEF T
  <2>2. \A n \in 0..Cardinality(S) - 1 : n \in T => n + 1 \in T
    BY <1>3, <2>1
  <2>3. 0..Cardinality(S) \subseteq T
    BY <2>1, <1>2, <2>2, AllUpTo
  <2> QED BY <2>1, <2>3
<1> QED BY <1>4

\* A finite set that is not empty has an element of greatest value.
LEMMA GreatestValue ==
  ASSUME NEW S, IsFiniteSet(S), S # {}, NEW f, \A x \in S : f[x] \in Int
  PROVE  \E x \in S : \A y \in S : f[y] <= f[x]
<1> DEFINE above == [x \in S |-> {y \in S : f[x] < f[y]}]
           size == [x \in S |-> Cardinality(above[x])]
           T == {size[x] : x \in S}
<1>1. ASSUME NEW x \in S
      PROVE  IsFiniteSet(above[x]) /\ size[x] \in Nat /\ size[x] = Cardinality(above[x])
  <2>1. above[x] \in SUBSET S
    OBVIOUS
  <2>2. IsFiniteSet(above[x])
    BY <2>1, FS_Subset
  <2> HIDE DEF above
  <2> QED BY <2>2, FS_CardinalityType
<1>2. \A x, y \in S : y \in above[x] <=> f[x] < f[y]
  OBVIOUS
<1>3. \A x \in S : above[x] \subseteq S
  OBVIOUS
<1> HIDE DEF above, size
<1>4. T \subseteq Nat /\ T # {}
  BY <1>1
<1>5. PICK m \in T : \A n \in T : m <= n
  BY <1>4, LeastNumber
<1>6. PICK x \in S : m = size[x]
  OBVIOUS
<1>7. ASSUME NEW y \in S, f[x] < f[y]
      PROVE  FALSE
  <2>1. above[y] \subseteq above[x] /\ y \in above[x] /\ y \notin above[y]
    <3>1. \A z \in S : f[y] < f[z] => f[x] < f[z]
      BY <1>7
    <3> QED BY <1>2, <1>3, <1>7, <3>1
  <2>2. size[y] <= size[x] /\ size[y] # size[x]
    BY <1>1, <2>1, FS_Subset
  <2>3. size[x] <= size[y]
    BY <1>5, <1>6
  <2> QED BY <1>1, <2>2, <2>3
<1>8. ASSUME NEW y \in S
      PROVE  f[y] <= f[x]
  <2>1. f[x] \in Int /\ f[y] \in Int /\ ~(f[x] < f[y])
    BY <1>7
  <2> QED BY <2>1
<1> QED BY <1>8

\* The least member of a set of numbers.
LEMMA MinOfNumbers ==
  ASSUME NEW T, T \subseteq Nat, T # {}
  PROVE  Min(T) \in T /\ \A n \in T : Min(T) <= n
<1>1. \E m \in T : \A n \in T : m <= n
  BY LeastNumber
<1> QED BY <1>1 DEF Min

\* How many numbers of a finite set are less than a given one: the ranks of its
\* members are the numbers from 0 up, each once.
LEMMA Ranks ==
  ASSUME NEW S, S \subseteq Nat, IsFiniteSet(S)
  PROVE  /\ \A b \in S : Cardinality({c \in S : c < b}) \in 0..Cardinality(S) - 1
         /\ \A b, d \in S : b < d => Cardinality({c \in S : c < b}) < Cardinality({c \in S : c < d})
         /\ \A k \in 0..Cardinality(S) - 1 : \E b \in S : Cardinality({c \in S : c < b}) = k
<1> DEFINE below == [b \in S |-> {c \in S : c < b}]
           upTo == [b \in S |-> {c \in S : c <= b}]
           rank == [b \in S |-> Cardinality(below[b])]
           place == [b \in S |-> rank[b] + 1]
           size == Cardinality(S)
<1>0. \A c \in S : c \in Nat
  OBVIOUS
<1>1. size \in Nat
  BY FS_CardinalityType
<1>2. \A b \in S : rank[b] \in Nat /\ Cardinality(upTo[b]) = rank[b] + 1
  <2> SUFFICES ASSUME NEW b \in S
               PROVE  rank[b] \in Nat /\ Cardinality(upTo[b]) = rank[b] + 1
    OBVIOUS
  <2>1. below[b] \in SUBSET S /\ b \notin below[b] /\ upTo[b] = below[b] \cup {b}
    <3>1. \A c \in S : c <= b <=> c < b \/ c = b
      BY <1>0
    <3>2. ~ (b < b)
      BY <1>0
    <3>3. below[b] = {c \in S : c < b} /\ upTo[b] = {c \in S : c <= b}
      OBVIOUS
    <3> HIDE DEF below, upTo
    <3> QED BY <3>1, <3>2, <3>3
  <2>2. rank[b] = Cardinality(below[b])
    OBVIOUS
  <2> HIDE DEF below, upTo, rank
  <2>3. IsFiniteSet(below[b])
    BY <2>1, FS_Subset
  <2> QED BY <2>1, <2>2, <2>3, FS_CardinalityType, FS_AddElement
<1>3. \A b \in S : rank[b] + 1 <= size
  <2> SUFFICES ASSUME NEW b \in S PROVE rank[b] + 1 <= size
    OBVIOUS
  <2>1. upTo[b] \in SUBSET S
    OBVIOUS
  <2>2. Cardinality(upTo[b]) <= size
    BY <2>1, FS_Subset
  <2> HIDE DEF upTo, rank
  <2> QED BY <2>2, <1>2
<1>4. \A b, d \in S : b < d => rank[b] < rank[d]
  <2> SUFFICES ASSUME NEW b \in S, NEW d \in S, b < d PROVE rank[b] < rank[d]
    OBVIOUS
  <2>1. b \in Nat /\ d \in Nat /\ \A c \in S : c \in Nat
    OBVIOUS
  <2>2. upTo[b] \in SUBSET below[d]
    <3>1. \A c \in S : c <= b => c < d
      BY <2>1
    <3>2. below[d] = {c \in S : c < d} /\ upTo[b] = {c \in S : c <= b}
      OBVIOUS
    <3> HIDE DEF below, upTo
    <3> QED BY <3>1, <3>2
  <2>3. below[d] \in SUBSET S /\ rank[d] = Cardinality(below[d])
    OBVIOUS
  <2> HIDE DEF upTo, below, rank
  <2>4. IsFiniteSet(below[d])
    BY <2>3, FS_Subset
  <2>5. Cardinality(upTo[b]) <= Cardinality(below[d])
    BY <2>2, <2>4, FS_Subset
  <2>6. rank[b] \in Nat /\ rank[d] \in Nat /\ rank[b] + 1 <= rank[d]
    BY <2>3, <2>5, <1>2
  <2> QED BY <2>6
<1>5. place \in [S -> 1..size] /\ \A b \in S : place[b] = rank[b] + 1
  <2>1. \A b \in S : rank[b] + 1 \in 1..size
    <3> SUFFICES ASSUME NEW b \in S PROVE rank[b] + 1 \in 1..size
      OBVIOUS
    <3>1. rank[b] \in Nat /\ rank[b] + 1 <= size
      BY <1>2, <1>3
    <3> HIDE DEF rank, size
    <3> QED BY <1>1, <3>1
  <2> HIDE DEF rank, size
  <2> QED BY <2>1
<1>6. \A b \in S : rank[b] = Cardinality({c \in S : c < b})
  OBVIOUS
<1> HIDE DEF rank, place
<1>7. \A b, d \in S : place[b] = place[d] => b = d
  <2> SUFFICES ASSUME NEW b \in S, NEW d \in S, place[b] = place[d] PROVE b = d
    OBVIOUS
  <2>1. b \in Nat /\ d \in Nat
    OBVIOUS
  <2>2. rank[b] \in Nat /\ rank[d] \in Nat /\ rank[b] + 1 = rank[d] + 1
    BY <1>2, <1>5
  <2>3. ~ (b < d) /\ ~ (d < b)
    BY <2>2, <1>4
  <2> QED BY <2>1, <2>3
<1>8. place \in Injection(S, 1..size)
  <2>1. DOMAIN place = S
    BY <1>5
  <2> QED BY <1>5, <1>7, <2>1 DEF Injection, IsInjective
<1>9. IsFiniteSet(1..size) /\ Cardinality(1..size) = size
  <2>1. 1 \in Int /\ size \in Int
    BY <1>1
  <2>2. IsFiniteSet(1..size)
        /\ Cardinality(1..size) = IF 1 > size THEN 0 ELSE size - 1 + 1
    BY <2>1, FS_Interval
  <2> HIDE DEF size
  <2> QED BY <2>2, <1>1
<1>10. \A k \in 1..size : \E b \in S : place[b] = k
  <2>1. place \in Surjection(S, 1..size)
    <3> DEFINE T == 1..size
    <3>1. place \in Injection(S, T) /\ IsFiniteSet(T) /\ Cardinality(S) = Cardinality(T)
      BY <1>8, <1>9
    <3> HIDE DEF T, size
    <3>2. place \in Surjection(S, T)
      BY <3>1, FS_Injection
    <3> QED BY <3>2 DEF T
  <2> HIDE DEF size
  <2> QED BY <2>1, Zenon DEF Surjection
<1> HIDE DEF size
<1>11. ASSUME NEW k \in 0..size - 1
       PROVE  \E b \in S : rank[b] = k
  <2>1. k + 1 \in 1..size /\ k \in Nat
    BY <1>1
  <2>2. PICK b \in S : place[b] = k + 1
    BY <2>1, <1>10
  <2>3. rank[b] + 1 = k + 1 /\ rank[b] \in Nat
    BY <2>2, <1>5, <1>2
  <2>4. rank[b] = k
    BY <2>1, <2>3
  <2> QED BY <2>4
<1>12. \A b \in S : rank[b] \in 0..size - 1
  <2> SUFFICES ASSUME NEW b \in S PROVE rank[b] \in 0..size - 1
    OBVIOUS
  <2>1. rank[b] \in Nat /\ rank[b] + 1 <= size
    BY <1>2, <1>3
  <2> QED BY <2>1, <1>1
<1>13. \A k \in 0..size - 1 : \E b \in S : Cardinality({c \in S : c < b}) = k
  BY <1>11, <1>6, Zenon
<1> QED BY <1>4, <1>6, <1>12, <1>13, Zenon DEF size

\* As many members as asked for are the first in order.
LEMMA SmallestMembers ==
  ASSUME NEW S, S \subseteq Nat, IsFiniteSet(S), NEW k \in Nat, k <= Cardinality(S)
  PROVE  Cardinality({b \in S : Cardinality({c \in S : c < b}) < k}) = k
<1> DEFINE rank == [b \in S |-> Cardinality({c \in S : c < b})]
           T == {b \in S : rank[b] < k}
           place == [b \in T |-> rank[b] + 1]
<1>1. Cardinality(S) \in Nat
  BY FS_CardinalityType
<1>2. /\ \A b \in S : rank[b] \in 0..Cardinality(S) - 1
      /\ \A b, d \in S : b < d => rank[b] < rank[d]
      /\ \A m \in 0..Cardinality(S) - 1 : \E b \in S : rank[b] = m
  <2>1. \A b \in S : rank[b] = Cardinality({c \in S : c < b})
    OBVIOUS
  <2> HIDE DEF rank
  <2>2. /\ \A b \in S : Cardinality({c \in S : c < b}) \in 0..Cardinality(S) - 1
        /\ \A b, d \in S : b < d => Cardinality({c \in S : c < b}) < Cardinality({c \in S : c < d})
        /\ \A k1 \in 0..Cardinality(S) - 1 : \E b \in S : Cardinality({c \in S : c < b}) = k1
    BY Ranks
  <2> QED BY <2>1, <2>2, Zenon
<1>3. T = {b \in S : Cardinality({c \in S : c < b}) < k}
  OBVIOUS
<1>4. \A b \in S : rank[b] \in Nat
  BY <1>1, <1>2
<1>5. DOMAIN place = T /\ \A b \in T : b \in S /\ b \in Nat /\ rank[b] < k /\ place[b] = rank[b] + 1
  OBVIOUS
<1> HIDE DEF rank
<1>6. place \in [T -> 1..k]
  <2>1. \A b \in T : rank[b] + 1 \in 1..k
    BY <1>4
  <2> HIDE DEF T
  <2> QED BY <2>1
<1> HIDE DEF place, T
<1>7. place \in Injection(T, 1..k)
  <2>1. ASSUME NEW b \in T, NEW d \in T, place[b] = place[d] PROVE b = d
    <3>1. b \in S /\ d \in S /\ b \in Nat /\ d \in Nat
      BY <1>5
    <3>2. rank[b] \in Nat /\ rank[d] \in Nat /\ rank[b] + 1 = rank[d] + 1
      BY <2>1, <1>4, <1>5
    <3>3. ~ (b < d) /\ ~ (d < b)
      BY <3>1, <3>2, <1>2
    <3> QED BY <3>1, <3>3
  <2> QED BY <1>5, <1>6, <2>1 DEF Injection, IsInjective
<1>8. \A m \in 1..k : \E b \in T : place[b] = m
  <2> SUFFICES ASSUME NEW m \in 1..k PROVE \E b \in T : place[b] = m
    OBVIOUS
  <2>1. m \in Nat /\ m - 1 \in 0..Cardinality(S) - 1 /\ m - 1 < k
    BY <1>1
  <2>2. PICK b \in S : rank[b] = m - 1
    BY <2>1, <1>2
  <2>3. b \in T
    BY <2>1, <2>2 DEF T
  <2>4. place[b] = rank[b] + 1
    BY <2>3, <1>5
  <2>5. place[b] = m
    BY <2>1, <2>2, <2>4
  <2> QED BY <2>3, <2>5
<1>9. place \in Surjection(T, 1..k)
  BY <1>6, <1>8 DEF Surjection
<1>10. IsFiniteSet(1..k) /\ Cardinality(1..k) = k
  BY FS_Interval
<1>11. Cardinality(T) = k
  BY <1>7, <1>9, <1>10, FS_Injection
<1> QED BY <1>3, <1>11

\* A sequence put behind another that shares no member with it.
LEMMA ConcatPlaces ==
  ASSUME NEW X, NEW s \in Seq(X), NEW t \in Seq(X)
  PROVE  /\ s \o t \in Seq(X) /\ Len(s \o t) = Len(s) + Len(t)
         /\ \A i \in 1..Len(s) : i \in 1..Len(s \o t) /\ (s \o t)[i] = s[i]
         /\ \A j \in 1..Len(t) : j + Len(s) \in 1..Len(s \o t) /\ (s \o t)[j + Len(s)] = t[j]
         /\ \A i \in 1..Len(s \o t) :
              \/ i \in 1..Len(s) /\ (s \o t)[i] = s[i]
              \/ i \notin 1..Len(s) /\ i - Len(s) \in 1..Len(t) /\ (s \o t)[i] = t[i - Len(s)]
         /\ IsInjective(s) /\ IsInjective(t) /\ (\A i \in 1..Len(s), j \in 1..Len(t) : s[i] # t[j])
              => IsInjective(s \o t)
<1> DEFINE u == s \o t
<1>1. Len(s) \in Nat /\ Len(t) \in Nat /\ DOMAIN s = 1..Len(s) /\ DOMAIN t = 1..Len(t)
  OBVIOUS
<1>2. u \in Seq(X) /\ Len(u) = Len(s) + Len(t) /\ DOMAIN u = 1..Len(u)
  OBVIOUS
<1>3. \A i \in 1..Len(s) + Len(t) : u[i] = IF i <= Len(s) THEN s[i] ELSE t[i - Len(s)]
  OBVIOUS
<1> HIDE DEF u
<1>4. \A i \in 1..Len(s) : i \in 1..Len(u) /\ u[i] = s[i]
  BY <1>1, <1>2, <1>3
<1>5. \A i \in 1..Len(u) :
        \/ i \in 1..Len(s) /\ u[i] = s[i]
        \/ i \notin 1..Len(s) /\ i - Len(s) \in 1..Len(t) /\ u[i] = t[i - Len(s)]
  <2> SUFFICES ASSUME NEW i \in 1..Len(u)
               PROVE  \/ i \in 1..Len(s) /\ u[i] = s[i]
                      \/ i \notin 1..Len(s) /\ i - Len(s) \in 1..Len(t) /\ u[i] = t[i - Len(s)]
    OBVIOUS
  <2>4. i \in 1..Len(s) + Len(t)
    BY <1>2
  <2>1. u[i] = IF i <= Len(s) THEN s[i] ELSE t[i - Len(s)]
    BY <1>3, <2>4
  <2>2. CASE i <= Len(s)
    BY <2>1, <2>2, <2>4, <1>1
  <2>3. CASE ~ (i <= Len(s))
    BY <2>1, <2>3, <2>4, <1>1
  <2> QED BY <2>2, <2>3
<1>6. ASSUME NEW j \in 1..Len(t)
      PROVE  j + Len(s) \in 1..Len(u) /\ u[j + Len(s)] = t[j]
  <2>1. /\ j \in Nat /\ j + Len(s) \in 1..Len(s) + Len(t)
        /\ ~ (j + Len(s) <= Len(s)) /\ (j + Len(s)) - Len(s) = j
    BY <1>1
  <2>2. u[j + Len(s)] = t[(j + Len(s)) - Len(s)]
    BY <1>3, <2>1
  <2> QED BY <2>1, <2>2, <1>2
<1>8. ASSUME IsInjective(s), IsInjective(t), \A i \in 1..Len(s), j \in 1..Len(t) : s[i] # t[j]
      PROVE  IsInjective(u)
  <2> SUFFICES ASSUME NEW i \in 1..Len(u), NEW j \in 1..Len(u), u[i] = u[j]
               PROVE  i = j
    BY <1>2 DEF IsInjective
  <2>1. \A k \in 1..Len(s), l \in 1..Len(t) : s[k] # t[l]
    BY <1>8
  <2>2. CASE i \in 1..Len(s) /\ j \in 1..Len(s)
    BY <2>2, <1>1, <1>5, <1>8 DEF IsInjective
  <2>3. CASE i \notin 1..Len(s) /\ j \notin 1..Len(s)
    <3>1. u[i] = t[i - Len(s)] /\ u[j] = t[j - Len(s)]
          /\ i - Len(s) \in 1..Len(t) /\ j - Len(s) \in 1..Len(t)
      BY <2>3, <1>5
    <3>2. i - Len(s) = j - Len(s)
      BY <3>1, <1>1, <1>8 DEF IsInjective
    <3> QED BY <3>2, <1>1
  <2>4. CASE i \in 1..Len(s) /\ j \notin 1..Len(s)
    BY <2>1, <2>4, <1>5
  <2>5. CASE i \notin 1..Len(s) /\ j \in 1..Len(s)
    BY <2>1, <2>5, <1>5
  <2> QED BY <2>2, <2>3, <2>4, <2>5
<1> QED BY <1>2, <1>4, <1>5, <1>6, <1>8 DEF u

==============================================================================
