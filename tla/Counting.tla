------------------------------ MODULE Counting ------------------------------
(***************************************************************************)
(* How many processes are in certain states and how many items of a queue  *)
(* are of a certain kind, and how one step changes these numbers.  The     *)
(* counters and tokens of the program are explained by such numbers.       *)
(***************************************************************************)
EXTENDS Integers, Sequences, FiniteSets, FiniteSetTheorems, WellFoundedInduction, TLAPS

(* The processes of W whose state f gives is in P. *)
Many(W, f, P) == Cardinality({v \in W : f[v] \in P})

(* The items of q that are in P. *)
Items(q, P) == Cardinality({n \in DOMAIN q : q[n] \in P})

(* Process w goes from state a to state b. *)
Moved(W, f, g, w, a, b) ==
    w \in W /\ f[w] = a /\ g[w] = b /\ \A v \in W \ {w} : g[v] = f[v]

(* As many processes as there are: all of them. *)
LEMMA ManyBound ==
    ASSUME NEW W, IsFiniteSet(W), NEW f, NEW P
    PROVE  /\ Many(W, f, P) \in Nat
           /\ Many(W, f, P) <= Cardinality(W)
           /\ Many(W, f, P) >= Cardinality(W) => \A v \in W : f[v] \in P
           /\ (\A v \in W : f[v] \in P) => Many(W, f, P) = Cardinality(W)
           /\ Many(W, f, P) = 0 <=> \A v \in W : f[v] \notin P
<1> DEFINE S == {v \in W : f[v] \in P}
<1>1. /\ IsFiniteSet(S) /\ Cardinality(S) <= Cardinality(W)
      /\ Cardinality(W) = Cardinality(S) => W = S
  BY FS_Subset
<1>2. Cardinality(S) \in Nat /\ Cardinality(W) \in Nat
  BY <1>1, FS_CardinalityType
<1>3. Cardinality(S) = 0 <=> S = {}
  BY <1>1, FS_EmptySet
<1>4. Cardinality(S) >= Cardinality(W) => \A v \in W : v \in S
  BY <1>1, <1>2
<1>5. (\A v \in W : f[v] \in P) => S = W
  OBVIOUS
<1> QED
  BY <1>1, <1>2, <1>3, <1>4, <1>5 DEF Many

LEMMA ManySame ==
    ASSUME NEW W, NEW f, NEW g, NEW P, \A v \in W : f[v] \in P <=> g[v] \in P
    PROVE  Many(W, f, P) = Many(W, g, P)
<1>1. {v \in W : f[v] \in P} = {v \in W : g[v] \in P}
  OBVIOUS
<1> QED
  BY <1>1 DEF Many

LEMMA ManyMoved ==
    ASSUME NEW W, IsFiniteSet(W), NEW f, NEW g, NEW w, NEW a, NEW b,
           Moved(W, f, g, w, a, b)
    PROVE  \A P : Many(W, g, P) = IF (a \in P <=> b \in P) THEN Many(W, f, P)
                                  ELSE IF b \in P THEN Many(W, f, P) + 1
                                  ELSE Many(W, f, P) - 1
<1> SUFFICES ASSUME NEW P
             PROVE  Many(W, g, P) = IF (a \in P <=> b \in P) THEN Many(W, f, P)
                                    ELSE IF b \in P THEN Many(W, f, P) + 1
                                    ELSE Many(W, f, P) - 1
  OBVIOUS
<1> DEFINE S == {v \in W : f[v] \in P}
           R == {v \in W : g[v] \in P}
<1>1. IsFiniteSet(S)
  BY FS_Subset
<1>2. w \in S <=> a \in P
  BY DEF Moved
<1>3. R = IF b \in P THEN S \cup {w} ELSE S \ {w}
  BY DEF Moved
<1>4. /\ b \in P => Cardinality(R) = IF w \in S THEN Cardinality(S) ELSE Cardinality(S) + 1
      /\ b \notin P => Cardinality(R) = IF w \in S THEN Cardinality(S) - 1 ELSE Cardinality(S)
  <2>1. CASE b \in P
    BY <1>1, <1>3, <2>1, FS_AddElement
  <2>2. CASE b \notin P
    BY <1>1, <1>3, <2>2, FS_RemoveElement
  <2> QED
    BY <2>1, <2>2
<1>5. Many(W, f, P) = Cardinality(S) /\ Many(W, g, P) = Cardinality(R)
  BY DEF Many
<1> QED
  BY <1>2, <1>4, <1>5

-----------------------------------------------------------------------------
LEMMA ItemsBound ==
    ASSUME NEW T, NEW q \in Seq(T), NEW P
    PROVE  /\ IsFiniteSet({n \in DOMAIN q : q[n] \in P})
           /\ Items(q, P) \in Nat
           /\ Items(q, P) = 0 <=> \A n \in DOMAIN q : q[n] \notin P
<1> DEFINE S == {n \in DOMAIN q : q[n] \in P}
<1>1. DOMAIN q = 1 .. Len(q) /\ Len(q) \in Nat
  OBVIOUS
<1>2. IsFiniteSet(DOMAIN q)
  BY <1>1, FS_Interval
<1>3. IsFiniteSet(S)
  BY <1>2, FS_Subset
<1>4. Cardinality(S) \in Nat /\ (Cardinality(S) = 0 <=> S = {})
  BY <1>3, FS_CardinalityType, FS_EmptySet
<1> QED
  BY <1>3, <1>4 DEF Items

LEMMA ItemsEmpty == ASSUME NEW P PROVE Items(<<>>, P) = 0
<1>1. {n \in DOMAIN <<>> : <<>>[n] \in P} = {}
  OBVIOUS
<1> QED
  BY <1>1, FS_EmptySet DEF Items

LEMMA ItemsAppend ==
    ASSUME NEW T, NEW q \in Seq(T), NEW x \in T, NEW r, r = Append(q, x)
    PROVE  \A P : Items(r, P) = IF x \in P THEN Items(q, P) + 1 ELSE Items(q, P)
<1> SUFFICES ASSUME NEW P
             PROVE  Items(r, P) = IF x \in P THEN Items(q, P) + 1 ELSE Items(q, P)
  OBVIOUS
<1> DEFINE S == {n \in DOMAIN q : q[n] \in P}
           R == {n \in DOMAIN r : r[n] \in P}
           k == Len(q) + 1
<1>1. IsFiniteSet(S)
  BY ItemsBound
<1>2. /\ DOMAIN q = 1 .. Len(q) /\ Len(q) \in Nat /\ DOMAIN r = 1 .. k
      /\ \A n \in 1 .. Len(q) : r[n] = q[n]
      /\ r[k] = x
  OBVIOUS
<1>3. k \notin S /\ R = IF x \in P THEN S \cup {k} ELSE S
  BY <1>2
<1>4. Cardinality(R) = IF x \in P THEN Cardinality(S) + 1 ELSE Cardinality(S)
  <2>1. CASE x \in P
    BY <1>1, <1>3, <2>1, FS_AddElement
  <2>2. CASE x \notin P
    BY <1>3, <2>2
  <2> QED
    BY <2>1, <2>2
<1> QED
  BY <1>4 DEF Items

LEMMA ItemsTail ==
    ASSUME NEW T, NEW q \in Seq(T), q # <<>>, NEW r, r = Tail(q)
    PROVE  \A P : Items(r, P) = IF Head(q) \in P THEN Items(q, P) - 1 ELSE Items(q, P)
<1> SUFFICES ASSUME NEW P
             PROVE  Items(r, P) = IF Head(q) \in P THEN Items(q, P) - 1 ELSE Items(q, P)
  OBVIOUS
<1> DEFINE S == {n \in DOMAIN q : q[n] \in P}
           R == {n \in DOMAIN r : r[n] \in P}
           f == [n \in R |-> n + 1]
<1>0. r \in Seq(T)
  BY SMTT(30)
<1>1. IsFiniteSet(S) /\ IsFiniteSet(R)
  BY <1>0, ItemsBound, ZenonT(30)
<1>2. /\ DOMAIN q = 1 .. Len(q) /\ Len(q) \in Nat /\ Len(q) >= 1
      /\ DOMAIN r = 1 .. Len(q) - 1
      /\ \A n \in 1 .. Len(q) - 1 : r[n] = q[n + 1]
      /\ Head(q) = q[1]
  OBVIOUS
<1>3. f \in Bijection(R, S \ {1})
  <2>1. f \in [R -> S \ {1}]
    BY <1>2
  <2>2. \A m, n \in R : f[m] = f[n] => m = n
    BY <1>2
  <2>3. \A s \in S \ {1} : \E n \in R : f[n] = s
    <3> TAKE s \in S \ {1}
    <3>1. s - 1 \in R
      BY <1>2
    <3> QED
      BY <1>2, <3>1
  <2> QED
    BY <2>1, <2>2, <2>3 DEF Bijection, Injection, Surjection, IsInjective
<1>4. Cardinality(S \ {1}) = Cardinality(R)
  BY <1>1, <1>3, FS_Bijection DEF ExistsBijection
<1>5. Cardinality(S \ {1}) = IF 1 \in S THEN Cardinality(S) - 1 ELSE Cardinality(S)
  BY <1>1, FS_RemoveElement
<1>6. 1 \in S <=> Head(q) \in P
  BY <1>2
<1> QED
  BY <1>4, <1>5, <1>6 DEF Items

(* k copies of x behind a queue *)
LEMMA ItemsRepeated ==
    ASSUME NEW T, NEW q \in Seq(T), NEW e \in Seq(T), NEW x \in T,
           \A n \in DOMAIN e : e[n] = x
    PROVE  \A P : Items(q \o e, P) = IF x \in P THEN Items(q, P) + Len(e) ELSE Items(q, P)
<1> DEFINE k == Len(e)
           r == q \o e
<1> SUFFICES ASSUME NEW P
             PROVE  Items(q \o e, P) = IF x \in P THEN Items(q, P) + Len(e) ELSE Items(q, P)
  OBVIOUS
<1> DEFINE S == {n \in DOMAIN q : q[n] \in P}
           R == {n \in DOMAIN r : r[n] \in P}
           K == Len(q) + 1 .. Len(q) + k
<1>1. IsFiniteSet(S)
  BY ItemsBound
<1>2. /\ DOMAIN q = 1 .. Len(q) /\ Len(q) \in Nat
      /\ DOMAIN e = 1 .. k /\ k \in Nat
  OBVIOUS
<1>3. /\ DOMAIN r = 1 .. Len(q) + k
      /\ \A n \in 1 .. Len(q) : r[n] = q[n]
      /\ \A n \in K : r[n] = x
  BY <1>2
<1>4. S \cap K = {} /\ R = IF x \in P THEN S \cup K ELSE S
  BY <1>2, <1>3
<1>5. IsFiniteSet(K) /\ Cardinality(K) = k
  <2> DEFINE a == Len(q) + 1
             b == Len(q) + k
  <2>1. a \in Int /\ b \in Int /\ (IF a > b THEN 0 ELSE b - a + 1) = k
    BY <1>2
  <2> HIDE DEF a, b, k
  <2>2. IsFiniteSet(a .. b) /\ Cardinality(a .. b) = k
    BY <2>1, FS_Interval
  <2> QED
    BY <2>2 DEF a, b
<1>6. Cardinality(R) = IF x \in P THEN Cardinality(S) + k ELSE Cardinality(S)
  <2>1. CASE x \in P
    <3>1. Cardinality(S \cup K) = Cardinality(S) + Cardinality(K) - Cardinality(S \cap K)
      BY <1>1, <1>5, FS_Union
    <3>2. Cardinality(S \cap K) = 0 /\ Cardinality(S) \in Nat
      BY <1>1, <1>4, FS_EmptySet, FS_CardinalityType
    <3>3. Cardinality(S \cup K) = Cardinality(S) + k
      BY <1>5, <3>1, <3>2
    <3>4. R = S \cup K
      BY <1>4, <2>1
    <3> QED
      BY <2>1, <3>3, <3>4
  <2>2. CASE x \notin P
    BY <1>4, <2>2
  <2> QED
    BY <2>1, <2>2
<1> QED
  BY <1>6 DEF Items

(* One queue behind another *)
LEMMA ItemsConcat ==
    ASSUME NEW T, NEW q \in Seq(T), NEW e \in Seq(T)
    PROVE  \A P : Items(q \o e, P) = Items(q, P) + Items(e, P)
<1> SUFFICES ASSUME NEW P
             PROVE  Items(q \o e, P) = Items(q, P) + Items(e, P)
  OBVIOUS
<1> DEFINE r == q \o e
           S == {n \in DOMAIN q : q[n] \in P}
           E == {n \in DOMAIN e : e[n] \in P}
           R == {n \in DOMAIN r : r[n] \in P}
           F == {n \in Len(q) + 1 .. Len(q) + Len(e) : e[n - Len(q)] \in P}
           f == [n \in E |-> Len(q) + n]
<1>1. IsFiniteSet(S) /\ IsFiniteSet(E)
  BY ItemsBound
<1>2. /\ DOMAIN q = 1 .. Len(q) /\ Len(q) \in Nat
      /\ DOMAIN e = 1 .. Len(e) /\ Len(e) \in Nat
  OBVIOUS
<1>3. /\ DOMAIN r = 1 .. Len(q) + Len(e)
      /\ \A n \in 1 .. Len(q) : r[n] = q[n]
      /\ \A n \in Len(q) + 1 .. Len(q) + Len(e) : r[n] = e[n - Len(q)]
  BY <1>2
<1>4. f \in Bijection(E, F)
  <2>1. f \in [E -> F]
    BY <1>2
  <2>2. \A m, n \in E : f[m] = f[n] => m = n
    BY <1>2
  <2>3. \A s \in F : \E n \in E : f[n] = s
    <3> TAKE s \in F
    <3>1. s - Len(q) \in E
      BY <1>2
    <3>2. s \in Int /\ Len(q) + (s - Len(q)) = s
      BY <1>2
    <3>3. f[s - Len(q)] = s
      <4> HIDE DEF E, F
      <4> QED
        BY <3>1, <3>2
    <3> QED
      BY <3>1, <3>3
  <2> QED
    BY <2>1, <2>2, <2>3 DEF Bijection, Injection, Surjection, IsInjective
<1>5. IsFiniteSet(F) /\ Cardinality(F) = Cardinality(E)
  BY <1>1, <1>4, FS_Bijection DEF ExistsBijection
<1>6. R = S \cup F /\ S \cap F = {}
  BY <1>2, <1>3
<1>7. Cardinality(R) = Cardinality(S) + Cardinality(F)
  <2> HIDE DEF R, S, F
  <2>1. Cardinality(S \cap F) = 0 /\ Cardinality(S) \in Nat /\ Cardinality(F) \in Nat
    BY <1>1, <1>5, <1>6, FS_EmptySet, FS_CardinalityType
  <2>2. Cardinality(S \cup F) = Cardinality(S) + Cardinality(F) - Cardinality(S \cap F)
    BY <1>1, <1>5, FS_Union
  <2> QED
    BY <1>6, <2>1, <2>2
<1> QED
  BY <1>5, <1>7 DEF Items

(* A queue of one item *)
LEMMA ItemsOne == ASSUME NEW x PROVE \A P : Items(<<x>>, P) = IF x \in P THEN 1 ELSE 0
<1> TAKE P
<1> DEFINE S == {n \in DOMAIN <<x>> : <<x>>[n] \in P}
<1>1. S = IF x \in P THEN {1} ELSE {}
  OBVIOUS
<1>2. Cardinality(S) = IF x \in P THEN 1 ELSE 0
  <2> HIDE DEF S
  <2> QED
    BY <1>1, FS_EmptySet, FS_Singleton
<1> QED
  BY <1>2 DEF Items

(* A queue cut in two *)
LEMMA ItemsCut ==
    ASSUME NEW T, NEW q \in Seq(T), NEW n \in 0 .. Len(q)
    PROVE  /\ SubSeq(q, 1, n) \in Seq(T) /\ SubSeq(q, n + 1, Len(q)) \in Seq(T)
           /\ \A P : Items(q, P) = Items(SubSeq(q, 1, n), P) + Items(SubSeq(q, n + 1, Len(q)), P)
           /\ \A P : Items(SubSeq(q, 1, n), P) = 0 <=> \A i \in 1 .. n : q[i] \notin P
<1> DEFINE a == SubSeq(q, 1, n)
           b == SubSeq(q, n + 1, Len(q))
<1>1. a \in Seq(T) /\ b \in Seq(T)
  OBVIOUS
<1>2. q = a \o b
  <2>1. /\ Len(q) \in Nat /\ Len(a) = n /\ Len(b) = Len(q) - n
        /\ \A i \in 1 .. n : a[i] = q[i]
        /\ \A i \in 1 .. Len(q) - n : b[i] = q[n + i]
    OBVIOUS
  <2> HIDE DEF a, b
  <2>2. a \o b \in Seq(T) /\ Len(a \o b) = Len(q)
    BY <1>1, <2>1
  <2>3. ASSUME NEW i \in 1 .. Len(q) PROVE (a \o b)[i] = q[i]
    <3>1. CASE i <= n
      BY <1>1, <2>1, <3>1
    <3>2. CASE i > n
      <4>1. i - n \in 1 .. Len(q) - n /\ n + (i - n) = i
        BY <2>1, <3>2
      <4>2. (a \o b)[i] = b[i - n]
        BY <1>1, <2>1, <3>2
      <4> QED
        BY <2>1, <4>1, <4>2
    <3> QED
      BY <2>1, <3>1, <3>2
  <2> DEFINE c == a \o b
  <2>4. c \in Seq(T) /\ Len(c) = Len(q) /\ \A i \in 1 .. Len(q) : c[i] = q[i]
    BY <2>2, <2>3
  <2> HIDE DEF c
  <2>5. q = c
    BY <2>4
  <2> QED
    BY <2>5 DEF c
<1>3. DOMAIN a = 1 .. n /\ \A i \in 1 .. n : a[i] = q[i]
  OBVIOUS
<1> HIDE DEF a, b
<1>4. \A P : Items(a \o b, P) = Items(a, P) + Items(b, P)
  BY <1>1, ItemsConcat
<1>5. \A P : Items(a, P) = 0 <=> \A i \in DOMAIN a : a[i] \notin P
  BY <1>1, ItemsBound
<1>6. \A P : Items(q, P) = Items(a, P) + Items(b, P)
  BY <1>2, <1>4
<1>7. \A P : Items(a, P) = 0 <=> \A i \in 1 .. n : q[i] \notin P
  BY <1>3, <1>5
<1> QED
  BY <1>1, <1>6, <1>7 DEF a, b

-----------------------------------------------------------------------------
(* Every nonempty set of numbers has a least member, and a greatest when   *)
(* it is bounded; with that, induction over the members of an interval.    *)
LEMMA LeastNatural ==
    ASSUME NEW S \in SUBSET Nat, S # {}
    PROVE  \E n \in S : \A m \in S : n <= m
<1> DEFINE upto(u) == {s \in S : s <= u}
           T == {upto(n) : n \in S}
<1>1. ASSUME NEW n \in S PROVE upto(n) \in FiniteSubsetsOf(Nat)
  <2>1. upto(n) \in SUBSET Nat /\ n \in Nat /\ \A s \in upto(n) : s <= n
    OBVIOUS
  <2> HIDE DEF upto
  <2>2. IsFiniteSet(upto(n))
    BY <2>1, FS_BoundedSetOfNaturals
  <2> QED
    BY <2>1, <2>2 DEF FiniteSubsetsOf
<1>2. T \subseteq FiniteSubsetsOf(Nat) /\ T # {}
  <2> HIDE DEF upto
  <2> QED
    BY <1>1
<1>3. PICK x \in T : \A y \in T : ~(<<y, x>> \in StrictSubsetOrdering(Nat))
  <2> HIDE DEF T
  <2> QED
    BY <1>2, FS_StrictSubsetOrderingWellFounded, WFMin
<1>4. PICK n \in S : x = upto(n)
  BY <1>3
<1>5. ASSUME NEW m \in S, ~(n <= m) PROVE FALSE
  <2>0. m \in Nat /\ n \in Nat /\ m < n
    BY <1>5
  <2>a. \A s \in S : s \in Nat /\ (s <= m => s <= n)
    BY <2>0
  <2>1. upto(m) \subseteq upto(n) /\ n \in upto(n) /\ n \notin upto(m)
    <3> HIDE DEF T
    <3>1. upto(m) \subseteq upto(n)
      BY <2>a
    <3>2. n \in upto(n) 
      BY <2>0
    <3>3. n \notin upto(m)
      BY <2>0
    <3> QED
      BY <3>1, <3>2, <3>3
  <2>2. upto(m) \in T /\ upto(m) \in SUBSET Nat /\ upto(n) \in SUBSET Nat
    OBVIOUS
  <2> HIDE DEF upto, T
  <2>3. <<upto(m), upto(n)>> \in StrictSubsetOrdering(Nat)
    BY <2>1, <2>2, <1>1, <1>5 DEF StrictSubsetOrdering
  <2> QED
    BY <1>3, <1>4, <2>2, <2>3
<1> QED
  BY <1>5

LEMMA GreatestNatural ==
    ASSUME NEW S \in SUBSET Nat, S # {}, NEW b \in Nat, \A m \in S : m <= b
    PROVE  \E n \in S : \A m \in S : m <= n
<1> DEFINE R == {m \in Nat : \A k \in S : k <= m}
<1>1. PICK n \in R : \A m \in R : n <= m
  BY LeastNatural
<1>2. n \in S
  <2> SUFFICES ASSUME n \notin S PROVE FALSE
    OBVIOUS
  <2>1. n # 0
    <3>1. PICK s \in S : s \in Nat /\ s <= n
      BY <1>1
    <3> QED
      BY <3>1
  <2>2. \A k \in S : k <= n - 1
    <3> TAKE k \in S
    <3>1. k \in Nat /\ n \in Nat /\ k <= n /\ k # n
      BY <1>1
    <3> QED
      BY <3>1
  <2>3. n - 1 \in R
    BY <2>1, <2>2
  <2> QED
    BY <1>1, <2>3
<1> QED
  BY <1>2

LEMMA SetInduction ==
    ASSUME NEW S, 0 \in S, NEW b \in Nat, \A n \in 0 .. b - 1 : n \in S => n + 1 \in S
    PROVE  \A n \in 0 .. b : n \in S
<1> SUFFICES ASSUME NEW k \in 0 .. b, k \notin S PROVE FALSE
  OBVIOUS
<1> DEFINE R == {m \in 0 .. b : m \notin S}
<1>1. R \in SUBSET Nat /\ R # {}
  OBVIOUS
<1>2. PICK n \in R : \A m \in R : n <= m
  <2> HIDE DEF R
  <2> QED
    BY <1>1, LeastNatural
<1>3. n # 0 /\ n - 1 \in 0 .. b - 1 /\ n - 1 \notin R
  BY <1>2
<1>4. n - 1 \in S
  BY <1>3
<1>5. (n - 1) + 1 \in S
  BY <1>3, <1>4
<1>6. (n - 1) + 1 = n
  BY <1>2
<1> QED
  BY <1>5, <1>6

(* What a step gives when it is repeated b times *)
Iterates(f, X, x, b, step) ==
    f \in [0 .. b -> X] /\ f[0] = x /\ \A n \in 1 .. b : f[n] = step[n][f[n - 1]]

LEMMA Iteration ==
    ASSUME NEW X, NEW x \in X, NEW b \in Nat, NEW step \in [1 .. b -> [X -> X]]
    PROVE  \E f : Iterates(f, X, x, b, step)
<1> DEFINE Good(f, m) == f[0] = x /\ \A n \in 1 .. m : f[n] = step[n][f[n - 1]]
           N == {m \in 0 .. b : \E f \in [0 .. m -> X] : Good(f, m)}
<1>2. 0 \in N
  <2> DEFINE f == [n \in 0 .. 0 |-> x]
  <2>1. f \in [0 .. 0 -> X] /\ f[0] = x
    OBVIOUS
  <2>2. \A n \in 1 .. 0 : f[n] = step[n][f[n - 1]]
    OBVIOUS
  <2> HIDE DEF f
  <2> QED
    BY <2>1, <2>2
<1>3. ASSUME NEW m \in 0 .. b - 1, m \in N PROVE m + 1 \in N
  <2>1. PICK f \in [0 .. m -> X] : Good(f, m)
    BY <1>3
  <2> DEFINE g == [n \in 0 .. m + 1 |-> IF n = m + 1 THEN step[m + 1][f[m]] ELSE f[n]]
  <2>0. m \in Nat /\ m + 1 \in 1 .. b /\ m \in 0 .. m /\ m + 1 \in 0 .. b
    OBVIOUS
  <2>2. step[m + 1][f[m]] \in X
    BY <2>0
  <2>3. g \in [0 .. m + 1 -> X]
    BY <2>0, <2>2
  <2>4. ASSUME NEW n \in 1 .. m + 1 PROVE g[n] = step[n][g[n - 1]]
    <3>1. CASE n = m + 1
      BY <2>0, <3>1
    <3>2. CASE n # m + 1
      <4>1. n \in 1 .. m /\ n - 1 \in 0 .. m /\ n - 1 # m + 1 /\ n \in 0 .. m + 1 /\ n - 1 \in 0 .. m + 1
        BY <2>0, <3>2
      <4> QED
        BY <2>1, <3>2, <4>1
    <3> QED
      BY <3>1, <3>2
  <2>5. g[0] = x
    BY <2>0, <2>1
  <2> HIDE DEF g
  <2>6. Good(g, m + 1)
    BY <2>4, <2>5
  <2> QED
    BY <2>0, <2>3, <2>6
<1>4. \A m \in 0 .. b : m \in N
  <2> HIDE DEF N
  <2> QED
    BY <1>2, <1>3, SetInduction
<1>5. b \in N
  <2> HIDE DEF N
  <2> QED
    BY <1>4
<1> QED
  BY <1>5 DEF Iterates

(* The queues of a set of owners, one behind the other *)
Chained(D, part, h) ==
    h = [S \in SUBSET D |->
            IF S = {} THEN <<>>
            ELSE part[CHOOSE x \in S : TRUE] \o h[S \ {CHOOSE x \in S : TRUE}]]

LEMMA ChainedExists ==
    ASSUME NEW J, NEW D, IsFiniteSet(D), NEW part \in [D -> Seq(J)]
    PROVE  \E h : Chained(D, part, h)
<1> DEFINE K == Cardinality(D)
           X == [SUBSET D -> Seq(J)]
           one(S) == CHOOSE x \in S : TRUE
           next(g) == [S \in SUBSET D |-> IF S = {} THEN <<>> ELSE part[one(S)] \o g[S \ {one(S)}]]
           step == [n \in 1 .. K |-> [g \in X |-> next(g)]]
           start == [S \in SUBSET D |-> <<>>]
<1>0. K \in Nat
  BY FS_CardinalityType
<1>1. ASSUME NEW S \in SUBSET D, S # {} PROVE one(S) \in S /\ S \ {one(S)} \in SUBSET D
  BY <1>1
<1> HIDE DEF K, X, one, next, step, start
<1>2. ASSUME NEW g \in X PROVE next(g) \in X
  <2>1. ASSUME NEW S \in SUBSET D, S # {} PROVE part[one(S)] \o g[S \ {one(S)}] \in Seq(J)
    <3>1. one(S) \in D /\ S \ {one(S)} \in SUBSET D
      BY <1>1, <2>1
    <3>2. part[one(S)] \in Seq(J) /\ g[S \ {one(S)}] \in Seq(J)
      BY <3>1 DEF X
    <3> QED
      BY <3>2
  <2>2. <<>> \in Seq(J)
    OBVIOUS
  <2> DEFINE E(S) == IF S = {} THEN <<>> ELSE part[one(S)] \o g[S \ {one(S)}]
  <2>3. \A S \in SUBSET D : E(S) \in Seq(J)
    BY <2>1, <2>2
  <2>4. next(g) = [S \in SUBSET D |-> E(S)]
    BY DEF next
  <2> HIDE DEF E
  <2> QED
    BY <2>3, <2>4 DEF X
<1>3. start \in X /\ step \in [1 .. K -> [X -> X]]
  <2>1. start \in X
    BY DEF start, X
  <2>2. step \in [1 .. K -> [X -> X]]
    BY <1>2 DEF step
  <2> QED
    BY <2>1, <2>2
<1>4. PICK f \in [0 .. K -> X] : f[0] = start /\ \A n \in 1 .. K : f[n] = step[n][f[n - 1]]
  <2>1. \E f : Iterates(f, X, start, K, step)
    BY <1>0, <1>3, Iteration
  <2> QED
    BY <2>1 DEF Iterates
<1>5. \A n \in 1 .. K : f[n] = next(f[n - 1])
  <2> TAKE n \in 1 .. K
  <2>1. n - 1 \in 0 .. K
    BY <1>0
  <2>2. f[n] = step[n][f[n - 1]] /\ f[n - 1] \in X
    BY <1>4, <2>1
  <2> QED
    BY <2>2 DEF step
<1> DEFINE Settled(n) == \A S \in SUBSET D : Cardinality(S) <= n => next(f[n])[S] = f[n][S]
           N == {n \in 0 .. K : Settled(n)}
<1> HIDE DEF Settled, N
<1>6. ASSUME NEW S \in SUBSET D
      PROVE  /\ Cardinality(S) \in Nat /\ Cardinality(S) <= K
             /\ S # {} => Cardinality(S) # 0 /\ Cardinality(S \ {one(S)}) = Cardinality(S) - 1
  <2>1. IsFiniteSet(S) /\ Cardinality(S) <= K
    BY FS_Subset DEF K
  <2>2. Cardinality(S) \in Nat /\ (Cardinality(S) = 0 <=> S = {})
    BY <2>1, FS_CardinalityType, FS_EmptySet
  <2>3. S # {} => one(S) \in S
    BY <1>1
  <2>4. S # {} => Cardinality(S \ {one(S)}) = Cardinality(S) - 1
    BY <2>1, <2>3, FS_RemoveElement
  <2> QED
    BY <2>1, <2>2, <2>4
<1>n. ASSUME NEW g, NEW S \in SUBSET D
      PROVE  next(g)[S] = IF S = {} THEN <<>> ELSE part[one(S)] \o g[S \ {one(S)}]
  BY DEF next
<1>7. Settled(0)
  <2> SUFFICES ASSUME NEW S \in SUBSET D, Cardinality(S) <= 0
               PROVE  next(f[0])[S] = f[0][S]
    BY DEF Settled
  <2>a. Cardinality(S) \in Nat /\ (S # {} => Cardinality(S) # 0)
    BY <1>6
  <2>1. S = {}
    BY <2>a
  <2>2. f[0][S] = <<>>
    BY <1>4 DEF start
  <2>3. next(f[0])[S] = <<>>
    BY <1>n, <2>1
  <2> QED
    BY <2>2, <2>3
<1>8. ASSUME NEW n \in 0 .. K - 1, Settled(n) PROVE Settled(n + 1)
  <2>0. n \in Nat /\ n + 1 \in 1 .. K /\ (n + 1) - 1 = n
    BY <1>0
  <2>1. f[n + 1] = next(f[n])
    BY <1>5, <2>0
  <2> SUFFICES ASSUME NEW S \in SUBSET D, Cardinality(S) <= n + 1
               PROVE  next(f[n + 1])[S] = f[n + 1][S]
    BY DEF Settled
  <2>2. CASE S = {}
    <3>1. next(f[n])[S] = <<>> /\ next(f[n + 1])[S] = <<>>
      BY <1>n, <2>2
    <3> QED
      BY <2>1, <3>1
  <2>3. CASE S # {}
    <3> DEFINE R == S \ {one(S)}
    <3>0. R \in SUBSET D
      BY <1>1, <2>3
    <3>a. Cardinality(S) \in Nat /\ Cardinality(R) = Cardinality(S) - 1
      BY <1>6, <2>3
    <3>1. Cardinality(R) <= n
      <4> HIDE DEF R
      <4> QED
        BY <2>0, <3>a
    <3>2. next(f[n])[R] = f[n][R]
      BY <1>8, <3>0, <3>1 DEF Settled
    <3>3. next(f[n])[S] = part[one(S)] \o f[n][R]
      BY <1>n, <2>3
    <3>4. next(f[n + 1])[S] = part[one(S)] \o f[n + 1][R]
      BY <1>n, <2>3
    <3> HIDE DEF R
    <3>5. f[n + 1][R] = f[n][R]
      BY <2>1, <3>2
    <3>6. next(f[n + 1])[S] = next(f[n])[S]
      BY <3>3, <3>4, <3>5
    <3> QED
      BY <2>1, <3>6
  <2> QED
    BY <2>2, <2>3
<1>9. Settled(K)
  <2>1. 0 \in N
    BY <1>0, <1>7 DEF N
  <2>2. \A n \in 0 .. K - 1 : n \in N => n + 1 \in N
    <3> TAKE n \in 0 .. K - 1
    <3>1. n + 1 \in 0 .. K
      BY <1>0
    <3> QED
      BY <1>8, <3>1 DEF N
  <2>3. \A n \in 0 .. K : n \in N
    BY <1>0, <2>1, <2>2, SetInduction
  <2>4. K \in 0 .. K
    BY <1>0
  <2> QED
    BY <2>3, <2>4 DEF N
<1>10. \A S \in SUBSET D : next(f[K])[S] = f[K][S]
  BY <1>6, <1>9 DEF Settled
<1>11. f[K] \in X /\ next(f[K]) \in X
  <2>1. K \in 0 .. K
    BY <1>0
  <2> QED
    BY <1>2, <1>4, <2>1
<1>12. f[K] = next(f[K])
  <2> DEFINE g == f[K]
             e == next(f[K])
  <2> HIDE DEF g, e
  <2>1. e \in X /\ g \in X /\ \A S \in SUBSET D : e[S] = g[S]
    BY <1>10, <1>11 DEF e, g
  <2>2. g = e
    BY <2>1 DEF X
  <2> QED
    BY <2>2 DEF g, e
<1>13. Chained(D, part, f[K])
  BY <1>12 DEF Chained, next, one
<1> QED
  BY <1>13

(* An item that at most one owner has is in q as often as that one has it. *)
HoldsAll(q, J, D, part) ==
    /\ q \in Seq(J)
    /\ \A P, d : (\A e \in D \ {d} : Items(part[e], P) = 0)
                    => Items(q, P) = IF d \in D THEN Items(part[d], P) ELSE 0

LEMMA ChainedOK ==
    ASSUME NEW J, NEW D, IsFiniteSet(D), NEW part \in [D -> Seq(J)], NEW h, Chained(D, part, h)
    PROVE  HoldsAll(h[D], J, D, part)
<1> DEFINE K == Cardinality(D)
           one(S) == CHOOSE x \in S : TRUE
           Only(S, P, d) == \A e \in S \ {d} : Items(part[e], P) = 0
           Good(S) == /\ h[S] \in Seq(J)
                      /\ \A P, d : Only(S, P, d)
                                      => Items(h[S], P) = IF d \in S THEN Items(part[d], P) ELSE 0
           Upto(n) == \A S \in SUBSET D : Cardinality(S) <= n => Good(S)
           N == {n \in 0 .. K : Upto(n)}
<1>0. K \in Nat
  BY FS_CardinalityType
<1>1. ASSUME NEW S \in SUBSET D, S # {} PROVE one(S) \in S /\ S \ {one(S)} \in SUBSET D
  BY <1>1
<1>2. ASSUME NEW S \in SUBSET D
      PROVE  h[S] = IF S = {} THEN <<>> ELSE part[one(S)] \o h[S \ {one(S)}]
  BY DEF Chained
<1>3. \A d \in D : \A P : part[d] \in Seq(J) /\ Items(part[d], P) \in Nat
  BY ItemsBound
<1> HIDE DEF K, one, Only, Good, Upto, N
<1>4. ASSUME NEW S \in SUBSET D
      PROVE  /\ Cardinality(S) \in Nat /\ Cardinality(S) <= K
             /\ S # {} => Cardinality(S) # 0 /\ Cardinality(S \ {one(S)}) = Cardinality(S) - 1
  <2>1. IsFiniteSet(S) /\ Cardinality(S) <= K
    BY FS_Subset DEF K
  <2>2. Cardinality(S) \in Nat /\ (Cardinality(S) = 0 <=> S = {})
    BY <2>1, FS_CardinalityType, FS_EmptySet
  <2>3. S # {} => one(S) \in S
    BY <1>1
  <2>4. S # {} => Cardinality(S \ {one(S)}) = Cardinality(S) - 1
    BY <2>1, <2>3, FS_RemoveElement
  <2> QED
    BY <2>1, <2>2, <2>4
<1>5. Good({})
  <2>0. {} \in SUBSET D
    OBVIOUS
  <2>a. h[{}] = <<>>
    BY <1>2, <2>0
  <2>b. <<>> \in Seq(J)
    OBVIOUS
  <2>1. h[{}] = <<>> /\ <<>> \in Seq(J)
    BY <2>a, <2>b
  <2>2. \A P : Items(<<>>, P) = 0
    BY ItemsEmpty
  <2> QED
    BY <2>1, <2>2 DEF Good
<1>6. ASSUME NEW S \in SUBSET D, S # {}, Good(S \ {one(S)}) PROVE Good(S)
  <2> DEFINE x == one(S)
             R == S \ {x}
             a == part[x]
             b == h[R]
  <2>1. x \in S /\ x \in D /\ h[S] = a \o b
    BY <1>1, <1>2, <1>6
  <2>2. a \in Seq(J) /\ b \in Seq(J)
    BY <1>3, <1>6, <2>1 DEF Good
  <2> HIDE DEF x, a, b
  <2>3. a \o b \in Seq(J) /\ \A P : Items(a \o b, P) = Items(a, P) + Items(b, P)
    BY <2>2, ItemsConcat
  <2>4. ASSUME NEW P, NEW d, Only(S, P, d)
        PROVE  Items(h[S], P) = IF d \in S THEN Items(part[d], P) ELSE 0
    <3>0. Only(R, P, d)
      BY <2>4 DEF Only
    <3>1. Items(b, P) = IF d \in R THEN Items(part[d], P) ELSE 0
      BY <1>6, <3>0 DEF Good, b, x
    <3>2. Items(h[S], P) = Items(a, P) + Items(b, P)
      BY <2>1, <2>3
    <3>3. Items(a, P) \in Nat
      BY <1>3, <2>1 DEF a
    <3>4. CASE d = x
      <4>1. d \notin R /\ d \in S /\ part[d] = a
        BY <2>1, <3>4 DEF a
      <4> QED
        BY <3>1, <3>2, <3>3, <4>1
    <3>5. CASE d # x
      <4>1. Items(a, P) = 0
        BY <2>1, <2>4, <3>5 DEF Only, a
      <4>2. d \in R <=> d \in S
        BY <3>5
      <4>3. Items(b, P) \in Nat
        BY <2>2, ItemsBound
      <4>4. Items(h[S], P) = Items(b, P)
        BY <3>2, <4>1, <4>3
      <4> QED
        BY <3>1, <4>2, <4>4
    <3> QED
      BY <3>4, <3>5
  <2> QED
    BY <2>1, <2>3, <2>4 DEF Good
<1>7. Upto(0)
  <2> SUFFICES ASSUME NEW S \in SUBSET D, Cardinality(S) <= 0 PROVE Good(S)
    BY DEF Upto
  <2>1. Cardinality(S) \in Nat /\ (S # {} => Cardinality(S) # 0)
    BY <1>4
  <2>2. S = {}
    BY <2>1
  <2> QED
    BY <1>5, <2>2
<1>8. ASSUME NEW n \in 0 .. K - 1, Upto(n) PROVE Upto(n + 1)
  <2> SUFFICES ASSUME NEW S \in SUBSET D, Cardinality(S) <= n + 1 PROVE Good(S)
    BY DEF Upto
  <2>1. CASE S = {}
    BY <1>5, <2>1
  <2>2. CASE S # {}
    <3> DEFINE R == S \ {one(S)}
    <3>1. R \in SUBSET D
      BY <1>1, <2>2
    <3>2. Cardinality(S) \in Nat /\ Cardinality(R) = Cardinality(S) - 1
      BY <1>4, <2>2
    <3>3. n \in Nat
      BY <1>0
    <3>4. Cardinality(R) <= n
      <4> HIDE DEF R
      <4> QED
        BY <3>2, <3>3
    <3>5. Good(R)
      <4> HIDE DEF R
      <4> QED
        BY <1>8, <3>1, <3>4 DEF Upto
    <3> QED
      BY <1>6, <2>2, <3>5
  <2> QED
    BY <2>1, <2>2
<1>9. Upto(K)
  <2>1. 0 \in N
    BY <1>0, <1>7 DEF N
  <2>2. \A n \in 0 .. K - 1 : n \in N => n + 1 \in N
    <3> TAKE n \in 0 .. K - 1
    <3>1. n + 1 \in 0 .. K
      BY <1>0
    <3> QED
      BY <1>8, <3>1 DEF N
  <2>3. \A n \in 0 .. K : n \in N
    BY <1>0, <2>1, <2>2, SetInduction
  <2>4. K \in 0 .. K
    BY <1>0
  <2> QED
    BY <2>3, <2>4 DEF N
<1>10. Good(D)
  <2>1. D \in SUBSET D /\ Cardinality(D) <= K
    BY <1>4
  <2> QED
    BY <1>9, <2>1 DEF Upto
<1> QED
  BY <1>10 DEF Good, Only, HoldsAll

=============================================================================
