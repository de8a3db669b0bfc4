----------------------------- MODULE SumTheorems -----------------------------
(***************************************************************************)
(* Facts about SumFunction over a finite domain, as the stock and the      *)
(* session's amounts use it: what one changed value does to a sum, sums of *)
(* nothing, of zeros and of what is no larger.  They rest on strong        *)
(* induction, each time over the concrete set of counterexamples, which    *)
(* has a least element when it is not empty.                               *)
(***************************************************************************)
EXTENDS Integers, FiniteSets, Functions, FiniteSetTheorems,
        WellFoundedInduction, TLAPS

\* The element a sum takes next, and what it leaves.
First(s) == CHOOSE x \in s : TRUE
Rest(s) == s \ {First(s)}

\* g holds the sums of f over the sets of T.
Sums(f, T, g) ==
  g = [s \in T |-> IF s = {} THEN 0 ELSE f[First(s)] + g[Rest(s)]]

\* The sum of f over s, a set of elements of S.
SumOver(f, S, s) == (CHOOSE g : Sums(f, SUBSET S, g))[s]

LEMMA SumIsTotal ==
  ASSUME NEW f, NEW S
  PROVE  SumFunctionOnSet(f, S) = SumOver(f, S, S)
BY DEF SumFunctionOnSet, FoldFunctionOnSet, MapThenFoldSet, SumOver, Sums, Rest, First

LEMMA FirstIsIn ==
  ASSUME NEW s, s # {}
  PROVE  First(s) \in s
BY DEF First

\* A set of numbers has a least one.
LEMMA LeastNumber ==
  ASSUME NEW N \in SUBSET Nat, N # {}
  PROVE  \E n \in N : \A m \in N : n <= m
<1> DEFINE Less == OpToRel(<, Nat)
<1>1. PICK n \in N : \A m \in N : <<m, n>> \notin Less
  <2> HIDE DEF Less
  <2>1. IsWellFoundedOn(Less, Nat)
    BY NatLessThanWellFounded DEF Less
  <2> QED BY <2>1, WFMin
<1>2. \A m \in N : n <= m
  <2> SUFFICES ASSUME NEW m \in N PROVE ~ (m < n)
    OBVIOUS
  <2>1. <<m, n>> \notin Less /\ <<m, n>> \in Nat \X Nat
    BY <1>1
  <2> QED BY <2>1 DEF OpToRel
<1> QED BY <1>2

\* A set of finite sets has a smallest one.
LEMMA SmallestSet ==
  ASSUME NEW S, IsFiniteSet(S), NEW F \in SUBSET SUBSET S, F # {}
  PROVE  \E s \in F : \A t \in F : Cardinality(s) <= Cardinality(t)
<1> DEFINE N == {Cardinality(s) : s \in F}
<1>1. \A s \in F : IsFiniteSet(s) /\ Cardinality(s) \in Nat
  BY FS_Subset, FS_CardinalityType
<1>2. N \subseteq Nat /\ N # {}
  BY <1>1
<1>3. PICK n \in N : \A m \in N : n <= m
  <2> HIDE DEF N
  <2> QED BY <1>2, LeastNumber
<1> QED BY <1>3

\* What is left of a finite set is smaller.
LEMMA RestIsSmaller ==
  ASSUME NEW s, IsFiniteSet(s), NEW x \in s
  PROVE  /\ IsFiniteSet(s \ {x})
         /\ Cardinality(s \ {x}) \in Nat
         /\ Cardinality(s) \in Nat
         /\ Cardinality(s \ {x}) = Cardinality(s) - 1
BY FS_RemoveElement, FS_CardinalityType

LEMMA RestIsNoLarger ==
  ASSUME NEW s, IsFiniteSet(s), NEW x \in s
  PROVE  ~ (Cardinality(s) <= Cardinality(s \ {x}))
BY RestIsSmaller

-----------------------------------------------------------------------------
(* The sums a sum is made of exist: they are built up over the sets of at  *)
(* most n elements, for one n after the other.                             *)

LEMMA SumsUpTo ==
  ASSUME NEW f, NEW S, IsFiniteSet(S), NEW n \in Nat
  PROVE  \E g : Sums(f, {s \in SUBSET S : Cardinality(s) <= n}, g)
<1> DEFINE Upto(m) == {s \in SUBSET S : Cardinality(s) <= m}
           Bad == {m \in Nat : ~ \E g : Sums(f, Upto(m), g)}
<1>0. \A s \in SUBSET S : IsFiniteSet(s) /\ Cardinality(s) \in Nat
  BY FS_Subset, FS_CardinalityType
<1>1. SUFFICES ASSUME Bad # {} PROVE FALSE
  OBVIOUS
<1>2. PICK m \in Bad : \A k \in Bad : m <= k
  <2> HIDE DEF Bad
  <2>1. Bad \in SUBSET Nat
    BY DEF Bad
  <2> QED BY <2>1, <1>1, LeastNumber
<1>3. m \in Nat /\ ~ \E g : Sums(f, Upto(m), g)
  OBVIOUS
<1>4. CASE m = 0
  <2>1. \A s \in Upto(0) : s = {}
    BY <1>0, FS_EmptySet
  <2>2. Sums(f, Upto(0), [s \in Upto(0) |-> 0])
    BY <2>1 DEF Sums
  <2> QED BY <2>2, <1>3, <1>4
<1>5. CASE m # 0
  <2>1. m - 1 \in Nat /\ m - 1 \notin Bad
    <3> HIDE DEF Bad
    <3> QED BY <1>2, <1>3, <1>5
  <2>2. PICK g : Sums(f, Upto(m - 1), g)
    BY <2>1
  <2> DEFINE h == [s \in Upto(m) |->
                     IF s \in Upto(m - 1) THEN g[s]
                     ELSE IF s = {} THEN 0 ELSE f[First(s)] + g[Rest(s)]]
             now(s) == IF s = {} THEN 0 ELSE f[First(s)] + h[Rest(s)]
  <2>3. ASSUME NEW s \in Upto(m), s # {} PROVE Rest(s) \in Upto(m - 1) /\ Rest(s) \in Upto(m)
    <3>1. First(s) \in s
      BY <2>3, FirstIsIn
    <3>2. Rest(s) \in SUBSET S /\ Cardinality(Rest(s)) = Cardinality(s) - 1
      BY <3>1, <1>0, RestIsSmaller DEF Rest
    <3> QED BY <3>2, <1>0, <1>3
  <2>4. ASSUME NEW s \in Upto(m) PROVE h[s] = now(s)
    <3>1. s # {} => h[Rest(s)] = g[Rest(s)]
      BY <2>3
    <3>2. CASE s \in Upto(m - 1)
      <4>1. h[s] = g[s]
        BY <3>2
      <4>2. g[s] = IF s = {} THEN 0 ELSE f[First(s)] + g[Rest(s)]
        BY <2>2, <3>2 DEF Sums
      <4> QED BY <4>1, <4>2, <3>1
    <3>3. CASE s \notin Upto(m - 1)
      BY <3>1, <3>3
    <3> QED BY <3>2, <3>3
  <2>5. Sums(f, Upto(m), h)
    <3>1. h = [s \in Upto(m) |-> h[s]]
      OBVIOUS
    <3>2. [s \in Upto(m) |-> h[s]] = [s \in Upto(m) |-> now(s)]
      <4> HIDE DEF h
      <4> QED BY <2>4
    <3> HIDE DEF h
    <3> QED BY <3>1, <3>2 DEF Sums
  <2> QED BY <2>5, <1>3
<1> QED BY <1>4, <1>5

LEMMA SumsExist ==
  ASSUME NEW f, NEW S, IsFiniteSet(S)
  PROVE  \E g : Sums(f, SUBSET S, g)
<1>1. \A s \in SUBSET S : Cardinality(s) <= Cardinality(S)
  BY FS_Subset
<1>2. {s \in SUBSET S : Cardinality(s) <= Cardinality(S)} = SUBSET S
  BY <1>1
<1>3. Cardinality(S) \in Nat
  BY FS_CardinalityType
<1>4. \A n \in Nat : \E g : Sums(f, {s \in SUBSET S : Cardinality(s) <= n}, g)
  BY SumsUpTo
<1> QED BY <1>2, <1>3, <1>4

-----------------------------------------------------------------------------
(* What the sums are.                                                      *)

LEMMA TotalIs ==
  ASSUME NEW S, IsFiniteSet(S), NEW f, NEW s \in SUBSET S
  PROVE  SumOver(f, S, s) =
           IF s = {} THEN 0 ELSE f[First(s)] + SumOver(f, S, Rest(s))
<1> DEFINE g == CHOOSE k : Sums(f, SUBSET S, k)
<1>1. Sums(f, SUBSET S, g)
  BY SumsExist, Zenon
<1>2. g[s] = IF s = {} THEN 0 ELSE f[First(s)] + g[Rest(s)]
  <2> HIDE DEF g
  <2> QED BY <1>1 DEF Sums
<1> QED BY <1>2, Zenon DEF SumOver

\* A sum is a number, and any of its elements can be taken out first.
LEMMA AnyFirst ==
  ASSUME NEW S, IsFiniteSet(S), NEW f, \A x \in S : f[x] \in Int,
         NEW s \in SUBSET S
  PROVE  /\ SumOver(f, S, s) \in Int
         /\ \A x \in s : SumOver(f, S, s) = f[x] + SumOver(f, S, s \ {x})
<1> DEFINE OK(t) == /\ SumOver(f, S, t) \in Int
                    /\ \A x \in t : SumOver(f, S, t) = f[x] + SumOver(f, S, t \ {x})
           Bad == {t \in SUBSET S : ~OK(t)}
<1>1. SUFFICES ASSUME Bad # {} PROVE FALSE
  OBVIOUS
<1>2. PICK t \in Bad : \A u \in Bad : Cardinality(t) <= Cardinality(u)
  <2> HIDE DEF Bad
  <2>1. Bad \in SUBSET SUBSET S
    BY DEF Bad
  <2> QED BY <2>1, <1>1, SmallestSet
<1>3. t \in SUBSET S /\ ~OK(t) /\ IsFiniteSet(t)
  BY FS_Subset
<1>4. ASSUME NEW x \in t PROVE OK(t \ {x})
  <2>1. t \ {x} \in SUBSET S
    BY <1>3
  <2>2. ~ (Cardinality(t) <= Cardinality(t \ {x}))
    BY <1>3, RestIsSmaller
  <2> QED BY <2>1, <2>2, <1>2
<1>5. SumOver(f, S, t) = IF t = {} THEN 0 ELSE f[First(t)] + SumOver(f, S, Rest(t))
  <2>1. t \in SUBSET S
    BY <1>3
  <2> HIDE DEF Bad
  <2> QED BY <2>1, TotalIs
<1>6. CASE t = {}
  BY <1>3, <1>5, <1>6
<1>7. CASE t # {}
  <2> DEFINE c == First(t)
  <2>1. c \in t /\ c \in S
    BY <1>3, <1>7, FirstIsIn
  <2>2. SumOver(f, S, t) = f[c] + SumOver(f, S, t \ {c})
    BY <1>5, <1>7 DEF Rest
  <2>3. SumOver(f, S, t \ {c}) \in Int /\ f[c] \in Int
    BY <1>4, <2>1
  <2>4. ASSUME NEW x \in t PROVE SumOver(f, S, t) = f[x] + SumOver(f, S, t \ {x})
    <3>1. CASE x = c
      BY <3>1, <2>2
    <3>2. CASE x # c
      <4> HIDE DEF c
      <4>1. x \in t \ {c} /\ c \in t \ {x}
        BY <3>2, <2>1
      <4>2. SumOver(f, S, t \ {c}) = f[x] + SumOver(f, S, (t \ {c}) \ {x})
        BY <4>1, <2>1, <1>4
      <4>3. SumOver(f, S, t \ {x}) = f[c] + SumOver(f, S, (t \ {x}) \ {c})
        BY <4>1, <1>4
      <4>4. (t \ {c}) \ {x} = (t \ {x}) \ {c}
        OBVIOUS
      <4>5. f[x] \in Int /\ SumOver(f, S, t \ {x}) \in Int
        BY <1>3, <1>4
      <4>6. SumOver(f, S, (t \ {x}) \ {c}) \in Int
        <5>1. (t \ {x}) \ {c} \in SUBSET S
          BY <1>3
        <5>2. (t \ {x}) \ {c} \notin Bad
          <6>1. IsFiniteSet(t \ {x}) /\ Cardinality(t \ {x}) = Cardinality(t) - 1
                /\ Cardinality(t) \in Nat
            BY <1>3, RestIsSmaller
          <6>2. Cardinality((t \ {x}) \ {c}) = Cardinality(t \ {x}) - 1
            BY <6>1, <4>1, RestIsSmaller
          <6>3. ~ (Cardinality(t) <= Cardinality((t \ {x}) \ {c}))
            BY <6>1, <6>2
          <6> HIDE DEF Bad
          <6> QED BY <6>3, <1>2
        <5> QED BY <5>1, <5>2
      <4>7. SumOver(f, S, t) = f[c] + (f[x] + SumOver(f, S, (t \ {x}) \ {c}))
        BY <4>2, <4>4, <2>2
      <4> QED BY <4>3, <4>5, <4>6, <4>7, <2>3
    <3> QED BY <3>1, <3>2
  <2>5. SumOver(f, S, t) \in Int
    BY <2>2, <2>3
  <2> QED BY <2>4, <2>5, <1>3
<1> QED BY <1>6, <1>7

\* The same values have the same sum, whatever else they are taken from.
LEMMA SameTotal ==
  ASSUME NEW S, IsFiniteSet(S), NEW f, NEW T, T \subseteq S, NEW h,
         \A x \in T : f[x] = h[x], NEW s \in SUBSET T
  PROVE  SumOver(f, S, s) = SumOver(h, T, s)
<1> DEFINE Bad == {t \in SUBSET s : SumOver(f, S, t) # SumOver(h, T, t)}
<1>0. s \in SUBSET S /\ IsFiniteSet(s) /\ IsFiniteSet(T)
  <2>1. s \in SUBSET S
    OBVIOUS
  <2> QED BY <2>1, FS_Subset
<1>1. SUFFICES ASSUME Bad # {} PROVE FALSE
  OBVIOUS
<1>2. PICK t \in Bad : \A u \in Bad : Cardinality(t) <= Cardinality(u)
  <2> HIDE DEF Bad
  <2>1. Bad \in SUBSET SUBSET s
    BY DEF Bad
  <2> QED BY <2>1, <1>0, <1>1, SmallestSet
<1>3. t \in SUBSET S /\ t \in SUBSET T /\ t \in SUBSET s /\ IsFiniteSet(t)
  BY <1>0, FS_Subset
<1>4. /\ SumOver(f, S, t) = IF t = {} THEN 0 ELSE f[First(t)] + SumOver(f, S, Rest(t))
      /\ SumOver(h, T, t) = IF t = {} THEN 0 ELSE h[First(t)] + SumOver(h, T, Rest(t))
  BY <1>0, <1>3, TotalIs
<1>5. CASE t = {}
  BY <1>4, <1>5
<1>6. CASE t # {}
  <2>1. First(t) \in t
    BY <1>6, FirstIsIn
  <2>2. ~ (Cardinality(t) <= Cardinality(Rest(t)))
    <3>1. /\ Cardinality(Rest(t)) = Cardinality(t) - 1
          /\ Cardinality(t) \in Nat
      BY <2>1, <1>3, RestIsSmaller DEF Rest
    <3> QED BY <3>1
  <2>3. Rest(t) \notin Bad
    <3> HIDE DEF Bad
    <3> QED BY <2>2, <1>2
  <2>4. SumOver(f, S, Rest(t)) = SumOver(h, T, Rest(t))
    BY <2>3, <1>3 DEF Rest
  <2> QED BY <2>1, <2>4, <1>3, <1>4, <1>6
<1> QED BY <1>5, <1>6

\* Larger values have a larger sum.
LEMMA LargerTotal ==
  ASSUME NEW S, IsFiniteSet(S), NEW f, NEW h,
         \A x \in S : f[x] \in Int /\ h[x] \in Int /\ f[x] <= h[x],
         NEW s \in SUBSET S
  PROVE  SumOver(f, S, s) <= SumOver(h, S, s)
<1> DEFINE Bad == {t \in SUBSET s : ~ (SumOver(f, S, t) <= SumOver(h, S, t))}
<1>0. IsFiniteSet(s)
  BY FS_Subset
<1>1. SUFFICES ASSUME Bad # {} PROVE FALSE
  OBVIOUS
<1>2. PICK t \in Bad : \A u \in Bad : Cardinality(t) <= Cardinality(u)
  <2> HIDE DEF Bad
  <2>1. Bad \in SUBSET SUBSET s
    BY DEF Bad
  <2> QED BY <2>1, <1>0, <1>1, SmallestSet
<1>3. t \in SUBSET S /\ t \in SUBSET s /\ IsFiniteSet(t)
  BY FS_Subset
<1>4. /\ SumOver(f, S, t) = IF t = {} THEN 0 ELSE f[First(t)] + SumOver(f, S, Rest(t))
      /\ SumOver(h, S, t) = IF t = {} THEN 0 ELSE h[First(t)] + SumOver(h, S, Rest(t))
  BY <1>3, TotalIs
<1>5. CASE t = {}
  BY <1>4, <1>5
<1>6. CASE t # {}
  <2>1. First(t) \in t
    BY <1>6, FirstIsIn
  <2>2. ~ (Cardinality(t) <= Cardinality(Rest(t)))
    <3>1. /\ Cardinality(Rest(t)) = Cardinality(t) - 1
          /\ Cardinality(t) \in Nat
      BY <2>1, <1>3, RestIsSmaller DEF Rest
    <3> QED BY <3>1
  <2>3. Rest(t) \notin Bad
    <3> HIDE DEF Bad
    <3> QED BY <2>2, <1>2
  <2>4. SumOver(f, S, Rest(t)) <= SumOver(h, S, Rest(t))
    BY <2>3, <1>3 DEF Rest
  <2>5. Rest(t) \in SUBSET S
    BY <1>3 DEF Rest
  <2>6. SumOver(f, S, Rest(t)) \in Int /\ SumOver(h, S, Rest(t)) \in Int
    BY <2>5, AnyFirst
  <2>7. f[First(t)] \in Int /\ h[First(t)] \in Int /\ f[First(t)] <= h[First(t)]
    BY <2>1, <1>3
  <2>8. /\ SumOver(f, S, t) = f[First(t)] + SumOver(f, S, Rest(t))
        /\ SumOver(h, S, t) = h[First(t)] + SumOver(h, S, Rest(t))
    BY <1>4, <1>6
  <2>9. SumOver(f, S, t) <= SumOver(h, S, t)
    <3> HIDE DEF Bad
    <3> QED BY <2>4, <2>6, <2>7, <2>8
  <2> QED BY <2>9
<1> QED BY <1>5, <1>6

-----------------------------------------------------------------------------
(* The facts to cite.                                                      *)

LEMMA SumOf ==
  ASSUME NEW D, NEW f, DOMAIN f = D
  PROVE  SumFunction(f) = SumOver(f, D, D)
BY SumIsTotal DEF SumFunction

LEMMA SumInt ==
  ASSUME NEW D, IsFiniteSet(D), NEW f \in [D -> Int]
  PROVE  SumFunction(f) \in Int
<1>1. \A s \in SUBSET D : SumOver(f, D, s) \in Int
  BY AnyFirst
<1>2. D \in SUBSET D => SumOver(f, D, D) \in Int
  BY <1>1, Zenon
<1> QED BY <1>2, SumOf

LEMMA SumOfNothing ==
  ASSUME NEW f, DOMAIN f = {}
  PROVE  SumFunction(f) = 0
<1>1. IsFiniteSet({})
  BY FS_EmptySet
<1>2. \A s \in SUBSET {} : s = {} => SumOver(f, {}, s) = 0
  BY <1>1, TotalIs
<1>3. {} \in SUBSET {} => SumOver(f, {}, {}) = 0
  BY <1>2, Zenon
<1> QED BY <1>3, SumOf

LEMMA AnyFirstOfAll ==
  ASSUME NEW D, IsFiniteSet(D), NEW f, \A d \in D : f[d] \in Int, NEW x \in D
  PROVE  SumOver(f, D, D) = f[x] + SumOver(f, D, D \ {x})
<1>1. \A s \in SUBSET D :
        /\ SumOver(f, D, s) \in Int
        /\ \A y \in s : SumOver(f, D, s) = f[y] + SumOver(f, D, s \ {y})
  BY AnyFirst
<1>2. D \in SUBSET D => \A y \in D : SumOver(f, D, D) = f[y] + SumOver(f, D, D \ {y})
  BY <1>1, Zenon
<1> QED BY <1>2

LEMMA TakenOut ==
  ASSUME NEW D, IsFiniteSet(D), NEW f, DOMAIN f = D, \A d \in D : f[d] \in Int,
         NEW x \in D,
         NEW h, DOMAIN h = D \ {x}, \A d \in D \ {x} : f[d] = h[d]
  PROVE  SumFunction(f) = f[x] + SumFunction(h)
<1> DEFINE E == D \ {x}
<1>2. SumOver(f, D, D) = f[x] + SumOver(f, D, D \ {x})
  BY AnyFirstOfAll
<1>3. E \subseteq D /\ (\A d \in E : f[d] = h[d])
  OBVIOUS
<1>4. \A s \in SUBSET E : SumOver(f, D, s) = SumOver(h, E, s)
  <2> HIDE DEF E
  <2> QED BY <1>3, SameTotal
<1>5. E \in SUBSET E => SumOver(f, D, E) = SumOver(h, E, E)
  <2> HIDE DEF E
  <2> QED BY <1>4, Zenon
<1>6. SumFunction(f) = SumOver(f, D, D) /\ SumFunction(h) = SumOver(h, E, E)
  BY SumOf
<1> QED BY <1>2, <1>5, <1>6

\* One value can be taken out of a sum.
LEMMA SumTakeOut ==
  ASSUME NEW D, IsFiniteSet(D), NEW f \in [D -> Int], NEW x \in D
  PROVE  SumFunction(f) = f[x] + SumFunction([d \in D \ {x} |-> f[d]])
<1> DEFINE h == [d \in D \ {x} |-> f[d]]
<1>1. /\ DOMAIN f = D /\ (\A d \in D : f[d] \in Int)
      /\ DOMAIN h = D \ {x} /\ \A d \in D \ {x} : f[d] = h[d]
  OBVIOUS
<1>2. SumFunction(f) = f[x] + SumFunction(h)
  <2> HIDE DEF h
  <2> QED BY <1>1, TakenOut
<1> QED BY <1>2

\* One value changes a sum by as much as it changes.
LEMMA SumOneChanged ==
  ASSUME NEW D, IsFiniteSet(D), NEW f \in [D -> Int], NEW h \in [D -> Int],
         NEW x \in D, \A d \in D \ {x} : h[d] = f[d]
  PROVE  SumFunction(h) = SumFunction(f) - f[x] + h[x]
<1> DEFINE r == [d \in D \ {x} |-> f[d]]
<1>1. r = [d \in D \ {x} |-> h[d]]
  OBVIOUS
<1>2. SumFunction(f) = f[x] + SumFunction(r)
  <2>1. f \in [D -> Int] /\ IsFiniteSet(D) /\ x \in D
    OBVIOUS
  <2> QED BY <2>1, SumTakeOut
<1>3. SumFunction(h) = h[x] + SumFunction(r)
  <2> HIDE DEF r
  <2> QED BY <1>1, SumTakeOut
<1>4. SumFunction(r) \in Int
  <2>1. r \in [D \ {x} -> Int] /\ IsFiniteSet(D \ {x})
    BY FS_RemoveElement
  <2> HIDE DEF r
  <2> QED BY <2>1, SumInt
<1>5. f[x] \in Int /\ h[x] \in Int
  OBVIOUS
<1> HIDE DEF r
<1> QED BY <1>2, <1>3, <1>4, <1>5

LEMMA SumMonotone ==
  ASSUME NEW D, IsFiniteSet(D), NEW f \in [D -> Int], NEW h \in [D -> Int],
         \A d \in D : f[d] <= h[d]
  PROVE  SumFunction(f) <= SumFunction(h)
<1>1. \A s \in SUBSET D : SumOver(f, D, s) <= SumOver(h, D, s)
  <2>1. \A d \in D : f[d] \in Int /\ h[d] \in Int /\ f[d] <= h[d]
    OBVIOUS
  <2> QED BY <2>1, LargerTotal
<1>2. D \in SUBSET D => SumOver(f, D, D) <= SumOver(h, D, D)
  BY <1>1, Zenon
<1> QED BY <1>2, SumOf

LEMMA SumOfZeros ==
  ASSUME NEW D, IsFiniteSet(D)
  PROVE  SumFunction([d \in D |-> 0]) = 0
<1> DEFINE f == [d \in D |-> 0]
           Bad == {t \in SUBSET D : SumFunction([d \in t |-> 0]) # 0}
<1>1. SUFFICES ASSUME Bad # {} PROVE FALSE
  OBVIOUS
<1>2. PICK t \in Bad : \A u \in Bad : Cardinality(t) <= Cardinality(u)
  <2> HIDE DEF Bad
  <2>1. Bad \in SUBSET SUBSET D
    BY DEF Bad
  <2> QED BY <2>1, <1>1, SmallestSet
<1>3. IsFiniteSet(t) /\ t \in SUBSET D
  BY FS_Subset
<1>4. t # {}
  <2>1. DOMAIN [d \in {} |-> 0] = {}
    OBVIOUS
  <2> QED BY <2>1, SumOfNothing
<1>5. PICK x \in t : TRUE
  BY <1>4
<1>6. SumFunction([d \in t |-> 0]) = [d \in t |-> 0][x]
        + SumFunction([d \in t \ {x} |-> [e \in t |-> 0][d]])
  <2>1. [d \in t |-> 0] \in [t -> Int]
    OBVIOUS
  <2> QED BY <2>1, <1>3, SumTakeOut
<1>7. [d \in t \ {x} |-> [e \in t |-> 0][d]] = [d \in t \ {x} |-> 0]
  OBVIOUS
<1>8. SumFunction([d \in t \ {x} |-> 0]) = 0
  <2>1. ~ (Cardinality(t) <= Cardinality(t \ {x}))
    BY <1>3, RestIsSmaller
  <2>2. t \ {x} \notin Bad
    <3> HIDE DEF Bad
    <3> QED BY <2>1, <1>2
  <2> QED BY <2>2, <1>3
<1>9. SumFunction([d \in t |-> 0]) = 0
  BY <1>6, <1>7, <1>8
<1> QED BY <1>9

LEMMA SumNat ==
  ASSUME NEW D, IsFiniteSet(D), NEW f \in [D -> Nat]
  PROVE  /\ SumFunction(f) \in Nat
         /\ \A x \in D : f[x] <= SumFunction(f)
<1>1. \A h \in [D -> Nat] : SumFunction(h) \in Nat
  <2> SUFFICES ASSUME NEW h \in [D -> Nat] PROVE SumFunction(h) \in Nat
    OBVIOUS
  <2> DEFINE z == [d \in D |-> 0]
  <2>1. z \in [D -> Int] /\ h \in [D -> Int] /\ \A d \in D : z[d] <= h[d]
    OBVIOUS
  <2>2. SumFunction(z) = 0
    BY SumOfZeros
  <2>3. SumFunction(z) <= SumFunction(h)
    <3> HIDE DEF z
    <3> QED BY <2>1, SumMonotone
  <2>4. SumFunction(h) \in Int
    BY SumInt
  <2> QED BY <2>2, <2>3, <2>4
<1>2. ASSUME NEW x \in D PROVE f[x] <= SumFunction(f)
  <2> DEFINE r == [d \in D |-> IF d = x THEN 0 ELSE f[d]]
  <2>1. r \in [D -> Nat] /\ r \in [D -> Int] /\ f \in [D -> Int]
        /\ r[x] = 0 /\ f[x] \in Nat /\ \A d \in D \ {x} : f[d] = r[d]
    OBVIOUS
  <2> HIDE DEF r
  <2>2. SumFunction(f) = SumFunction(r) - r[x] + f[x]
    BY <2>1, SumOneChanged
  <2>3. SumFunction(r) \in Nat
    BY <2>1, <1>1
  <2> QED BY <2>1, <2>2, <2>3
<1> QED BY <1>1, <1>2

\* A sum whose values can be told apart among those of another, each no larger
\* than the one it is matched with, is no larger than the other.
LEMMA SumInto ==
  ASSUME NEW D, IsFiniteSet(D), NEW E, IsFiniteSet(E),
         NEW f \in [D -> Nat], NEW h \in [E -> Nat], NEW p \in [D -> E],
         \A c, d \in D : p[c] = p[d] => c = d,
         \A d \in D : f[d] <= h[p[d]]
  PROVE  SumFunction(f) <= SumFunction(h)
<1> DEFINE Within(t, u) == \A d \in t : p[d] \in u
           Bad == {t \in SUBSET D : \E u \in SUBSET E :
                     Within(t, u) /\ ~ (SumOver(f, D, t) <= SumOver(h, E, u))}
<1>0. /\ \A d \in D : f[d] \in Int
      /\ \A e \in E : h[e] \in Int
  OBVIOUS
<1>1. \A t \in SUBSET D : /\ SumOver(f, D, t) \in Int
                          /\ \A x \in t : SumOver(f, D, t) = f[x] + SumOver(f, D, t \ {x})
  BY <1>0, AnyFirst
<1>2. \A u \in SUBSET E : /\ SumOver(h, E, u) \in Int
                          /\ \A x \in u : SumOver(h, E, u) = h[x] + SumOver(h, E, u \ {x})
  BY <1>0, AnyFirst
<1>3. \A u \in SUBSET E : SumOver(h, E, u) >= 0
  <2> DEFINE Under == {u \in SUBSET E : ~ (SumOver(h, E, u) >= 0)}
  <2>1. SUFFICES ASSUME Under # {} PROVE FALSE
    OBVIOUS
  <2>2. PICK u \in Under : \A w \in Under : Cardinality(u) <= Cardinality(w)
    <3> HIDE DEF Under
    <3>1. Under \in SUBSET SUBSET E
      BY DEF Under
    <3> QED BY <3>1, <2>1, SmallestSet
  <2>3. IsFiniteSet(u) /\ u \in SUBSET E
    BY FS_Subset
  <2>4. u # {}
    BY <2>3, TotalIs
  <2>5. PICK x \in u : TRUE
    BY <2>4
  <2>6. u \ {x} \notin Under
    <3> HIDE DEF Under
    <3>0. x \in u /\ IsFiniteSet(u)
      BY <2>3
    <3>1. ~ (Cardinality(u) <= Cardinality(u \ {x}))
      BY <3>0, RestIsNoLarger, Zenon
    <3> QED BY <3>1, <2>2
  <2>7. u \ {x} \in SUBSET E
    BY <2>3
  <2>8. SumOver(h, E, u) = h[x] + SumOver(h, E, u \ {x})
    BY <1>2, <2>3
  <2>9. h[x] \in Nat /\ SumOver(h, E, u \ {x}) \in Int
    BY <2>3, <2>7, <1>2
  <2> QED BY <2>2, <2>6, <2>7, <2>8, <2>9
<1>4. SUFFICES ASSUME Bad # {} PROVE FALSE
  <2>1. Bad = {} => \A t \in SUBSET D, u \in SUBSET E :
                      Within(t, u) => SumOver(f, D, t) <= SumOver(h, E, u)
    OBVIOUS
  <2>2. Within(D, E)
    OBVIOUS
  <2>3. Bad = {} /\ D \in SUBSET D /\ E \in SUBSET E => SumOver(f, D, D) <= SumOver(h, E, E)
    <3> HIDE DEF Within, Bad
    <3> QED BY <2>1, <2>2, Zenon
  <2> HIDE DEF Bad
  <2> QED BY <2>3, SumOf
<1>5. PICK t \in Bad : \A w \in Bad : Cardinality(t) <= Cardinality(w)
  <2> HIDE DEF Bad
  <2>1. Bad \in SUBSET SUBSET D
    BY DEF Bad
  <2> QED BY <2>1, <1>4, SmallestSet
<1>6. PICK u \in SUBSET E : Within(t, u) /\ ~ (SumOver(f, D, t) <= SumOver(h, E, u))
  OBVIOUS
<1>7. IsFiniteSet(t) /\ t \in SUBSET D
  BY FS_Subset
<1>8. t # {}
  <2>1. t = {} => SumOver(f, D, t) = 0
    BY <1>7, TotalIs
  <2> QED BY <2>1, <1>6, <1>3, <1>2
<1>9. PICK x \in t : TRUE
  BY <1>8
<1>10. t \ {x} \notin Bad
  <2> HIDE DEF Bad
  <2>0. x \in t /\ IsFiniteSet(t)
    BY <1>7
  <2>1. ~ (Cardinality(t) <= Cardinality(t \ {x}))
    BY <2>0, RestIsNoLarger, Zenon
  <2> QED BY <2>1, <1>5
<1>11. /\ t \ {x} \in SUBSET D /\ u \ {p[x]} \in SUBSET E
       /\ Within(t \ {x}, u \ {p[x]}) /\ p[x] \in u /\ x \in D
  BY <1>6, <1>7
<1>12. SumOver(f, D, t \ {x}) <= SumOver(h, E, u \ {p[x]})
  BY <1>10, <1>11
<1>13. /\ SumOver(f, D, t) = f[x] + SumOver(f, D, t \ {x})
       /\ SumOver(h, E, u) = h[p[x]] + SumOver(h, E, u \ {p[x]})
  BY <1>1, <1>2, <1>7, <1>11
<1>14. /\ f[x] \in Nat /\ h[p[x]] \in Nat /\ f[x] <= h[p[x]]
       /\ SumOver(f, D, t \ {x}) \in Int /\ SumOver(h, E, u \ {p[x]}) \in Int
  BY <1>1, <1>2, <1>11
<1> QED BY <1>6, <1>12, <1>13, <1>14
==============================================================================
