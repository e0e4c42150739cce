---------------------------------- MODULE Sums ----------------------------------
(***************************************************************************)
(* Lemmas about sums over finite sets, as MapThenSumSet of the community   *)
(* modules computes them: taking one element after another, whichever      *)
(* CHOOSE gives.  That the order does not matter is an induction on the    *)
(* number of elements; the induction itself comes from the least element   *)
(* of a set of natural numbers, which is what the library's theorems say   *)
(* of a set rather than of an operator.                                    *)
(***************************************************************************)
EXTENDS Integers, FiniteSetsExt, FiniteSetTheorems, WellFoundedInduction, TLAPS

-------------------------------------------------------------------------------
(* Induction                                                               *)

LEMMA LeastElement ==
    ASSUME NEW T, T \subseteq Nat, T # {}
    PROVE  \E x \in T : \A y \in T : x <= y
<1> DEFINE R == {ss \in Nat \X Nat : ss[1] < ss[2]}
<1>1. IsWellFoundedOn(R, Nat)
  BY NatLessThanWellFounded DEF OpToRel
<1>2. ASSUME NEW x \in Nat, NEW y \in Nat, y < x PROVE <<y, x>> \in R
  <2> DEFINE p == <<y, x>>
  <2>1. p \in Nat \X Nat /\ p[1] = y /\ p[2] = x
    OBVIOUS
  <2>2. p[1] < p[2]
    BY <1>2, <2>1
  <2> HIDE DEF p
  <2>3. p \in R
    BY <2>1, <2>2
  <2> QED
    BY <2>3 DEF p
<1> HIDE DEF R
<1>3. PICK x \in T : \A y \in T : <<y, x>> \notin R
  BY <1>1, WFMin
<1>4. \A y \in T : y \in Nat /\ ~ (y < x)
  BY <1>2, <1>3
<1>5. x \in Nat
  OBVIOUS
<1>6. \A y \in T : x <= y
  BY <1>4, <1>5
<1> QED
  BY <1>6

\* Whatever set of numbers holds 0, and the next of each that it holds, holds all.
LEMMA Induction ==
    ASSUME NEW S, 0 \in S, \A n \in Nat : n \in S => n + 1 \in S
    PROVE  Nat \subseteq S
<1> SUFFICES ASSUME Nat \ S # {} PROVE FALSE
  OBVIOUS
<1>1. PICK x \in Nat \ S : \A y \in Nat \ S : x <= y
  BY LeastElement
<1>2. x # 0 /\ x - 1 \in Nat /\ x - 1 \in S
  BY <1>1
<1>3. x - 1 + 1 \in S
  BY <1>2
<1> QED
  BY <1>1, <1>3

-------------------------------------------------------------------------------
(* Sums                                                                    *)

First(s) == CHOOSE x \in s : TRUE

\* g[s] is the sum of f over s, for every subset of S.
Adds(g, f, S) ==
    g = [s \in SUBSET S |-> IF s = {} THEN 0 ELSE f[First(s)] + g[s \ {First(s)}]]

SumOf(f) == LET g == CHOOSE g : Adds(g, f, DOMAIN f) IN g[DOMAIN f]

LEMMA FirstIsIn == \A s : s # {} => First(s) \in s
BY DEF First

LEMMA OneLess ==
    ASSUME NEW s, IsFiniteSet(s), NEW x \in s
    PROVE  IsFiniteSet(s \ {x}) /\ Cardinality(s) \in Nat /\ Cardinality(s \ {x}) = Cardinality(s) - 1
           /\ Cardinality(s) # 0
BY FS_RemoveElement, FS_CardinalityType, FS_EmptySet

\* There is a function that adds up any finite set.
LEMMA SumsExist ==
    ASSUME NEW f, NEW S, IsFiniteSet(S)
    PROVE  \E g : Adds(g, f, S)
<1> DEFINE Next(g, s) == IF s = {} THEN 0 ELSE f[First(s)] + g[s \ {First(s)}]
           Small(k) == {s \in SUBSET S : Cardinality(s) <= k}
           Up(k, g) == \A s \in Small(k) : g[s] = Next(g, s)
           K == {k \in Nat : \E g : Up(k, g)}
<1>1. \A s \in SUBSET S : IsFiniteSet(s) /\ Cardinality(s) \in Nat /\ Cardinality(s) <= Cardinality(S)
  BY FS_Subset, FS_CardinalityType
<1>2. 0 \in K
  <2> DEFINE z == [s \in SUBSET S |-> 0]
  <2>1. \A s \in Small(0) : s = {} /\ z[s] = 0
    BY <1>1, FS_EmptySet
  <2>2. Up(0, z)
    BY <2>1
  <2> QED
    BY <2>2
<1>3. ASSUME NEW k \in Nat, k \in K PROVE k + 1 \in K
  <2>1. PICK g : Up(k, g)
    BY <1>3
  <2> DEFINE h == [s \in SUBSET S |-> IF s \in Small(k) THEN g[s] ELSE Next(g, s)]
  <2>2. \A s \in Small(k + 1) : s # {} => s \ {First(s)} \in Small(k)
    <3> TAKE s \in Small(k + 1)
    <3> HAVE s # {}
    <3>1. First(s) \in s /\ IsFiniteSet(s)
      BY <1>1, FirstIsIn
    <3>2. Cardinality(s \ {First(s)}) = Cardinality(s) - 1 /\ Cardinality(s) \in Nat
      BY <3>1, OneLess
    <3> QED
      BY <3>2
  <2>3. \A s \in Small(k) : h[s] = g[s]
    OBVIOUS
  <2>4. \A s \in Small(k + 1) : Next(h, s) = Next(g, s)
    BY <2>2, <2>3
  <2>5. \A s \in Small(k + 1) : h[s] = Next(g, s)
    BY <2>1
  <2>6. Up(k + 1, h)
    BY <2>4, <2>5
  <2> HIDE DEF h, Up
  <2>7. \E i : Up(k + 1, i)
    BY <2>6
  <2> QED
    BY <2>7
<1>4. Cardinality(S) \in K
  <2> HIDE DEF K
  <2>1. Nat \subseteq K
    BY <1>2, <1>3, Induction
  <2> QED
    BY <2>1, FS_CardinalityType
<1>5. PICK g : Up(Cardinality(S), g)
  BY <1>4
<1>6. \A s \in SUBSET S : g[s] = Next(g, s)
  BY <1>1, <1>5
<1> DEFINE h == [s \in SUBSET S |-> g[s]]
<1>7. \A s \in SUBSET S : Next(h, s) = Next(g, s)
  OBVIOUS
<1>8. h = [s \in SUBSET S |-> Next(h, s)]
  BY <1>6, <1>7
<1> QED
  BY <1>8 DEF Adds

\* The order does not matter, and the sum of natural numbers is one.
LEMMA AnyOrder ==
    ASSUME NEW f, NEW S, IsFiniteSet(S), \A x \in S : f[x] \in Int, NEW g, Adds(g, f, S)
    PROVE  /\ g[{}] = 0
           /\ \A s \in SUBSET S : g[s] \in Int
           /\ \A s \in SUBSET S : \A x \in s : g[s] = f[x] + g[s \ {x}]
<1> DEFINE Good(s) == g[s] \in Int /\ \A x \in s : g[s] = f[x] + g[s \ {x}]
           K == {k \in Nat : \A s \in SUBSET S : Cardinality(s) <= k => Good(s)}
<1>1. \A s \in SUBSET S : IsFiniteSet(s) /\ Cardinality(s) \in Nat /\ Cardinality(s) <= Cardinality(S)
  BY FS_Subset, FS_CardinalityType
<1>2. g[{}] = 0
  BY DEF Adds
<1>3. \A s \in SUBSET S : s # {} => g[s] = f[First(s)] + g[s \ {First(s)}]
  BY DEF Adds
<1>4. 0 \in K
  <2>1. \A s \in SUBSET S : Cardinality(s) <= 0 => s = {}
    BY <1>1, FS_EmptySet
  <2>2. Good({})
    BY <1>2
  <2> HIDE DEF Good
  <2> QED
    BY <2>1, <2>2
<1>5. ASSUME NEW k \in Nat, k \in K PROVE k + 1 \in K
  <2> SUFFICES ASSUME NEW s \in SUBSET S, Cardinality(s) <= k + 1, s # {} PROVE Good(s)
    <3>1. Good({})
      BY <1>2
    <3> HIDE DEF Good
    <3> QED
      BY <3>1
  <2>1. \A t \in SUBSET S : Cardinality(t) <= k => Good(t)
    BY <1>5
  <2> DEFINE c == First(s)
  <2>2. c \in s /\ g[s] = f[c] + g[s \ {c}]
    BY <1>3, FirstIsIn
  <2> HIDE DEF c
  <2>3. \A x \in s : s \ {x} \in SUBSET S /\ Cardinality(s \ {x}) <= k
    <3> TAKE x \in s
    <3>1. Cardinality(s \ {x}) = Cardinality(s) - 1 /\ Cardinality(s) \in Nat
      BY <1>1, OneLess
    <3> QED
      BY <3>1
  <2>4. \A x \in s : Good(s \ {x})
    BY <2>1, <2>3
  <2>5. f[c] \in Int /\ g[s] \in Int
    <3>1. Good(s \ {c})
      BY <2>2, <2>4
    <3>2. g[s \ {c}] \in Int /\ f[c] \in Int
      BY <2>2, <3>1
    <3> QED
      BY <2>2, <3>2
  <2>6. ASSUME NEW x \in s PROVE g[s] = f[x] + g[s \ {x}]
    <3>1. CASE x = c
      BY <2>2, <3>1
    <3>2. CASE x # c
      <4>1. x \in s \ {c} /\ c \in s \ {x}
        BY <2>2, <3>2
      <4>2. g[s \ {c}] = f[x] + g[(s \ {c}) \ {x}]
        BY <2>2, <2>4, <4>1
      <4>3. g[s \ {x}] = f[c] + g[(s \ {x}) \ {c}]
        BY <2>4, <4>1
      <4>4. (s \ {c}) \ {x} = (s \ {x}) \ {c}
        OBVIOUS
      <4>5. PICK rest : rest = g[(s \ {c}) \ {x}]
        OBVIOUS
      <4>6. rest \in Int
        <5>1. Cardinality((s \ {c}) \ {x}) <= k
          <6>1. IsFiniteSet(s \ {c}) /\ Cardinality(s \ {c}) <= k
            BY <1>1, <2>2, <2>3
          <6>2. Cardinality((s \ {c}) \ {x}) = Cardinality(s \ {c}) - 1 /\ Cardinality(s \ {c}) \in Nat
            BY <4>1, <6>1, OneLess
          <6> QED
            BY <6>1, <6>2
        <5> QED
          BY <2>1, <4>5, <5>1
      <4>7. g[s] = f[c] + (f[x] + rest) /\ g[s \ {x}] = f[c] + rest
        BY <2>2, <4>2, <4>3, <4>4, <4>5
      <4>8. f[x] \in Int
        OBVIOUS
      <4> QED
        BY <2>5, <4>6, <4>7, <4>8
    <3> QED
      BY <3>1, <3>2
  <2> QED
    BY <2>5, <2>6
<1>6. Nat \subseteq K
  <2> HIDE DEF K
  <2> QED
    BY <1>4, <1>5, Induction
<1>7. \A s \in SUBSET S : Good(s)
  <2> SUFFICES ASSUME NEW s \in SUBSET S PROVE Good(s)
    OBVIOUS
  <2>1. Cardinality(s) \in K /\ Cardinality(s) <= Cardinality(s)
    BY <1>1, <1>6
  <2> QED
    BY <2>1
<1> QED
  BY <1>2, <1>7

\* A sum depends on the values alone, not on what else could be added up.
LEMMA SumsAgree ==
    ASSUME NEW f, NEW S, IsFiniteSet(S), \A x \in S : f[x] \in Int, NEW g, Adds(g, f, S),
           NEW e, NEW T, IsFiniteSet(T), \A x \in T : e[x] \in Int, NEW h, Adds(h, e, T)
    PROVE  \A s \in (SUBSET S) \cap (SUBSET T) : (\A x \in s : f[x] = e[x]) => g[s] = h[s]
<1> DEFINE Same(s) == (\A x \in s : f[x] = e[x]) => g[s] = h[s]
           Both == (SUBSET S) \cap (SUBSET T)
           K == {k \in Nat : \A s \in Both : Cardinality(s) <= k => Same(s)}
<1>1. \A s \in Both : IsFiniteSet(s) /\ Cardinality(s) \in Nat
  BY FS_Subset, FS_CardinalityType
<1>2. g[{}] = 0 /\ h[{}] = 0
  BY DEF Adds
<1>3. \A s \in Both : s # {} => /\ First(s) \in s /\ s \ {First(s)} \in Both
                                /\ g[s] = f[First(s)] + g[s \ {First(s)}]
                                /\ h[s] = e[First(s)] + h[s \ {First(s)}]
  <2> TAKE s \in Both
  <2> HAVE s # {}
  <2>1. First(s) \in s
    BY FirstIsIn
  <2>2. g[s] = f[First(s)] + g[s \ {First(s)}]
    BY <2>1, AnyOrder
  <2>3. h[s] = e[First(s)] + h[s \ {First(s)}]
    BY <2>1, AnyOrder
  <2> QED
    BY <2>1, <2>2, <2>3
<1>4. 0 \in K
  <2>1. \A s \in Both : Cardinality(s) <= 0 => s = {}
    BY <1>1, FS_EmptySet
  <2>2. Same({})
    BY <1>2
  <2> HIDE DEF Same
  <2> QED
    BY <2>1, <2>2
<1>5. ASSUME NEW k \in Nat, k \in K PROVE k + 1 \in K
  <2>1. \A s \in Both : Cardinality(s) <= k => Same(s)
    BY <1>5
  <2>2. ASSUME NEW s \in Both, Cardinality(s) <= k + 1, s # {} PROVE Same(s)
    <3> DEFINE c == First(s)
    <3>1. /\ c \in s /\ s \ {c} \in Both
          /\ g[s] = f[c] + g[s \ {c}] /\ h[s] = e[c] + h[s \ {c}]
      BY <1>3, <2>2
    <3> HIDE DEF c
    <3>2. Cardinality(s \ {c}) <= k
      <4>1. Cardinality(s \ {c}) = Cardinality(s) - 1 /\ Cardinality(s) \in Nat
        BY <1>1, <3>1, OneLess
      <4> QED
        BY <2>2, <4>1
    <3>3. Same(s \ {c})
      BY <2>1, <3>1, <3>2
    <3> QED
      BY <3>1, <3>3
  <2>3. \A s \in Both : Cardinality(s) <= k + 1 => Same(s)
    <3>1. Same({})
      BY <1>2
    <3> HIDE DEF Same
    <3> QED
      BY <2>2, <3>1
  <2> QED
    BY <2>3
<1>6. Nat \subseteq K
  <2> HIDE DEF K
  <2> QED
    BY <1>4, <1>5, Induction
<1>7. ASSUME NEW s \in Both PROVE Same(s)
  <2>1. Cardinality(s) \in K /\ Cardinality(s) <= Cardinality(s)
    BY <1>1, <1>6
  <2> QED
    BY <2>1
<1> QED
  BY <1>7

\* The sum of the values of f.
LEMMA SumIs ==
    ASSUME NEW f, IsFiniteSet(DOMAIN f)
    PROVE  \E g : Adds(g, f, DOMAIN f) /\ SumOf(f) = g[DOMAIN f]
<1> DEFINE it == CHOOSE g : Adds(g, f, DOMAIN f)
<1>1. Adds(it, f, DOMAIN f)
  BY SumsExist
<1>2. SumOf(f) = it[DOMAIN f]
  BY DEF SumOf
<1> QED
  BY <1>1, <1>2

LEMMA SumInAnyOrder ==
    ASSUME NEW f, IsFiniteSet(DOMAIN f), \A y \in DOMAIN f : f[y] \in Int
    PROVE  \E g : /\ Adds(g, f, DOMAIN f) /\ SumOf(f) = g[DOMAIN f]
                  /\ \A s \in SUBSET DOMAIN f : g[s] \in Int
                  /\ \A s \in SUBSET DOMAIN f : \A y \in s : g[s] = f[y] + g[s \ {y}]
<1>1. PICK g : Adds(g, f, DOMAIN f) /\ SumOf(f) = g[DOMAIN f]
  BY SumIs
<1>2. PICK S : S = DOMAIN f
  OBVIOUS
<1>3. /\ \A s \in SUBSET S : g[s] \in Int
      /\ \A s \in SUBSET S : \A y \in s : g[s] = f[y] + g[s \ {y}]
  <2>1. IsFiniteSet(S) /\ (\A y \in S : f[y] \in Int) /\ Adds(g, f, S)
    BY <1>1, <1>2
  <2> QED
    BY <2>1, AnyOrder
<1> WITNESS g
<1> QED
  BY <1>1, <1>2, <1>3

LEMMA SumOfNone == ASSUME NEW f, DOMAIN f = {} PROVE SumOf(f) = 0
<1>1. PICK g : Adds(g, f, DOMAIN f) /\ SumOf(f) = g[DOMAIN f]
  BY SumIs, FS_EmptySet
<1> QED
  BY <1>1 DEF Adds

\* One value more, or another one.
LEMMA SumOfOneElse ==
    ASSUME NEW f, NEW e, IsFiniteSet(DOMAIN e), NEW x \in DOMAIN e,
           DOMAIN f = DOMAIN e \/ (DOMAIN f = DOMAIN e \ {x}),
           \A y \in DOMAIN f : f[y] \in Int, \A y \in DOMAIN e : e[y] \in Int,
           \A y \in DOMAIN f \ {x} : f[y] = e[y]
    PROVE  SumOf(f) \in Int /\ SumOf(e) = SumOf(f) + e[x] - (IF x \in DOMAIN f THEN f[x] ELSE 0)
<1>0. IsFiniteSet(DOMAIN f)
  BY FS_RemoveElement
<1>1. PICK g : /\ Adds(g, f, DOMAIN f) /\ SumOf(f) = g[DOMAIN f]
               /\ \A s \in SUBSET DOMAIN f : g[s] \in Int
               /\ \A s \in SUBSET DOMAIN f : \A y \in s : g[s] = f[y] + g[s \ {y}]
  BY <1>0, SumInAnyOrder
<1>2. PICK h : /\ Adds(h, e, DOMAIN e) /\ SumOf(e) = h[DOMAIN e]
               /\ \A s \in SUBSET DOMAIN e : h[s] \in Int
               /\ \A s \in SUBSET DOMAIN e : \A y \in s : h[s] = e[y] + h[s \ {y}]
  BY SumInAnyOrder
<1> DEFINE rest == DOMAIN e \ {x}
<1>3. rest \in (SUBSET DOMAIN f) \cap (SUBSET DOMAIN e) /\ \A y \in rest : f[y] = e[y]
  OBVIOUS
<1>4. g[rest] = h[rest]
  BY <1>0, <1>1, <1>2, <1>3, SumsAgree
<1>5. h[DOMAIN e] = e[x] + h[rest] /\ h[rest] \in Int
  <2>2. DOMAIN e \in SUBSET DOMAIN e /\ rest \in SUBSET DOMAIN e
    OBVIOUS
  <2>3. h[DOMAIN e] = e[x] + h[DOMAIN e \ {x}]
    BY <1>2, <2>2
  <2>4. h[rest] \in Int
    BY <1>2, <2>2
  <2> QED
    BY <2>3, <2>4
<1>6. g[DOMAIN f] = (IF x \in DOMAIN f THEN f[x] ELSE 0) + g[rest] /\ g[DOMAIN f] \in Int
  <2>4. DOMAIN f \in SUBSET DOMAIN f
    OBVIOUS
  <2>2. CASE x \in DOMAIN f
    <3>1. rest = DOMAIN f \ {x}
      BY <2>2
    <3> QED
      BY <1>1, <2>2, <2>4, <3>1
  <2>3. CASE x \notin DOMAIN f
    <3>1. rest = DOMAIN f
      BY <2>3
    <3>2. g[DOMAIN f] = 0 + g[rest]
      BY <1>1, <2>4, <3>1
    <3> QED
      BY <1>1, <2>3, <2>4, <3>2
  <2> QED
    BY <2>2, <2>3
<1>7. e[x] \in Int /\ (x \in DOMAIN f => f[x] \in Int)
  OBVIOUS
<1> QED
  BY <1>1, <1>2, <1>4, <1>5, <1>6, <1>7

\* A sum of natural numbers is no less than any of them.
LEMMA SumOfNaturals ==
    ASSUME NEW f, IsFiniteSet(DOMAIN f), \A y \in DOMAIN f : f[y] \in Nat
    PROVE  SumOf(f) \in Nat /\ \A x \in DOMAIN f : f[x] <= SumOf(f)
<1>0. \A y \in DOMAIN f : f[y] \in Int
  OBVIOUS
<1>1. PICK g : /\ Adds(g, f, DOMAIN f) /\ SumOf(f) = g[DOMAIN f]
               /\ \A s \in SUBSET DOMAIN f : g[s] \in Int
               /\ \A s \in SUBSET DOMAIN f : \A y \in s : g[s] = f[y] + g[s \ {y}]
  BY <1>0, SumInAnyOrder
<1> DEFINE K == {k \in Nat : \A s \in SUBSET DOMAIN f : Cardinality(s) <= k => g[s] \in Nat}
<1>2. \A s \in SUBSET DOMAIN f : IsFiniteSet(s) /\ Cardinality(s) \in Nat
  BY FS_Subset, FS_CardinalityType
<1>3. g[{}] = 0
  BY <1>1 DEF Adds
<1>4. 0 \in K
  <2>1. \A s \in SUBSET DOMAIN f : Cardinality(s) <= 0 => s = {}
    BY <1>2, FS_EmptySet
  <2> QED
    BY <1>3, <2>1
<1>5. ASSUME NEW k \in Nat, k \in K PROVE k + 1 \in K
  <2> SUFFICES ASSUME NEW s \in SUBSET DOMAIN f, Cardinality(s) <= k + 1, s # {} PROVE g[s] \in Nat
    <3>1. \A s \in SUBSET DOMAIN f : s = {} => g[s] \in Nat
      BY <1>3
    <3> QED
      BY <3>1
  <2>1. PICK x \in s : TRUE
    OBVIOUS
  <2>2. Cardinality(s \ {x}) <= k
    <3>1. Cardinality(s \ {x}) = Cardinality(s) - 1 /\ Cardinality(s) \in Nat
      BY <1>2, OneLess
    <3> QED
      BY <3>1
  <2>3. g[s \ {x}] \in Nat
    BY <1>5, <2>2
  <2>4. g[s] = f[x] + g[s \ {x}]
    BY <1>1
  <2> QED
    BY <2>3, <2>4
<1>6. Nat \subseteq K
  <2> HIDE DEF K
  <2> QED
    BY <1>4, <1>5, Induction
<1>7. \A s \in SUBSET DOMAIN f : g[s] \in Nat
  <2> TAKE s \in SUBSET DOMAIN f
  <2>1. Cardinality(s) \in K /\ Cardinality(s) <= Cardinality(s)
    BY <1>2, <1>6
  <2> QED
    BY <2>1
<1>8. \A x \in DOMAIN f : g[DOMAIN f] = f[x] + g[DOMAIN f \ {x}]
  BY <1>1
<1>9. g[DOMAIN f] \in Nat /\ \A x \in DOMAIN f : g[DOMAIN f \ {x}] \in Nat
  BY <1>7
<1>10. \A x \in DOMAIN f : f[x] <= g[DOMAIN f]
  <2> TAKE x \in DOMAIN f
  <2> DEFINE all == g[DOMAIN f]
             rest == g[DOMAIN f \ {x}]
             one == f[x]
  <2>1. all = one + rest /\ all \in Nat /\ rest \in Nat /\ one \in Nat
    BY <1>8, <1>9
  <2> HIDE DEF all, rest, one
  <2>2. one <= all
    BY <2>1
  <2> QED
    BY <2>2 DEF all, one
<1>11. SumOf(f) = g[DOMAIN f]
  BY <1>1
<1> QED
  BY <1>9, <1>10, <1>11

\* What a number gains step by step is what it gains.
LEMMA SumOfSteps ==
    ASSUME NEW a \in Int, NEW b \in Int, a <= b, NEW c, \A r \in a .. b : c[r] \in Int,
           NEW f, DOMAIN f = a + 1 .. b, \A r \in a + 1 .. b : f[r] = c[r] - c[r - 1]
    PROVE  SumOf(f) = c[b] - c[a]
<1>1. IsFiniteSet(DOMAIN f) /\ \A y \in DOMAIN f : f[y] \in Int
  <2>1. IsFiniteSet(a + 1 .. b)
    BY FS_Interval
  <2> QED
    BY <2>1
<1>2. PICK g : /\ Adds(g, f, DOMAIN f) /\ SumOf(f) = g[DOMAIN f]
               /\ \A s \in SUBSET DOMAIN f : g[s] \in Int
               /\ \A s \in SUBSET DOMAIN f : \A y \in s : g[s] = f[y] + g[s \ {y}]
  BY <1>1, SumInAnyOrder
<1> DEFINE Upto(n) == a + 1 .. a + n
           K == {n \in Nat : a + n <= b => g[Upto(n)] = c[a + n] - c[a]}
<1>3. 0 \in K
  <2>1. Upto(0) = {} /\ a + 0 = a /\ c[a] \in Int
    OBVIOUS
  <2>2. g[{}] = 0
    BY <1>2 DEF Adds
  <2>3. g[Upto(0)] = c[a + 0] - c[a]
    BY <2>1, <2>2
  <2> HIDE DEF Upto
  <2> QED
    BY <2>3
<1>4. ASSUME NEW n \in Nat, n \in K PROVE n + 1 \in K
  <2> SUFFICES ASSUME a + (n + 1) <= b PROVE g[Upto(n + 1)] = c[a + (n + 1)] - c[a]
    OBVIOUS
  <2> DEFINE r == a + (n + 1)
  <2>1. r \in a + 1 .. b /\ r \in Upto(n + 1) /\ r - 1 = a + n
    OBVIOUS
  <2>2. f[r] = c[r] - c[a + n]
    BY <2>1
  <2>7. Upto(n + 1) \in SUBSET DOMAIN f
    OBVIOUS
  <2>8. Upto(n + 1) \ {r} = Upto(n)
    <3>1. \A i \in Int : i \in Upto(n + 1) /\ i # r <=> i \in Upto(n)
      OBVIOUS
    <3>2. \A i : i \in Upto(n + 1) \/ i \in Upto(n) => i \in Int
      OBVIOUS
    <3> HIDE DEF Upto, r
    <3> QED
      BY <3>1, <3>2
  <2>3. g[Upto(n)] = c[a + n] - c[a]
    BY <1>4
  <2>4. c[r] \in Int /\ c[a + n] \in Int /\ c[a] \in Int
    OBVIOUS
  <2> HIDE DEF r, Upto
  <2>5. g[Upto(n + 1)] = f[r] + g[Upto(n)]
    BY <1>2, <2>1, <2>7, <2>8
  <2>6. g[Upto(n + 1)] = c[r] - c[a]
    BY <2>2, <2>3, <2>4, <2>5
  <2> QED
    BY <2>6 DEF r
<1>5. Nat \subseteq K
  <2> HIDE DEF K
  <2> QED
    BY <1>3, <1>4, Induction
<1>6. b - a \in K /\ a + (b - a) = b
  <2>1. b - a \in Nat /\ a + (b - a) = b
    OBVIOUS
  <2> HIDE DEF K
  <2> QED
    BY <1>5, <2>1
<1>7. g[Upto(b - a)] = c[b] - c[a]
  <2>1. a + (b - a) <= b => g[Upto(b - a)] = c[a + (b - a)] - c[a]
    BY <1>6
  <2> HIDE DEF Upto
  <2> QED
    BY <1>6, <2>1
<1>8. Upto(b - a) = DOMAIN f
  BY <1>6
<1> HIDE DEF Upto
<1> QED
  BY <1>2, <1>7, <1>8
===============================================================================
