---------------------------- MODULE WalletProofs ----------------------------
(***************************************************************************)
(* Coins are kept, for any number of accounts, lots, tips and requests at  *)
(* a time.  Sums over lots and rows are folds over sets; what is proved    *)
(* about them rests on the least number of a set of naturals that are      *)
(* counterexamples (LeastOne), since the order of a fold is not known.     *)
(***************************************************************************)
EXTENDS Wallet, FiniteSetTheorems, WellFoundedInduction, TLAPS

-----------------------------------------------------------------------------
\* Induction with a set in the place of the predicate.
LEMMA LeastOne ==
    ASSUME NEW T \in SUBSET Nat, T # {}
    PROVE  \E n \in T : \A m \in T : n <= m
<1> DEFINE R == OpToRel(<, Nat)
<1>1. IsWellFoundedOn(R, Nat)
  BY NatLessThanWellFounded
<1>2. \A m, n \in Nat : <<m, n>> \in R <=> m < n
  BY DEF OpToRel
<1> HIDE DEF R
<1>3. PICK n \in T : \A m \in T : ~ (<<m, n>> \in R)
  BY <1>1, WFMin
<1>4. \A m \in T : ~ (m < n)
  BY <1>2, <1>3, Zenon
<1> HIDE DEF R
<1> QED BY <1>4

LEMMA CountUp ==
    ASSUME NEW Good \in SUBSET Nat, 0 \in Good, \A n \in Good : n + 1 \in Good
    PROVE  Good = Nat
<1> SUFFICES ASSUME Nat \ Good # {}  PROVE FALSE
  OBVIOUS
<1>1. PICK n \in Nat \ Good : \A m \in Nat \ Good : n <= m
  BY LeastOne
<1>2. n # 0 /\ n - 1 \in Nat
  BY <1>1
<1>3. n - 1 \in Good
  BY <1>1, <1>2
<1> QED BY <1>1, <1>2, <1>3

LEMMA GrowSubset ==
    ASSUME NEW U, IsFiniteSet(U), NEW Good \in SUBSET SUBSET U, {} \in Good,
           \A S \in Good : \A x \in U \ S : S \union {x} \in Good
    PROVE  U \in Good
<1> DEFINE Sizes == {n \in Nat : \A S \in SUBSET U : Cardinality(S) = n => S \in Good}
<1>1. \A S \in SUBSET U : IsFiniteSet(S) /\ Cardinality(S) \in Nat
  BY FS_Subset, FS_CardinalityType
<1>2. 0 \in Sizes
  BY <1>1, FS_EmptySet
<1>3. ASSUME NEW n \in Sizes  PROVE n + 1 \in Sizes
  <2> SUFFICES ASSUME NEW S \in SUBSET U, Cardinality(S) = n + 1  PROVE S \in Good
    OBVIOUS
  <2>1. S # {}
    BY <1>1, FS_EmptySet
  <2>2. PICK x \in S : TRUE
    BY <2>1
  <2>3. Cardinality(S \ {x}) = n
    <3>1. IsFiniteSet(S)
      BY <1>1
    <3>2. Cardinality(S \ {x}) = Cardinality(S) - 1
      BY <2>2, <3>1, FS_RemoveElement, Zenon
    <3> QED BY <3>2
  <2>4. S \ {x} \in Good
    BY <2>3
  <2>5. S = (S \ {x}) \union {x} /\ x \in U \ (S \ {x})
    BY <2>2
  <2> QED BY <2>4, <2>5
<1>4. Sizes = Nat
  <2> HIDE DEF Sizes
  <2>1. Sizes \in SUBSET Nat
    BY DEF Sizes
  <2> QED BY <1>2, <1>3, <2>1, CountUp
<1> QED BY <1>1, <1>4
-----------------------------------------------------------------------------
\* What the fold does at a set of indices: it takes one out and goes on.
One(S) == CHOOSE x \in S : TRUE
Body(f, g, s) == IF s = {} THEN 0 ELSE f[One(s)] + g[s \ {One(s)}]
IsIter(g, f, S) == g = [s \in SUBSET S |-> Body(f, g, s)]
Iter(f, S) == CHOOSE g : IsIter(g, f, S)

LEMMA SumIsIter ==
    ASSUME NEW f, NEW S
    PROVE  SumFunctionOnSet(f, S) = Iter(f, S)[S]
BY DEF SumFunctionOnSet, FoldFunctionOnSet, MapThenFoldSet, Iter, IsIter, Body, One

LEMMA OneIn ==
    ASSUME NEW S, S # {}
    PROVE  One(S) \in S
BY DEF One

LEMMA IterExists ==
    ASSUME NEW f, NEW U, IsFiniteSet(U)
    PROVE  IsIter(Iter(f, U), f, U)
<1> DEFINE Upto(n) == {s \in SUBSET U : Cardinality(s) <= n}
           Good == {n \in Nat : \E g : \A s \in Upto(n) : g[s] = Body(f, g, s)}
<1>1. \A s \in SUBSET U : IsFiniteSet(s) /\ Cardinality(s) \in Nat
  BY FS_Subset, FS_CardinalityType
<1>2. 0 \in Good
  <2> DEFINE g == [s \in SUBSET U |-> 0]
  <2>1. \A s \in Upto(0) : s = {}
    <3> SUFFICES ASSUME NEW s \in Upto(0)  PROVE s = {}
      OBVIOUS
    <3>1. Cardinality(s) = 0
      BY <1>1
    <3> QED BY <1>1, <3>1, FS_EmptySet
  <2>2. \A s \in Upto(0) : g[s] = Body(f, g, s)
    BY <2>1 DEF Body
  <2> HIDE DEF g
  <2> QED BY <2>2
<1>3. ASSUME NEW n \in Good  PROVE n + 1 \in Good
  <2>1. PICK g : \A s \in Upto(n) : g[s] = Body(f, g, s)
    OBVIOUS
  <2> DEFINE h == [s \in SUBSET U |-> Body(f, g, s)]
  <2>2. \A s \in Upto(n) : h[s] = g[s]
    BY <2>1
  <2>3. ASSUME NEW s \in Upto(n + 1), s # {}  PROVE s \ {One(s)} \in Upto(n)
    <3>1. One(s) \in s
      BY <2>3, OneIn
    <3>2. Cardinality(s \ {One(s)}) = Cardinality(s) - 1
      BY <1>1, <3>1, FS_RemoveElement
    <3>3. Cardinality(s) \in Nat
      BY <1>1
    <3> QED BY <3>2, <3>3
  <2>4. ASSUME NEW s \in Upto(n + 1)  PROVE h[s] = Body(f, h, s)
    <3>1. h[s] = Body(f, g, s)
      OBVIOUS
    <3>2. CASE s = {}
      BY <3>1, <3>2 DEF Body
    <3>3. CASE s # {}
      <4>1. h[s \ {One(s)}] = g[s \ {One(s)}]
        BY <2>2, <2>3, <3>3
      <4> HIDE DEF h
      <4> QED BY <3>1, <4>1 DEF Body
    <3> QED BY <3>2, <3>3
  <2> HIDE DEF h
  <2> QED BY <2>4
<1>4. Good = Nat
  <2> HIDE DEF Good
  <2>1. Good \in SUBSET Nat
    BY DEF Good
  <2> QED BY <1>2, <1>3, <2>1, CountUp
<1>5. PICK g : \A s \in Upto(Cardinality(U)) : g[s] = Body(f, g, s)
  BY <1>1, <1>4
<1>6. \A s \in SUBSET U : s \in Upto(Cardinality(U))
  BY FS_Subset
<1> DEFINE h == [s \in SUBSET U |-> g[s]]
<1>7. \A s \in SUBSET U : Body(f, h, s) = Body(f, g, s)
  BY DEF Body
<1>8. h = [s \in SUBSET U |-> Body(f, h, s)]
  BY <1>5, <1>6, <1>7
<1> HIDE DEF h
<1>9. IsIter(h, f, U)
  BY <1>8 DEF IsIter
<1> QED BY <1>9 DEF Iter

\* Two folds agree where both are defined.
LEMMA ItersAgree ==
    ASSUME NEW f, NEW S, NEW V, NEW g, NEW h, IsIter(g, f, S), IsIter(h, f, V),
           NEW U, IsFiniteSet(U), U \subseteq S, U \subseteq V
    PROVE  g[U] = h[U]
<1> DEFINE Good == {n \in Nat : \A s \in SUBSET U : Cardinality(s) = n => g[s] = h[s]}
<1>1. \A s \in SUBSET U : IsFiniteSet(s) /\ Cardinality(s) \in Nat
  BY FS_Subset, FS_CardinalityType
<1>2. \A s \in SUBSET U : g[s] = Body(f, g, s) /\ h[s] = Body(f, h, s)
  BY DEF IsIter
<1>3. 0 \in Good
  <2> SUFFICES ASSUME NEW s \in SUBSET U, Cardinality(s) = 0  PROVE g[s] = h[s]
    OBVIOUS
  <2>1. s = {}
    BY <1>1, FS_EmptySet
  <2> QED BY <1>2, <2>1 DEF Body
<1>4. ASSUME NEW n \in Good  PROVE n + 1 \in Good
  <2> SUFFICES ASSUME NEW s \in SUBSET U, Cardinality(s) = n + 1  PROVE g[s] = h[s]
    OBVIOUS
  <2>1. s # {}
    BY <1>1, FS_EmptySet
  <2>2. One(s) \in s
    BY <2>1, OneIn
  <2>3. Cardinality(s \ {One(s)}) = n
    <3>1. Cardinality(s \ {One(s)}) = Cardinality(s) - 1
      BY <1>1, <2>2, FS_RemoveElement, Zenon
    <3> QED BY <3>1
  <2>4. g[s \ {One(s)}] = h[s \ {One(s)}]
    BY <2>3
  <2> QED BY <1>2, <2>1, <2>4 DEF Body
<1>5. Good = Nat
  <2> HIDE DEF Good
  <2>1. Good \in SUBSET Nat
    BY DEF Good
  <2> QED BY <1>3, <1>4, <2>1, CountUp
<1> QED BY <1>1, <1>5
-----------------------------------------------------------------------------
\* SumFunctionOnSet, for functions whose values at the indices are integers.
LEMMA SumEmpty ==
    ASSUME NEW f
    PROVE  SumFunctionOnSet(f, {}) = 0
<1>1. IsIter(Iter(f, {}), f, {})
  BY IterExists, FS_EmptySet
<1>2. Iter(f, {})[{}] = Body(f, Iter(f, {}), {})
  BY <1>1 DEF IsIter
<1> QED BY <1>2, SumIsIter DEF Body

LEMMA SumTakesOne ==
    ASSUME NEW f, NEW S, IsFiniteSet(S), S # {}
    PROVE  SumFunctionOnSet(f, S) = f[One(S)] + SumFunctionOnSet(f, S \ {One(S)})
<1> DEFINE R == S \ {One(S)}
<1>1. IsFiniteSet(R)
  BY FS_Subset
<1>2. IsIter(Iter(f, S), f, S) /\ IsIter(Iter(f, R), f, R)
  BY <1>1, IterExists
<1>3. Iter(f, S)[S] = Body(f, Iter(f, S), S)
  BY <1>2 DEF IsIter
<1>4. Iter(f, S)[R] = Iter(f, R)[R]
  BY <1>1, <1>2, ItersAgree
<1> QED BY <1>3, <1>4, SumIsIter DEF Body

LEMMA SumInt ==
    ASSUME NEW U, IsFiniteSet(U), NEW f, \A x \in U : f[x] \in Int
    PROVE  \A S \in SUBSET U : SumFunctionOnSet(f, S) \in Int
<1> DEFINE Good == {n \in Nat : \A S \in SUBSET U : Cardinality(S) = n =>
                                  SumFunctionOnSet(f, S) \in Int}
<1>1. \A S \in SUBSET U : IsFiniteSet(S) /\ Cardinality(S) \in Nat
  BY FS_Subset, FS_CardinalityType
<1>2. 0 \in Good
  BY <1>1, FS_EmptySet, SumEmpty
<1>3. ASSUME NEW n \in Good  PROVE n + 1 \in Good
  <2> SUFFICES ASSUME NEW S \in SUBSET U, Cardinality(S) = n + 1
               PROVE  SumFunctionOnSet(f, S) \in Int
    OBVIOUS
  <2>1. S # {}
    BY <1>1, FS_EmptySet
  <2>2. One(S) \in S
    BY <2>1, OneIn
  <2>3. Cardinality(S \ {One(S)}) = Cardinality(S) - 1
    BY <1>1, <2>2, FS_RemoveElement, Zenon
  <2>4. SumFunctionOnSet(f, S \ {One(S)}) \in Int
    BY <2>3
  <2>5. SumFunctionOnSet(f, S) = f[One(S)] + SumFunctionOnSet(f, S \ {One(S)})
    BY <1>1, <2>1, SumTakesOne
  <2>6. f[One(S)] \in Int
    BY <2>2
  <2> QED BY <2>4, <2>5, <2>6
<1>4. Good = Nat
  <2> HIDE DEF Good
  <2>1. Good \in SUBSET Nat
    BY DEF Good
  <2> QED BY <1>2, <1>3, <2>1, CountUp
<1> QED BY <1>1, <1>4

\* Whatever is taken out first.
LEMMA SumTakesAny ==
    ASSUME NEW U, IsFiniteSet(U), NEW f, \A x \in U : f[x] \in Int
    PROVE  \A S \in SUBSET U : \A x \in S :
             SumFunctionOnSet(f, S) = f[x] + SumFunctionOnSet(f, S \ {x})
<1> DEFINE Takes(S, x) == SumFunctionOnSet(f, S) = f[x] + SumFunctionOnSet(f, S \ {x})
           Good == {n \in Nat : \A S \in SUBSET U : Cardinality(S) = n => \A x \in S : Takes(S, x)}
<1>1. \A S \in SUBSET U : IsFiniteSet(S) /\ Cardinality(S) \in Nat
  BY FS_Subset, FS_CardinalityType
<1>2. 0 \in Good
  BY <1>1, FS_EmptySet
<1>3. ASSUME NEW n \in Good  PROVE n + 1 \in Good
  <2> SUFFICES ASSUME NEW S \in SUBSET U, Cardinality(S) = n + 1, NEW x \in S  PROVE Takes(S, x)
    OBVIOUS
  <2> DEFINE c == One(S)
  <2>1. c \in S
    BY OneIn
  <2>2. Takes(S, c)
    BY <1>1, SumTakesOne
  <2>3. CASE x # c
    <3>1. Cardinality(S \ {c}) = Cardinality(S) - 1 /\ Cardinality(S \ {x}) = Cardinality(S) - 1
      BY <1>1, <2>1, FS_RemoveElement, Zenon
    <3>2. Cardinality(S \ {c}) = n /\ Cardinality(S \ {x}) = n
      BY <3>1
    <3>3. x \in S \ {c} /\ c \in S \ {x}
      BY <2>1, <2>3
    <3> HIDE DEF c
    <3>4. Takes(S \ {c}, x) /\ Takes(S \ {x}, c)
      BY <3>2, <3>3
    <3>5. (S \ {c}) \ {x} = (S \ {x}) \ {c}
      OBVIOUS
    <3>6. /\ SumFunctionOnSet(f, S \ {c}) \in Int /\ SumFunctionOnSet(f, S \ {x}) \in Int
          /\ SumFunctionOnSet(f, (S \ {x}) \ {c}) \in Int
      BY SumInt
    <3>7. f[c] \in Int /\ f[x] \in Int
      BY <2>1
    <3>8. /\ SumFunctionOnSet(f, S) = f[c] + SumFunctionOnSet(f, S \ {c})
          /\ SumFunctionOnSet(f, S \ {c}) = f[x] + SumFunctionOnSet(f, (S \ {x}) \ {c})
          /\ SumFunctionOnSet(f, S \ {x}) = f[c] + SumFunctionOnSet(f, (S \ {x}) \ {c})
      BY <2>2, <3>4, <3>5, Zenon
    <3>9. SumFunctionOnSet(f, S) = f[x] + SumFunctionOnSet(f, S \ {x})
      BY <3>6, <3>7, <3>8
    <3> QED BY <3>9
  <2> QED BY <2>2, <2>3
<1>4. Good = Nat
  <2> HIDE DEF Good
  <2>1. Good \in SUBSET Nat
    BY DEF Good
  <2> QED BY <1>2, <1>3, <2>1, CountUp
<1> QED BY <1>1, <1>4

LEMMA SumAdds ==
    ASSUME NEW S, IsFiniteSet(S), NEW x, x \notin S, NEW f, \A y \in S \union {x} : f[y] \in Int
    PROVE  SumFunctionOnSet(f, S \union {x}) = f[x] + SumFunctionOnSet(f, S)
<1>1. IsFiniteSet(S \union {x})
  BY FS_AddElement
<1>2. SumFunctionOnSet(f, S \union {x}) = f[x] + SumFunctionOnSet(f, (S \union {x}) \ {x})
  BY <1>1, SumTakesAny
<1>3. (S \union {x}) \ {x} = S
  OBVIOUS
<1> QED BY <1>2, <1>3

LEMMA SumSame ==
    ASSUME NEW U, IsFiniteSet(U), NEW f, NEW g, \A x \in U : f[x] = g[x] /\ f[x] \in Int
    PROVE  SumFunctionOnSet(f, U) = SumFunctionOnSet(g, U)
<1> DEFINE Good == {S \in SUBSET U : SumFunctionOnSet(f, S) = SumFunctionOnSet(g, S)}
<1>1. {} \in Good
  BY SumEmpty
<1>2. ASSUME NEW S \in Good, NEW x \in U \ S  PROVE S \union {x} \in Good
  <2>1. IsFiniteSet(S)
    BY FS_Subset
  <2>2. /\ SumFunctionOnSet(f, S \union {x}) = f[x] + SumFunctionOnSet(f, S)
        /\ SumFunctionOnSet(g, S \union {x}) = g[x] + SumFunctionOnSet(g, S)
    BY <2>1, SumAdds
  <2> QED BY <2>2
<1>3. U \in Good
  <2> HIDE DEF Good
  <2>1. Good \in SUBSET SUBSET U
    BY DEF Good
  <2> QED BY <1>1, <1>2, <2>1, GrowSubset
<1> QED BY <1>3

LEMMA SumNat ==
    ASSUME NEW U, IsFiniteSet(U), NEW f, \A x \in U : f[x] \in Nat
    PROVE  SumFunctionOnSet(f, U) \in Nat
<1> DEFINE Good == {S \in SUBSET U : SumFunctionOnSet(f, S) \in Nat}
<1>1. {} \in Good
  BY SumEmpty
<1>2. ASSUME NEW S \in Good, NEW x \in U \ S  PROVE S \union {x} \in Good
  <2>1. IsFiniteSet(S)
    BY FS_Subset
  <2>2. x \notin S /\ \A y \in S \union {x} : f[y] \in Int
    OBVIOUS
  <2>3. SumFunctionOnSet(f, S \union {x}) = f[x] + SumFunctionOnSet(f, S)
    BY <2>1, <2>2, SumAdds
  <2> QED BY <2>3
<1>3. U \in Good
  <2> HIDE DEF Good
  <2>1. Good \in SUBSET SUBSET U
    BY DEF Good
  <2> QED BY <1>1, <1>2, <2>1, GrowSubset
<1> QED BY <1>3

LEMMA SumZero ==
    ASSUME NEW U, IsFiniteSet(U), NEW f, \A x \in U : f[x] = 0
    PROVE  SumFunctionOnSet(f, U) = 0
<1> DEFINE Good == {S \in SUBSET U : SumFunctionOnSet(f, S) = 0}
<1>1. {} \in Good
  BY SumEmpty
<1>2. ASSUME NEW S \in Good, NEW x \in U \ S  PROVE S \union {x} \in Good
  <2>1. IsFiniteSet(S)
    BY FS_Subset
  <2>2. x \notin S /\ \A y \in S \union {x} : f[y] \in Int
    OBVIOUS
  <2>3. SumFunctionOnSet(f, S \union {x}) = f[x] + SumFunctionOnSet(f, S)
    BY <2>1, <2>2, SumAdds
  <2> QED BY <2>3
<1>3. U \in Good
  <2> HIDE DEF Good
  <2>1. Good \in SUBSET SUBSET U
    BY DEF Good
  <2> QED BY <1>1, <1>2, <2>1, GrowSubset
<1> QED BY <1>3
\* A sum over one index more.
LEMMA SumGrows ==
    ASSUME NEW S, IsFiniteSet(S), NEW z, z \notin S,
           NEW f, DOMAIN f = S \union {z}, NEW g, DOMAIN g = S,
           f[z] \in Int, \A x \in S : g[x] = f[x] /\ g[x] \in Int
    PROVE  SumFunction(f) = f[z] + SumFunction(g)
<1>1. \A y \in S \union {z} : f[y] \in Int
  OBVIOUS
<1>2. SumFunctionOnSet(f, S \union {z}) = f[z] + SumFunctionOnSet(f, S)
  BY <1>1, SumAdds
<1>3. SumFunctionOnSet(g, S) = SumFunctionOnSet(f, S)
  BY SumSame
<1> QED BY <1>2, <1>3 DEF SumFunction
-----------------------------------------------------------------------------
\* spendInTx takes what is asked for, from the lots that expire first.
LEMMA MinOfTwo ==
    ASSUME NEW a \in Int, NEW b \in Int
    PROVE  Min({a, b}) = IF a <= b THEN a ELSE b
<1> DEFINE m == IF a <= b THEN a ELSE b
<1>1. m \in {a, b} /\ \A y \in {a, b} : m <= y
  OBVIOUS
<1>2. \A x \in {a, b} : (\A y \in {a, b} : x <= y) => x = m
  OBVIOUS
<1> HIDE DEF m
<1>3. Min({a, b}) = m
  BY <1>1, <1>2 DEF Min
<1> QED BY <1>3 DEF m

LEMMA MaxOfTwo ==
    ASSUME NEW a \in Int, NEW b \in Int
    PROVE  Max({a, b}) = IF a >= b THEN a ELSE b
<1> DEFINE m == IF a >= b THEN a ELSE b
<1>1. m \in {a, b} /\ \A y \in {a, b} : m >= y
  OBVIOUS
<1>2. \A x \in {a, b} : (\A y \in {a, b} : x >= y) => x = m
  OBVIOUS
<1> HIDE DEF m
<1>3. Max({a, b}) = m
  BY <1>1, <1>2 DEF Max
<1> QED BY <1>3 DEF m

Sources == DOMAIN TTL \union {"recharge"}
Lots == [acct : Holders, source : Sources, remaining : Nat, expire : Nat]
LotsOK == lots \in Seq(Lots)

LEMMA LotsTyped ==
    ASSUME LotsOK
    PROVE  /\ DOMAIN lots = 1..Len(lots) /\ Len(lots) \in Nat /\ IsFiniteSet(DOMAIN lots)
           /\ \A l \in DOMAIN lots : /\ l \in Nat /\ lots[l] \in Lots
                                     /\ lots[l].remaining \in Nat /\ lots[l].expire \in Nat
<1>1. DOMAIN lots = 1..Len(lots) /\ Len(lots) \in Nat
  BY DEF LotsOK
<1>2. \A l \in DOMAIN lots : l \in Nat /\ lots[l] \in Lots
  BY DEF LotsOK
<1>3. IsFiniteSet(DOMAIN lots)
  BY <1>1, FS_Interval
<1> QED BY <1>1, <1>2, <1>3 DEF Lots

\* One of any lots is the last to be spent.
Last(S, z) == z \in S /\ \A l \in S \ {z} : Earlier(l, z)

LEMMA LastExists ==
    ASSUME LotsOK, NEW U \in SUBSET DOMAIN lots, U # {}
    PROVE  \E z \in U : Last(U, z)
<1> DEFINE Good == {S \in SUBSET U : S # {} => \E z \in S : Last(S, z)}
<1>1. IsFiniteSet(U)
  BY LotsTyped, FS_Subset
<1>2. ASSUME NEW S \in Good, NEW x \in U \ S  PROVE S \union {x} \in Good
  <2>1. CASE S = {}
    BY <2>1 DEF Last
  <2>2. CASE S # {}
    <3>1. PICK z \in S : Last(S, z)
      BY <2>2
    <3>2. \A l \in U : l \in Nat /\ lots[l].expire \in Nat
      BY LotsTyped
    <3>3. z \in U /\ x \in U /\ x # z
      BY <3>1
    <3>4. Earlier(x, z) \/ Earlier(z, x)
      BY <3>2, <3>3, SMT DEF Earlier
    <3>5. ASSUME Earlier(z, x), NEW l \in S  PROVE Earlier(l, x)
      <4>1. l = z \/ Earlier(l, z)
        BY <3>1 DEF Last
      <4> QED BY <3>2, <3>3, <3>5, <4>1, SMT DEF Earlier
    <3>6. Last(S \union {x}, z) \/ Last(S \union {x}, x)
      BY <3>1, <3>4, <3>5 DEF Last
    <3>7. z \in S \union {x} /\ x \in S \union {x} /\ S \union {x} \in SUBSET U
      BY <3>1
    <3> QED BY <3>6, <3>7
  <2> QED BY <2>1, <2>2
<1>3. U \in Good
  <2>1. {} \in Good
    OBVIOUS
  <2> HIDE DEF Good
  <2>2. Good \in SUBSET SUBSET U
    BY DEF Good
  <2> QED BY <1>1, <1>2, <2>1, <2>2, GrowSubset
<1> QED BY <1>3

LEMMA TotalNat ==
    ASSUME LotsOK, NEW S \in SUBSET DOMAIN lots
    PROVE  Total(S) \in Nat
<1> DEFINE f == [l \in S |-> lots[l].remaining]
<1>1. IsFiniteSet(S)
  BY LotsTyped, FS_Subset
<1>2. \A l \in S : f[l] \in Nat
  BY LotsTyped
<1>3. DOMAIN f = S /\ Total(S) = SumFunction(f)
  BY DEF Total
<1> HIDE DEF f
<1> QED BY <1>1, <1>2, <1>3, SumNat DEF SumFunction

LEMMA TotalGrows ==
    ASSUME LotsOK, NEW S \in SUBSET DOMAIN lots, NEW z \in S
    PROVE  Total(S) = lots[z].remaining + Total(S \ {z})
<1> DEFINE R == S \ {z}
           f == [l \in S |-> lots[l].remaining]
           g == [l \in R |-> lots[l].remaining]
<1>1. IsFiniteSet(R) /\ S = R \union {z} /\ z \notin R
  BY LotsTyped, FS_Subset
<1>2. /\ DOMAIN f = S /\ DOMAIN g = R
      /\ f[z] = lots[z].remaining /\ f[z] \in Int
      /\ \A l \in R : g[l] = f[l] /\ g[l] \in Int
  BY LotsTyped
<1>3. Total(S) = SumFunction(f) /\ Total(R) = SumFunction(g)
  BY DEF Total
<1> HIDE DEF f, g, R
<1>4. IsFiniteSet(R) /\ z \notin R /\ DOMAIN f = R \union {z} /\ DOMAIN g = R
  BY <1>1, <1>2
<1>5. f[z] \in Int /\ \A x \in R : g[x] = f[x] /\ g[x] \in Int
  BY <1>2
<1>6. SumFunction(f) = f[z] + SumFunction(g)
  BY <1>4, <1>5, SumGrows, SMT
<1> QED BY <1>2, <1>3, <1>6 DEF R

\* What is taken of one lot, in numbers.
Part(rem, c, before) == IF c <= before THEN 0 ELSE IF rem <= c - before THEN rem ELSE c - before

LEMMA TakeIsPart ==
    ASSUME LotsOK, NEW S \in SUBSET DOMAIN lots, NEW l \in S, NEW c \in Nat
    PROVE  /\ Take(l, S, c) = Part(lots[l].remaining, c, Total({m \in S : Earlier(m, l)}))
           /\ Take(l, S, c) \in 0..lots[l].remaining
<1> DEFINE before == Total({m \in S : Earlier(m, l)})
<1>1. before \in Nat /\ lots[l].remaining \in Nat
  BY TotalNat, LotsTyped
<1>2. Take(l, S, c) = Min({lots[l].remaining, Max({0, c - before})})
  BY DEF Take
<1> HIDE DEF before
<1>3. Max({0, c - before}) = IF 0 >= c - before THEN 0 ELSE c - before
  BY <1>1, MaxOfTwo
<1>4. Max({0, c - before}) \in Int /\ lots[l].remaining \in Int
  BY <1>1, <1>3
<1>5. Take(l, S, c) = IF lots[l].remaining <= Max({0, c - before}) THEN lots[l].remaining
                        ELSE Max({0, c - before})
  BY <1>1, <1>2, <1>4, MinOfTwo
<1>6. Take(l, S, c) = Part(lots[l].remaining, c, before)
  BY <1>1, <1>3, <1>5 DEF Part
<1>7. Take(l, S, c) \in 0..lots[l].remaining
  BY <1>1, <1>6 DEF Part
<1> QED BY <1>6, <1>7 DEF before

\* The lots without their last: what is taken of the others stays the same.
LEMMA TakesWithoutLast ==
    ASSUME LotsOK, NEW S \in SUBSET DOMAIN lots, NEW z, Last(S, z), NEW c \in Nat
    PROVE  /\ \A l \in S \ {z} : Take(l, S, c) = Take(l, S \ {z}, c)
           /\ {m \in S : Earlier(m, z)} = S \ {z}
<1>1. \A l \in DOMAIN lots : l \in Nat /\ lots[l].expire \in Nat
  BY LotsTyped
<1>2. z \in S /\ \A l \in S \ {z} : Earlier(l, z)
  BY DEF Last
<1>3. ~ Earlier(z, z) /\ \A l \in S \ {z} : ~ Earlier(z, l)
  BY <1>1, <1>2, SMT DEF Earlier
<1>4. \A l \in S \ {z} : {m \in S : Earlier(m, l)} = {m \in S \ {z} : Earlier(m, l)}
  BY <1>3
<1>5. \A l \in S \ {z} : Take(l, S, c) = Take(l, S \ {z}, c)
  BY <1>4 DEF Take
<1>6. {m \in S : Earlier(m, z)} = S \ {z}
  BY <1>2, <1>3
<1> QED BY <1>5, <1>6

Taken(S, c) == SumFunction([l \in S |-> Take(l, S, c)])

LEMMA TakenGrows ==
    ASSUME LotsOK, NEW S \in SUBSET DOMAIN lots, NEW z, Last(S, z), NEW c \in Nat
    PROVE  Taken(S, c) = Take(z, S, c) + Taken(S \ {z}, c)
<1> DEFINE R == S \ {z}
           f == [l \in S |-> Take(l, S, c)]
           g == [l \in R |-> Take(l, R, c)]
<1>1. IsFiniteSet(R) /\ S = R \union {z} /\ z \notin R /\ z \in S
  BY LotsTyped, FS_Subset DEF Last
<1>2. ASSUME NEW l \in S  PROVE Take(l, S, c) \in Int
  <2>1. Take(l, S, c) \in 0..lots[l].remaining
    BY TakeIsPart
  <2>2. lots[l].remaining \in Nat
    BY LotsTyped
  <2> QED BY <2>1, <2>2
<1>3. \A l \in R : Take(l, S, c) = Take(l, R, c)
  BY TakesWithoutLast
<1>4. Taken(S, c) = SumFunction(f) /\ Taken(R, c) = SumFunction(g)
  BY DEF Taken
<1>5. DOMAIN f = S /\ DOMAIN g = R
  OBVIOUS
<1>6. f[z] = Take(z, S, c) /\ f[z] \in Int /\ \A l \in R : g[l] = f[l] /\ g[l] \in Int
  BY <1>1, <1>2, <1>3
<1> HIDE DEF f, g, R
<1>7. DOMAIN f = R \union {z}
  BY <1>1, <1>5
<1>8. f[z] \in Int /\ \A x \in R : g[x] = f[x] /\ g[x] \in Int
  BY <1>6
<1>9. SumFunction(f) = f[z] + SumFunction(g)
  BY <1>1, <1>5, <1>7, <1>8, SumGrows, SMT
<1> QED BY <1>4, <1>6, <1>9 DEF R

\* spendInTx takes what is asked for as long as there is enough, and
\* everything when there is not.
THEOREM GreedyTakes ==
    ASSUME LotsOK, NEW U \in SUBSET DOMAIN lots, NEW c \in Nat
    PROVE  Taken(U, c) = IF c <= Total(U) THEN c ELSE Total(U)
<1> DEFINE Takes(S) == Taken(S, c) = IF c <= Total(S) THEN c ELSE Total(S)
           Good == {n \in Nat : \A S \in SUBSET U : Cardinality(S) = n => Takes(S)}
<1>1. \A S \in SUBSET U : IsFiniteSet(S) /\ Cardinality(S) \in Nat
  BY LotsTyped, FS_Subset, FS_CardinalityType
<1>2. 0 \in Good
  <2> SUFFICES ASSUME NEW S \in SUBSET U, Cardinality(S) = 0  PROVE Takes(S)
    OBVIOUS
  <2>1. S = {}
    BY <1>1, FS_EmptySet
  <2>2. Taken({}, c) = 0 /\ Total({}) = 0
    <3> DEFINE f == [l \in {} |-> Take(l, {}, c)]
               g == [l \in {} |-> lots[l].remaining]
    <3>1. DOMAIN f = {} /\ DOMAIN g = {} /\ Taken({}, c) = SumFunction(f) /\ Total({}) = SumFunction(g)
      BY DEF Taken, Total
    <3> HIDE DEF f, g
    <3> QED BY <3>1, SumEmpty DEF SumFunction
  <2> QED BY <2>1, <2>2
<1>3. ASSUME NEW n \in Good  PROVE n + 1 \in Good
  <2> SUFFICES ASSUME NEW S \in SUBSET U, Cardinality(S) = n + 1  PROVE Takes(S)
    OBVIOUS
  <2>1. S # {} /\ S \in SUBSET DOMAIN lots
    BY <1>1, FS_EmptySet
  <2>2. PICK z \in S : Last(S, z)
    BY <2>1, LastExists
  <2>3. Cardinality(S \ {z}) = n
    <3>1. Cardinality(S \ {z}) = Cardinality(S) - 1
      BY <1>1, <2>2, FS_RemoveElement, Zenon
    <3> QED BY <3>1
  <2>4. Takes(S \ {z})
    BY <2>3
  <2>5. Taken(S, c) = Take(z, S, c) + Taken(S \ {z}, c)
    BY <2>1, <2>2, TakenGrows
  <2>6. Take(z, S, c) = Part(lots[z].remaining, c, Total(S \ {z}))
    <3>1. Take(z, S, c) = Part(lots[z].remaining, c, Total({m \in S : Earlier(m, z)}))
      BY <2>1, TakeIsPart
    <3>2. {m \in S : Earlier(m, z)} = S \ {z}
      BY <2>1, <2>2, TakesWithoutLast
    <3> QED BY <3>1, <3>2
  <2>7. Total(S) = lots[z].remaining + Total(S \ {z})
    BY <2>1, <2>2, TotalGrows
  <2>8. Total(S \ {z}) \in Nat /\ lots[z].remaining \in Nat
    <3>1. Total(S \ {z}) \in Nat
      BY <2>1, TotalNat
    <3> QED BY <3>1, <2>1, LotsTyped
  <2> HIDE DEF Good
  <2> QED BY <2>4, <2>5, <2>6, <2>7, <2>8 DEF Part
<1>4. Good = Nat
  <2> HIDE DEF Good
  <2>1. Good \in SUBSET Nat
    BY DEF Good
  <2> QED BY <1>2, <1>3, <2>1, CountUp
<1>5. Cardinality(U) \in Good
  BY <1>1, <1>4
<1> QED BY <1>5
LEMMA TotalGrowsWithLots ==
    ASSUME LotsOK, NEW B \in SUBSET DOMAIN lots, NEW A \in SUBSET B
    PROVE  Total(A) <= Total(B)
<1> DEFINE Good == {T \in SUBSET (B \ A) : Total(A) <= Total(A \union T)}
<1>1. IsFiniteSet(B \ A)
  <2>1. IsFiniteSet(DOMAIN lots) /\ B \ A \subseteq DOMAIN lots
    BY LotsTyped
  <2> QED BY <2>1, FS_Subset
<1>2. {} \in Good
  <2>1. Total(A) \in Nat /\ A \union {} = A
    BY TotalNat
  <2> QED BY <2>1
<1>3. ASSUME NEW T \in Good, NEW x \in (B \ A) \ T  PROVE T \union {x} \in Good
  <2> DEFINE S == A \union T
             S2 == A \union (T \union {x})
  <2>1. S2 \in SUBSET DOMAIN lots /\ S \in SUBSET DOMAIN lots /\ x \in S2 /\ S2 \ {x} = S
    OBVIOUS
  <2>2. Total(S) \in Nat /\ Total(A) \in Nat /\ Total(A) <= Total(S)
    BY <2>1, TotalNat
  <2>3. lots[x].remaining \in Nat
    BY LotsTyped
  <2>4. Total(S2) = lots[x].remaining + Total(S)
    <3> HIDE DEF S, S2
    <3> QED BY <2>1, TotalGrows
  <2>5. Total(A) <= Total(S2)
    <3> HIDE DEF S, S2
    <3> QED BY <2>2, <2>3, <2>4
  <2> QED BY <2>5
<1>4. B \ A \in Good
  <2> HIDE DEF Good
  <2>1. Good \in SUBSET SUBSET (B \ A)
    BY DEF Good
  <2> QED BY <1>1, <1>2, <1>3, <2>1, GrowSubset
<1>5. A \union (B \ A) = B
  OBVIOUS
<1> QED BY <1>4, <1>5

\* Nothing is taken from a lot before the lots that expire sooner are empty
\* (availableLots orders by expire_at, spendInTx stops when it has enough).
THEOREM SoonestFirst ==
    ASSUME LotsOK, NEW S \in SUBSET DOMAIN lots, NEW c \in Nat,
           NEW l \in S, NEW m \in S, Earlier(m, l), Take(l, S, c) > 0
    PROVE  Take(m, S, c) = lots[m].remaining
<1> DEFINE Before(k) == {j \in S : Earlier(j, k)}
           A == Before(m) \union {m}
<1>1. \A k \in DOMAIN lots : k \in Nat /\ lots[k].remaining \in Nat /\ lots[k].expire \in Nat
  BY LotsTyped
<1>2. m \notin Before(m) /\ A \in SUBSET Before(l)
  BY <1>1, SMT DEF Earlier
<1>3. Before(m) \in SUBSET DOMAIN lots /\ Before(l) \in SUBSET DOMAIN lots
  OBVIOUS
<1>4. /\ Take(l, S, c) = Part(lots[l].remaining, c, Total(Before(l)))
      /\ Take(m, S, c) = Part(lots[m].remaining, c, Total(Before(m)))
  BY TakeIsPart
<1> HIDE DEF Before
<1>5. Total(A) = lots[m].remaining + Total(Before(m))
  <2>1. A \in SUBSET DOMAIN lots /\ m \in A /\ A \ {m} = Before(m)
    BY <1>2, <1>3
  <2> HIDE DEF A
  <2> QED BY <2>1, TotalGrows
<1>6. Total(A) <= Total(Before(l))
  BY <1>2, <1>3, TotalGrowsWithLots
<1>7. Total(Before(m)) \in Nat /\ Total(Before(l)) \in Nat /\ lots[l].remaining \in Nat /\ lots[m].remaining \in Nat
  BY <1>1, <1>3, TotalNat
<1>8. ~ (c <= Total(Before(l)))
  BY <1>4, <1>7 DEF Part
<1> HIDE DEF A
<1> QED BY <1>4, <1>5, <1>6, <1>7, <1>8 DEF Part
-----------------------------------------------------------------------------
\* Sums over the rows of a lot, and over the lots.
LEMMA SumAppends ==
    ASSUME NEW n \in Nat, NEW f, DOMAIN f = 1..(n + 1), NEW g, DOMAIN g = 1..n,
           \A x \in 1..(n + 1) : f[x] \in Int, \A x \in 1..n : g[x] = f[x]
    PROVE  SumFunction(f) = f[n + 1] + SumFunction(g)
<1> DEFINE z == n + 1
           S == 1..n
<1>1. IsFiniteSet(S)
  BY FS_Interval
<1>2. z \notin S /\ DOMAIN f = S \union {z}
  OBVIOUS
<1>3. f[z] \in Int /\ \A x \in S : g[x] = f[x] /\ g[x] \in Int
  OBVIOUS
<1>4. DOMAIN g = S
  OBVIOUS
<1> HIDE DEF z, S
<1>5. \A x \in S \union {z} : f[x] \in Int
  BY <1>2
<1>6. SumFunctionOnSet(f, S \union {z}) = f[z] + SumFunctionOnSet(f, S)
  BY <1>1, <1>2, <1>5, SumAdds, Zenon
<1>7. \A x \in S : f[x] = g[x] /\ f[x] \in Int
  BY <1>3
<1>8. SumFunctionOnSet(f, S) = SumFunctionOnSet(g, S)
  BY <1>1, <1>7, SumSame, Zenon
<1>9. SumFunction(f) = SumFunctionOnSet(f, S \union {z}) /\ SumFunction(g) = SumFunctionOnSet(g, S)
  BY <1>2, <1>4 DEF SumFunction
<1>10. SumFunction(f) = f[z] + SumFunction(g)
  BY <1>6, <1>8, <1>9
<1> QED BY <1>10 DEF z

LEMMA SumOneRow ==
    ASSUME NEW z, NEW f, DOMAIN f = {z}, f[z] \in Int
    PROVE  SumFunction(f) = f[z]
<1>1. SumFunctionOnSet(f, {} \union {z}) = f[z] + SumFunctionOnSet(f, {})
  BY SumAdds, FS_EmptySet
<1> QED BY <1>1, SumEmpty DEF SumFunction

\* A sum over a part, when the others count for nothing.
LEMMA SumPart ==
    ASSUME NEW U, IsFiniteSet(U), NEW S \in SUBSET U, NEW f, NEW g,
           DOMAIN f = U, DOMAIN g = S,
           \A x \in S : g[x] = f[x] /\ f[x] \in Int, \A x \in U \ S : f[x] = 0
    PROVE  SumFunction(f) = SumFunction(g)
<1> DEFINE Good == {T \in SUBSET U : SumFunctionOnSet(f, T) = SumFunctionOnSet(f, T \intersect S)}
<1>1. {} \in Good
  <2>1. {} \intersect S = {}
    OBVIOUS
  <2> QED BY <2>1
<1>2. ASSUME NEW T \in Good, NEW x \in U \ T  PROVE T \union {x} \in Good
  <2>1. IsFiniteSet(T) /\ IsFiniteSet(T \intersect S)
    BY FS_Subset
  <2>2. \A y \in U : f[y] \in Int
    OBVIOUS
  <2>3. SumFunctionOnSet(f, T \union {x}) = f[x] + SumFunctionOnSet(f, T)
    BY <2>1, <2>2, SumAdds
  <2>4. CASE x \in S
    <3>1. (T \union {x}) \intersect S = (T \intersect S) \union {x}
      BY <2>4
    <3>2. SumFunctionOnSet(f, (T \intersect S) \union {x}) = f[x] + SumFunctionOnSet(f, T \intersect S)
      BY <2>1, <2>2, SumAdds
    <3>3. SumFunctionOnSet(f, T) = SumFunctionOnSet(f, T \intersect S)
      OBVIOUS
    <3> QED BY <2>3, <3>1, <3>2, <3>3
  <2>5. CASE x \notin S
    <3>1. (T \union {x}) \intersect S = T \intersect S
      BY <2>5
    <3>2. SumFunctionOnSet(f, T) \in Int
      BY <2>2, SumInt
    <3>3. f[x] = 0
      BY <2>5
    <3>4. SumFunctionOnSet(f, T) = SumFunctionOnSet(f, T \intersect S)
      OBVIOUS
    <3>5. SumFunctionOnSet(f, T \union {x}) = SumFunctionOnSet(f, T)
      BY <2>3, <3>2, <3>3
    <3>6. SumFunctionOnSet(f, T \union {x}) = SumFunctionOnSet(f, (T \union {x}) \intersect S)
      BY <3>1, <3>4, <3>5
    <3> QED BY <3>6
  <2> QED BY <2>4, <2>5
<1>3. U \in Good
  <2> HIDE DEF Good
  <2>1. Good \in SUBSET SUBSET U
    BY DEF Good
  <2> QED BY <1>1, <1>2, <2>1, GrowSubset
<1>4. U \intersect S = S /\ IsFiniteSet(S)
  BY FS_Subset
<1>5. SumFunctionOnSet(f, S) = SumFunctionOnSet(g, S)
  BY <1>4, SumSame
<1> QED BY <1>3, <1>4, <1>5 DEF SumFunction

Rows == [biz : {"grant", "tip", "expire"}, amount : Int, ref : Nat]

SpentIn(row, t) == IF IsOf(row, "tip", t) THEN -row.amount ELSE 0
ReceivedIn(row, t) == IF IsOf(row, "grant", t) THEN row.amount ELSE 0

LEMMA RowsTyped ==
    ASSUME NEW rows \in Seq(Rows), NEW t
    PROVE  /\ Len(rows) \in Nat /\ DOMAIN rows = 1..Len(rows) /\ IsFiniteSet(DOMAIN rows)
           /\ \A i \in DOMAIN rows : /\ rows[i] \in Rows /\ rows[i].amount \in Int
                                     /\ SpentIn(rows[i], t) \in Int /\ ReceivedIn(rows[i], t) \in Int
<1>1. Len(rows) \in Nat /\ DOMAIN rows = 1..Len(rows) /\ \A i \in DOMAIN rows : rows[i] \in Rows
  OBVIOUS
<1>2. IsFiniteSet(DOMAIN rows)
  BY <1>1, FS_Interval
<1>3. \A row \in Rows : row.amount \in Int
  BY DEF Rows
<1>4. \A row \in Rows : SpentIn(row, t) \in Int /\ ReceivedIn(row, t) \in Int
  BY <1>3 DEF SpentIn, ReceivedIn
<1> QED BY <1>1, <1>2, <1>3, <1>4

LEMMA SumsAppend ==
    ASSUME NEW rows \in Seq(Rows), NEW row \in Rows, NEW t
    PROVE  /\ Append(rows, row) \in Seq(Rows)
           /\ Net(Append(rows, row)) = row.amount + Net(rows)
           /\ Spent(Append(rows, row), t) = SpentIn(row, t) + Spent(rows, t)
           /\ Received(Append(rows, row), t) = ReceivedIn(row, t) + Received(rows, t)
<1> DEFINE n == Len(rows)
           more == Append(rows, row)
<1>1. more \in Seq(Rows) /\ Len(more) = n + 1 /\ n \in Nat
  OBVIOUS
<1>2. DOMAIN more = 1..(n + 1) /\ DOMAIN rows = 1..n /\ more[n + 1] = row /\ \A i \in 1..n : more[i] = rows[i]
  OBVIOUS
<1> HIDE DEF more, n
<1>3. \A i \in 1..(n + 1) : /\ more[i].amount \in Int
                            /\ SpentIn(more[i], t) \in Int /\ ReceivedIn(more[i], t) \in Int
  BY <1>1, <1>2, RowsTyped
<1>4. Net(more) = row.amount + Net(rows)
  <2> DEFINE f == [i \in DOMAIN more |-> more[i].amount]
             g == [i \in DOMAIN rows |-> rows[i].amount]
  <2>1. DOMAIN f = 1..(n + 1) /\ DOMAIN g = 1..n /\ f[n + 1] = row.amount
    BY <1>1, <1>2
  <2>2. (\A i \in 1..(n + 1) : f[i] \in Int) /\ \A i \in 1..n : g[i] = f[i]
    BY <1>1, <1>2, <1>3
  <2>3. Net(more) = SumFunction(f) /\ Net(rows) = SumFunction(g)
    BY DEF Net
  <2> HIDE DEF f, g
  <2> QED BY <1>1, <2>1, <2>2, <2>3, SumAppends, SMTT(30)
<1>5. Spent(more, t) = SpentIn(row, t) + Spent(rows, t)
  <2> DEFINE f == [i \in DOMAIN more |-> SpentIn(more[i], t)]
             g == [i \in DOMAIN rows |-> SpentIn(rows[i], t)]
  <2>1. DOMAIN f = 1..(n + 1) /\ DOMAIN g = 1..n /\ f[n + 1] = SpentIn(row, t)
    BY <1>1, <1>2
  <2>2. (\A i \in 1..(n + 1) : f[i] \in Int) /\ \A i \in 1..n : g[i] = f[i]
    BY <1>1, <1>2, <1>3
  <2>3. Spent(more, t) = SumFunction(f) /\ Spent(rows, t) = SumFunction(g)
    BY DEF Spent, SpentIn
  <2> HIDE DEF f, g
  <2> QED BY <1>1, <2>1, <2>2, <2>3, SumAppends
<1>6. Received(more, t) = ReceivedIn(row, t) + Received(rows, t)
  <2> DEFINE f == [i \in DOMAIN more |-> ReceivedIn(more[i], t)]
             g == [i \in DOMAIN rows |-> ReceivedIn(rows[i], t)]
  <2>1. DOMAIN f = 1..(n + 1) /\ DOMAIN g = 1..n /\ f[n + 1] = ReceivedIn(row, t)
    BY <1>1, <1>2
  <2>2. (\A i \in 1..(n + 1) : f[i] \in Int) /\ \A i \in 1..n : g[i] = f[i]
    BY <1>1, <1>2, <1>3
  <2>3. Received(more, t) = SumFunction(f) /\ Received(rows, t) = SumFunction(g)
    BY DEF Received, ReceivedIn
  <2> HIDE DEF f, g
  <2> QED BY <1>1, <2>1, <2>2, <2>3, SumAppends
<1> QED BY <1>1, <1>4, <1>5, <1>6 DEF more

LEMMA SumsOfOne ==
    ASSUME NEW row \in Rows, NEW t
    PROVE  /\ <<row>> \in Seq(Rows)
           /\ Net(<<row>>) = row.amount
           /\ Spent(<<row>>, t) = SpentIn(row, t)
           /\ Received(<<row>>, t) = ReceivedIn(row, t)
<1> DEFINE one == <<row>>
<1>1. one \in Seq(Rows) /\ DOMAIN one = {1} /\ one[1] = row
  OBVIOUS
<1> HIDE DEF one
<1>2. row.amount \in Int /\ SpentIn(row, t) \in Int /\ ReceivedIn(row, t) \in Int
  BY <1>1, RowsTyped
<1>3. Net(one) = row.amount
  <2> DEFINE f == [i \in DOMAIN one |-> one[i].amount]
  <2>1. DOMAIN f = {1} /\ f[1] = row.amount /\ Net(one) = SumFunction(f)
    BY <1>1 DEF Net
  <2> HIDE DEF f
  <2> QED BY <1>2, <2>1, SumOneRow
<1>4. Spent(one, t) = SpentIn(row, t)
  <2> DEFINE f == [i \in DOMAIN one |-> SpentIn(one[i], t)]
  <2>1. DOMAIN f = {1} /\ f[1] = SpentIn(row, t) /\ Spent(one, t) = SumFunction(f)
    BY <1>1 DEF Spent, SpentIn
  <2> HIDE DEF f
  <2> QED BY <1>2, <2>1, SumOneRow
<1>5. Received(one, t) = ReceivedIn(row, t)
  <2> DEFINE f == [i \in DOMAIN one |-> ReceivedIn(one[i], t)]
  <2>1. DOMAIN f = {1} /\ f[1] = ReceivedIn(row, t) /\ Received(one, t) = SumFunction(f)
    BY <1>1 DEF Received, ReceivedIn
  <2> HIDE DEF f
  <2> QED BY <1>2, <2>1, SumOneRow
<1> QED BY <1>1, <1>3, <1>4, <1>5 DEF one

\* A tip no row names moved nothing in the lot.
LEMMA NoRowsNoCoins ==
    ASSUME NEW rows \in Seq(Rows), NEW t, \A i \in DOMAIN rows : rows[i].ref # t
    PROVE  Spent(rows, t) = 0 /\ Received(rows, t) = 0
<1>1. IsFiniteSet(DOMAIN rows)
  BY RowsTyped
<1> DEFINE f == [i \in DOMAIN rows |-> SpentIn(rows[i], t)]
           g == [i \in DOMAIN rows |-> ReceivedIn(rows[i], t)]
<1>2. \A i \in DOMAIN rows : f[i] = 0 /\ g[i] = 0
  BY DEF SpentIn, ReceivedIn, IsOf
<1>3. DOMAIN f = DOMAIN rows /\ DOMAIN g = DOMAIN rows
  OBVIOUS
<1>4. Spent(rows, t) = SumFunction(f) /\ Received(rows, t) = SumFunction(g)
  BY DEF Spent, Received, SpentIn, ReceivedIn
<1> HIDE DEF f, g
<1>5. SumFunctionOnSet(f, DOMAIN rows) = 0 /\ SumFunctionOnSet(g, DOMAIN rows) = 0
  BY <1>1, <1>2, SumZero
<1> QED BY <1>3, <1>4, <1>5 DEF SumFunction

LEMMA SumsInt ==
    ASSUME NEW rows \in Seq(Rows), NEW t
    PROVE  Net(rows) \in Int /\ Spent(rows, t) \in Int /\ Received(rows, t) \in Int
<1>1. IsFiniteSet(DOMAIN rows)
  BY RowsTyped
<1> DEFINE e == [i \in DOMAIN rows |-> rows[i].amount]
           f == [i \in DOMAIN rows |-> SpentIn(rows[i], t)]
           g == [i \in DOMAIN rows |-> ReceivedIn(rows[i], t)]
<1>2. \A i \in DOMAIN rows : e[i] \in Int /\ f[i] \in Int /\ g[i] \in Int
  BY RowsTyped
<1>3. DOMAIN e = DOMAIN rows /\ DOMAIN f = DOMAIN rows /\ DOMAIN g = DOMAIN rows
  OBVIOUS
<1>4. Net(rows) = SumFunction(e) /\ Spent(rows, t) = SumFunction(f) /\ Received(rows, t) = SumFunction(g)
  BY DEF Net, Spent, Received, SpentIn, ReceivedIn
<1> HIDE DEF e, f, g
<1>5. /\ SumFunctionOnSet(e, DOMAIN rows) \in Int
      /\ SumFunctionOnSet(f, DOMAIN rows) \in Int
      /\ SumFunctionOnSet(g, DOMAIN rows) \in Int
  BY <1>1, <1>2, SumInt
<1> QED BY <1>3, <1>4, <1>5 DEF SumFunction
-----------------------------------------------------------------------------
(***************************************************************************)
(* What every transaction keeps.  A request that holds locks has a plan    *)
(* that fits the lots as they still are, two plans share no lot, two       *)
(* tippers share no account, and a tip's plan takes what the tip offers.   *)
(***************************************************************************)
Writes == [from : Nat, amount : Nat, biz : {"tip", "expire"}]
Plans == UNION {[D -> Writes] : D \in SUBSET Nat}
Reqs == [pc : {"idle", "tip", "summary", "sweep", "tipping", "expiring"},
         acct : Holders \union {Nobody}, video : Holders \union {Nobody},
         coins : Nat, at : Nat, plan : Plans]
TipRows == [from : Holders, video : Holders, coins : Nat, at : Nat]

LedgerOK == ledger \in Seq(Seq(Rows)) /\ Len(ledger) = Len(lots)
TipsOK == tips \in Seq(TipRows) /\ platform \in Seq(Int) /\ Len(platform) = Len(tips)
ReqOK == req \in [Requests -> Reqs]
Typed == LotsOK /\ LedgerOK /\ TipsOK /\ ReqOK /\ now \in Nat /\ paid \subseteq Recharges

Writing(r) == req[r].pc \in {"tipping", "expiring"}
Fits(p) == \A l \in DOMAIN p : /\ l \in DOMAIN lots
                               /\ p[l].from = lots[l].remaining
                               /\ p[l].amount <= p[l].from
Pays(p) == SumFunction([l \in DOMAIN p |-> IF p[l].biz = "tip" THEN p[l].amount ELSE 0])

TipsNamed == \A r \in Requests : req[r].pc \in {"tip", "tipping"} =>
                req[r].acct \in Holders /\ req[r].video \in Holders
PlansFit == \A r \in Requests : Writing(r) => Fits(req[r].plan)
PlansApart == \A q, r \in Requests : q # r /\ Writing(q) /\ Writing(r) =>
                DOMAIN req[q].plan \intersect DOMAIN req[r].plan = {}
TipPlans == \A r \in Requests : req[r].pc = "tipping" =>
                /\ Pays(req[r].plan) = req[r].coins
                /\ \A l \in DOMAIN req[r].plan : lots[l].acct = req[r].acct
ExpirePlans == \A r \in Requests : req[r].pc = "expiring" =>
                \A l \in DOMAIN req[r].plan : req[r].plan[l].biz = "expire"
TippersApart == \A q, r \in Requests :
                q # r /\ req[q].pc = "tipping" /\ req[r].pc = "tipping" => req[q].acct # req[r].acct
NoRecentTip == \A r \in Requests : req[r].pc = "tipping" =>
                \A i \in DOMAIN tips :
                  tips[i].from = req[r].acct /\ tips[i].video = req[r].video
                    => req[r].at - tips[i].at >= TipDebounce
RefsKnown == \A l \in DOMAIN ledger : \A i \in DOMAIN ledger[l] : ledger[l][i].ref <= Len(tips)

Plan == TipsNamed /\ PlansFit /\ PlansApart /\ TipPlans /\ ExpirePlans
Book == RefsKnown /\ LedgerExplains /\ TipBalances
Once == TippersApart /\ NoRecentTip /\ Debounced
WalletInv == Typed /\ Plan /\ Book /\ Once
-----------------------------------------------------------------------------
LEMMA ReqTyped ==
    ASSUME ReqOK, NEW r \in Requests
    PROVE  /\ req[r] \in Reqs
           /\ req[r].acct \in Holders \union {Nobody} /\ req[r].video \in Holders \union {Nobody}
           /\ req[r].coins \in Nat /\ req[r].at \in Nat /\ req[r].plan \in Plans
BY DEF ReqOK, Reqs

LEMMA PlanTyped ==
    ASSUME NEW p \in Plans
    PROVE  /\ DOMAIN p \subseteq Nat
           /\ \A l \in DOMAIN p : p[l].from \in Nat /\ p[l].amount \in Nat /\ p[l].biz \in {"tip", "expire"}
<1>1. PICK D \in SUBSET Nat : p \in [D -> Writes]
  BY DEF Plans
<1>2. DOMAIN p = D /\ \A l \in D : p[l] \in Writes
  BY <1>1
<1> QED BY <1>2 DEF Writes

LEMMA MakePlan ==
    ASSUME NEW D \in SUBSET Nat, NEW p, p \in [D -> Writes]
    PROVE  p \in Plans
BY DEF Plans

LEMMA IdleTyped ==
    /\ WalletIdle \in Reqs /\ WalletIdle.pc = "idle"
    /\ WalletIdle.acct = Nobody /\ WalletIdle.video = Nobody
<1>1. NoPlan \in [{} -> Writes]
  BY DEF NoPlan
<1>2. NoPlan \in Plans
  BY <1>1, MakePlan
<1> QED BY <1>2 DEF WalletIdle, Reqs

\* One request goes on, the others keep what they have.
Moves(r) ==
    /\ req' \in [Requests -> Reqs]
    /\ \A q \in Requests \ {r} : req'[q] = req[q]

LEMMA GoesIdle ==
    ASSUME ReqOK, NEW r \in Requests, req' = [req EXCEPT ![r] = WalletIdle]
    PROVE  Moves(r) /\ req'[r].pc = "idle"
BY IdleTyped DEF Moves, ReqOK

LEMMA Locking ==
    ASSUME ReqOK, NEW r \in Requests, NEW P \in Plans, NEW pc \in {"tipping", "expiring"},
           req' = [req EXCEPT ![r].pc = pc, ![r].plan = P]
    PROVE  /\ Moves(r)
           /\ req'[r].pc = pc /\ req'[r].plan = P
           /\ req'[r].acct = req[r].acct /\ req'[r].video = req[r].video
           /\ req'[r].coins = req[r].coins /\ req'[r].at = req[r].at
<1>1. req[r] \in Reqs
  BY ReqTyped
<1>2. [req[r] EXCEPT !.pc = pc, !.plan = P] \in Reqs
  BY <1>1 DEF Reqs
<1>3. req' = [req EXCEPT ![r] = [req[r] EXCEPT !.pc = pc, !.plan = P]]
  BY DEF ReqOK
<1>4. req'[r] = [req[r] EXCEPT !.pc = pc, !.plan = P]
  BY <1>3 DEF ReqOK
<1>5. Moves(r)
  BY <1>2, <1>3 DEF Moves, ReqOK
<1>6. /\ req'[r].pc = pc /\ req'[r].plan = P
      /\ req'[r].acct = req[r].acct /\ req'[r].video = req[r].video
      /\ req'[r].coins = req[r].coins /\ req'[r].at = req[r].at
  <2>1. DOMAIN req[r] = {"pc", "acct", "video", "coins", "at", "plan"}
    BY <1>1 DEF Reqs
  <2>2. \A f \in DOMAIN req[r] : req'[r][f] = IF f = "plan" THEN P ELSE IF f = "pc" THEN pc ELSE req[r][f]
    BY <1>4, <2>1
  <2> QED BY <2>1, <2>2
<1> QED BY <1>5, <1>6

\* The invariant holds when the program starts.
THEOREM WalletStarts == WalletInit => WalletInv
<1> SUFFICES ASSUME WalletInit  PROVE WalletInv
  OBVIOUS
<1>1. \A r \in Requests : req[r].pc = "idle"
  BY IdleTyped DEF WalletInit
<1>2. Typed
  <2>1. lots = <<>> /\ ledger = <<>> /\ tips = <<>> /\ platform = <<>> /\ now = 0 /\ paid = Recharges
    BY DEF WalletInit
  <2>2. ReqOK
    BY IdleTyped DEF WalletInit, ReqOK
  <2> QED BY <2>1, <2>2 DEF Typed, LotsOK, LedgerOK, TipsOK
<1>3. Plan
  BY <1>1 DEF Plan, TipsNamed, PlansFit, PlansApart, TipPlans, ExpirePlans, Writing
<1>4. DOMAIN lots = {} /\ DOMAIN ledger = {} /\ DOMAIN tips = {}
  BY DEF WalletInit
<1>5. Book
  BY <1>4 DEF Book, RefsKnown, LedgerExplains, TipBalances
<1>6. Once
  BY <1>1, <1>4 DEF Once, TippersApart, NoRecentTip, Debounced
<1> QED BY <1>2, <1>3, <1>5, <1>6 DEF WalletInv

-----------------------------------------------------------------------------
\* Steps that leave the coins alone.
CoinsStay == UNCHANGED <<lots, ledger, tips, platform>>

LEMMA BookStays ==
    ASSUME Book, CoinsStay
    PROVE  Book'
BY DEF Book, CoinsStay, RefsKnown, LedgerExplains, TipBalances

\* A request that begins or gives up holds nothing.
LEMMA HoldsNothing ==
    ASSUME WalletInv, CoinsStay, NEW r \in Requests, Moves(r), now' \in Nat, paid' \subseteq Recharges,
           req'[r].pc \notin {"tipping", "expiring"},
           req'[r].pc = "tip" => req'[r].acct \in Holders /\ req'[r].video \in Holders
    PROVE  WalletInv'
<1>1. Typed'
  BY DEF WalletInv, Typed, CoinsStay, LotsOK, LedgerOK, TipsOK, ReqOK, Moves
<1>2. \A q \in Requests : q # r => req'[q] = req[q]
  BY DEF Moves
<1>3. Plan'
  <2>1. TipsNamed'
    BY <1>2 DEF WalletInv, Plan, TipsNamed
  <2>2. PlansFit'
    BY <1>2 DEF WalletInv, Plan, PlansFit, Writing, Fits, CoinsStay
  <2>3. PlansApart'
    BY <1>2 DEF WalletInv, Plan, PlansApart, Writing
  <2>4. TipPlans'
    BY <1>2 DEF WalletInv, Plan, TipPlans, Pays, CoinsStay
  <2>5. ExpirePlans'
    BY <1>2 DEF WalletInv, Plan, ExpirePlans
  <2> QED BY <2>1, <2>2, <2>3, <2>4, <2>5 DEF Plan
<1>4. Book'
  BY BookStays DEF WalletInv
<1>5. Once'
  <2>1. TippersApart'
    BY <1>2 DEF WalletInv, Once, TippersApart
  <2>2. NoRecentTip'
    BY <1>2 DEF WalletInv, Once, NoRecentTip, CoinsStay
  <2>3. Debounced'
    BY DEF WalletInv, Once, Debounced, CoinsStay
  <2> QED BY <2>1, <2>2, <2>3 DEF Once
<1> QED BY <1>1, <1>3, <1>4, <1>5 DEF WalletInv
-----------------------------------------------------------------------------
\* A transaction that has its locks and its plan.
Ready(r, P) ==
    /\ req[r].acct \in Holders /\ req[r].video \in Holders
    /\ Pays(P) = req[r].coins
    /\ \A l \in DOMAIN P : lots[l].acct = req[r].acct
    /\ \A q \in Requests \ {r} : req[q].pc = "tipping" => req[q].acct # req[r].acct
    /\ \A i \in DOMAIN tips : tips[i].from = req[r].acct /\ tips[i].video = req[r].video
         => req[r].at - tips[i].at >= TipDebounce

LEMMA TakesLocks ==
    ASSUME WalletInv, CoinsStay, UNCHANGED <<now, paid>>,
           NEW r \in Requests, NEW P \in Plans, NEW pc \in {"tipping", "expiring"},
           req' = [req EXCEPT ![r].pc = pc, ![r].plan = P],
           Fits(P),
           \A q \in Requests \ {r} : Writing(q) => DOMAIN req[q].plan \intersect DOMAIN P = {},
           pc = "expiring" => \A l \in DOMAIN P : P[l].biz = "expire",
           pc = "tipping" => Ready(r, P)
    PROVE  WalletInv'
<1>1. /\ Moves(r)
      /\ req'[r].pc = pc /\ req'[r].plan = P
      /\ req'[r].acct = req[r].acct /\ req'[r].video = req[r].video
      /\ req'[r].coins = req[r].coins /\ req'[r].at = req[r].at
  BY Locking DEF WalletInv, Typed
<1>2. \A q \in Requests : q # r => req'[q] = req[q]
  BY <1>1 DEF Moves
<1>3. Typed'
  BY <1>1 DEF WalletInv, Typed, CoinsStay, LotsOK, LedgerOK, TipsOK, ReqOK, Moves
<1>4. Plan'
  <2>1. TipsNamed'
    BY <1>1, <1>2 DEF WalletInv, Plan, TipsNamed, Ready
  <2>2. PlansFit'
    <3> SUFFICES ASSUME NEW q \in Requests, req'[q].pc \in {"tipping", "expiring"}
                 PROVE  Fits(req'[q].plan)
      <4>1. ASSUME NEW q \in Requests, Writing(q)'  PROVE (Fits(req[q].plan))'
        <5>1. lots' = lots
          BY DEF CoinsStay
        <5>2. req'[q].pc \in {"tipping", "expiring"}
          BY <4>1 DEF Writing
        <5>3. Fits(req'[q].plan)
          BY <5>2
        <5> QED BY <5>1, <5>3 DEF Fits
      <4> QED BY <4>1 DEF PlansFit
    <3>1. CASE q # r
      BY <3>1, <1>2 DEF WalletInv, Plan, PlansFit, Writing
    <3>2. CASE q = r
      BY <3>2, <1>1
    <3> QED BY <3>1, <3>2
  <2>3. PlansApart'
    <3> SUFFICES ASSUME NEW q \in Requests, NEW s \in Requests, q # s, Writing(q)', Writing(s)'
                 PROVE  DOMAIN req'[q].plan \intersect DOMAIN req'[s].plan = {}
      BY DEF PlansApart
    <3>1. CASE q # r /\ s # r
      BY <3>1, <1>2 DEF WalletInv, Plan, PlansApart, Writing
    <3>2. CASE q = r
      BY <3>2, <1>1, <1>2 DEF Writing
    <3>3. CASE s = r
      BY <3>3, <1>1, <1>2 DEF Writing
    <3> QED BY <3>1, <3>2, <3>3
  <2>4. TipPlans'
    <3> SUFFICES ASSUME NEW q \in Requests, req'[q].pc = "tipping"
                 PROVE  /\ Pays(req'[q].plan) = req'[q].coins
                        /\ \A l \in DOMAIN req'[q].plan : lots'[l].acct = req'[q].acct
      BY DEF TipPlans, Pays
    <3>1. CASE q # r
      <4>1. req'[q] = req[q] /\ lots' = lots
        BY <3>1, <1>2 DEF CoinsStay
      <4> QED BY <4>1 DEF WalletInv, Plan, TipPlans
    <3>2. CASE q = r
      BY <3>2, <1>1 DEF Ready, CoinsStay
    <3> QED BY <3>1, <3>2
  <2>5. ExpirePlans'
    <3> SUFFICES ASSUME NEW q \in Requests, req'[q].pc = "expiring", NEW l \in DOMAIN req'[q].plan
                 PROVE  req'[q].plan[l].biz = "expire"
      BY DEF ExpirePlans
    <3>1. CASE q # r
      <4>1. req'[q] = req[q]
        BY <3>1, <1>2
      <4> QED BY <4>1 DEF WalletInv, Plan, ExpirePlans
    <3>2. CASE q = r
      BY <3>2, <1>1
    <3> QED BY <3>1, <3>2
  <2> QED BY <2>1, <2>2, <2>3, <2>4, <2>5 DEF Plan
<1>5. Book'
  BY BookStays DEF WalletInv
<1>6. Once'
  <2>1. TippersApart'
    <3> SUFFICES ASSUME NEW q \in Requests, NEW s \in Requests, q # s,
                        req'[q].pc = "tipping", req'[s].pc = "tipping"
                 PROVE  req'[q].acct # req'[s].acct
      BY DEF TippersApart
    <3>1. CASE q # r /\ s # r
      <4>1. req'[q] = req[q] /\ req'[s] = req[s]
        BY <3>1, <1>2
      <4> QED BY <4>1 DEF WalletInv, Once, TippersApart
    <3>2. CASE q = r
      <4>1. req'[s] = req[s] /\ s \in Requests \ {r}
        BY <3>2, <1>2
      <4> QED BY <3>2, <4>1, <1>1 DEF Ready
    <3>3. CASE s = r
      <4>1. req'[q] = req[q] /\ q \in Requests \ {r}
        BY <3>3, <1>2
      <4> QED BY <3>3, <4>1, <1>1 DEF Ready
    <3> QED BY <3>1, <3>2, <3>3
  <2>2. NoRecentTip'
    <3> SUFFICES ASSUME NEW q \in Requests, req'[q].pc = "tipping", NEW i \in DOMAIN tips,
                        tips[i].from = req'[q].acct, tips[i].video = req'[q].video
                 PROVE  req'[q].at - tips[i].at >= TipDebounce
      BY DEF NoRecentTip, CoinsStay
    <3>1. CASE q # r
      BY <3>1, <1>2 DEF WalletInv, Once, NoRecentTip
    <3>2. CASE q = r
      BY <3>2, <1>1 DEF Ready
    <3> QED BY <3>1, <3>2
  <2>3. Debounced'
    BY DEF WalletInv, Once, Debounced, CoinsStay
  <2> QED BY <2>1, <2>2, <2>3 DEF Once
<1> QED BY <1>3, <1>4, <1>5, <1>6 DEF WalletInv

LEMMA MaxIsThere ==
    ASSUME NEW n \in Nat, NEW S \in SUBSET (1..n), S # {}
    PROVE  Max(S) \in S /\ \A y \in S : y <= Max(S)
<1> DEFINE T == {n - x : x \in S}
<1>1. T \in SUBSET Nat /\ T # {}
  <2>1. \A x \in S : n - x \in Nat
    OBVIOUS
  <2>2. PICK x \in S : TRUE
    OBVIOUS
  <2>3. n - x \in T
    OBVIOUS
  <2> QED BY <2>1, <2>3
<1>2. PICK t \in T : \A u \in T : t <= u
  BY <1>1, LeastOne
<1>3. PICK x \in S : t = n - x
  BY <1>2
<1>4. \A y \in S : n - x <= n - y
  BY <1>2, <1>3
<1>5. \A y \in S : x >= y
  BY <1>4
<1>6. \E z \in S : \A y \in S : z >= y
  BY <1>5
<1>7. Max(S) \in S /\ \A y \in S : Max(S) >= y
  BY <1>6 DEF Max
<1> QED BY <1>7

\* The newest of a viewer's tips for a video speaks for all of them.
LEMMA LastTipSpeaks ==
    ASSUME TipsOK, Debounced, NEW a, NEW v, NEW t \in Nat, ~ Recent(a, v, t)
    PROVE  \A i \in DOMAIN tips : tips[i].from = a /\ tips[i].video = v
             => t - tips[i].at >= TipDebounce
<1> SUFFICES ASSUME NEW i \in DOMAIN tips, tips[i].from = a, tips[i].video = v
             PROVE  t - tips[i].at >= TipDebounce
  OBVIOUS
<1> DEFINE mine == {j \in DOMAIN tips : tips[j].from = a /\ tips[j].video = v}
           last == Max(mine)
<1>1. Len(tips) \in Nat /\ DOMAIN tips = 1..Len(tips) /\ \A j \in DOMAIN tips : tips[j].at \in Nat
  <2>1. Len(tips) \in Nat /\ DOMAIN tips = 1..Len(tips) /\ \A j \in DOMAIN tips : tips[j] \in TipRows
    BY DEF TipsOK
  <2> QED BY <2>1 DEF TipRows
<1>2. i \in mine
  OBVIOUS
<1>3. last \in mine /\ i <= last
  <2>1. mine \in SUBSET (1..Len(tips)) /\ mine # {}
    BY <1>1, <1>2
  <2> HIDE DEF mine
  <2> QED BY <1>1, <1>2, <2>1, MaxIsThere
<1>4. ~ (t - tips[last].at < TipDebounce)
  BY <1>2 DEF Recent
<1>5. CASE i = last
  BY <1>1, <1>3, <1>4, <1>5, WalletAssumption DEF WalletAssumption
<1>6. CASE i < last
  <2>1. tips[last].at - tips[i].at >= TipDebounce
    BY <1>3, <1>6 DEF Debounced
  <2> HIDE DEF last
  <2>2. tips[last].at \in Nat /\ tips[i].at \in Nat
    BY <1>1, <1>3
  <2> QED BY <1>4, <2>1, <2>2, WalletAssumption DEF WalletAssumption
<1>7. i \in Int /\ last \in Int
  BY <1>1, <1>3
<1> HIDE DEF last
<1> QED BY <1>3, <1>5, <1>6, <1>7
-----------------------------------------------------------------------------
LEMMA ExpireLockKeeps ==
    ASSUME WalletInv, NEW r \in Requests, ExpireLock(r)
    PROVE  WalletInv'
<1> DEFINE q == req[r]
           gone == IF q.pc = "summary" THEN Expired(q.at) \intersect Of(q.acct) ELSE Expired(q.at)
           P == [l \in gone |-> Write(l, "expire", lots[l].remaining)]
<1>1. LotsOK /\ ReqOK
  BY DEF WalletInv, Typed
<1>2. gone \subseteq DOMAIN lots
  BY DEF Expired
<1>3. /\ CoinsStay /\ UNCHANGED <<now, paid>>
      /\ req' = [req EXCEPT ![r].pc = "expiring", ![r].plan = P]
      /\ \A l \in gone : CanLock(r, l)
  BY DEF ExpireLock, CoinsStay
<1> HIDE DEF gone
<1>4. \A l \in gone : /\ l \in Nat /\ lots[l].remaining \in Nat
                      /\ P[l].from = lots[l].remaining /\ P[l].amount = lots[l].remaining
                      /\ P[l].biz = "expire"
  BY <1>1, <1>2, LotsTyped DEF Write
<1>5. P \in [gone -> Writes]
  BY <1>4 DEF Write, Writes
<1>6. gone \in SUBSET Nat
  BY <1>4
<1>7. DOMAIN P = gone
  OBVIOUS
<1> HIDE DEF P
<1>8. P \in Plans
  BY <1>5, <1>6, MakePlan
<1>9. Fits(P)
  <2>1. \A l \in gone : lots[l].remaining <= lots[l].remaining
    BY <1>4
  <2> QED BY <1>2, <1>4, <1>7, <2>1 DEF Fits
<1>10. \A s \in Requests \ {r} : Writing(s) => DOMAIN req[s].plan \intersect DOMAIN P = {}
  BY <1>3, <1>7 DEF CanLock, HasRow, Writing
<1>11. \A l \in DOMAIN P : P[l].biz = "expire"
  BY <1>4, <1>7
<1> QED BY <1>3, <1>8, <1>9, <1>10, <1>11, TakesLocks

\* What a tip is going to write.
LEMMA TipLockKeeps ==
    ASSUME WalletInv, NEW r \in Requests, TipLock(r)
    PROVE  WalletInv'
<1> DEFINE q == req[r]
           gone == Expired(q.at) \intersect Of(q.acct)
           avail == Available(q.acct, now) \ gone
           used == {l \in avail : Take(l, avail, q.coins) > 0}
           U == gone \union used
           P == [l \in U |-> IF l \in gone THEN Write(l, "expire", lots[l].remaining)
                             ELSE Write(l, "tip", Take(l, avail, q.coins))]
<1>1. LotsOK /\ ReqOK /\ TipsOK /\ TipsNamed /\ Debounced
  BY DEF WalletInv, Typed, Plan, Once
<1>2. /\ CoinsStay /\ UNCHANGED <<now, paid>>
      /\ req' = [req EXCEPT ![r].pc = "tipping", ![r].plan = P]
      /\ q.pc = "tip" /\ CanScan(r, q.acct) /\ ~ Recent(q.acct, q.video, q.at)
      /\ Total(avail) >= q.coins
  BY DEF TipLock, CoinsStay
<1>3. avail \in SUBSET DOMAIN lots /\ gone \in SUBSET DOMAIN lots /\ used \in SUBSET avail
      /\ avail \intersect gone = {} /\ used \intersect gone = {}
      /\ avail \subseteq Of(q.acct) /\ U \subseteq Of(q.acct)
  BY DEF Available, Expired, Of
<1>4. q.coins \in Nat /\ q.at \in Nat /\ q.acct \in Holders /\ q.video \in Holders
  <2>1. q.coins \in Nat /\ q.at \in Nat
    BY <1>1, ReqTyped
  <2> QED BY <1>1, <1>2, <2>1 DEF TipsNamed
<1>5. ASSUME NEW l \in avail
      PROVE  Take(l, avail, q.coins) \in Nat /\ Take(l, avail, q.coins) <= lots[l].remaining
  <2> HIDE DEF avail, q
  <2>1. Take(l, avail, q.coins) \in 0..lots[l].remaining
    BY <1>1, <1>3, <1>4, TakeIsPart
  <2>2. lots[l].remaining \in Nat
    BY <1>1, <1>3, LotsTyped
  <2> QED BY <2>1, <2>2
<1> HIDE DEF gone, avail
<1>6. ASSUME NEW l \in used
      PROVE  Take(l, avail, q.coins) \in Nat /\ Take(l, avail, q.coins) <= lots[l].remaining
  BY <1>5
<1>7. \A l \in U : l \in DOMAIN lots /\ l \in Nat /\ lots[l].remaining \in Nat
  BY <1>1, <1>3, LotsTyped
<1> HIDE DEF used
<1>8. \A l \in U : l \in gone => P[l] = Write(l, "expire", lots[l].remaining)
  OBVIOUS
<1>9. \A l \in used : l \in U /\ l \notin gone /\ P[l] = Write(l, "tip", Take(l, avail, q.coins))
  BY <1>3
<1>10. \A l \in U : l \in gone \/ l \in used
  OBVIOUS
<1>11. DOMAIN P = U
  OBVIOUS
<1>12. ASSUME NEW l \in U  PROVE P[l] \in Writes /\ P[l].from = lots[l].remaining /\ P[l].amount <= P[l].from
  <2>1. lots[l].remaining \in Nat
    BY <1>7
  <2>2. CASE l \in gone
    <3>1. P[l] = Write(l, "expire", lots[l].remaining)
      BY <1>8, <2>2
    <3> HIDE DEF P
    <3> QED BY <2>1, <3>1 DEF Write, Writes
  <2>3. CASE l \in used
    <3>1. P[l] = Write(l, "tip", Take(l, avail, q.coins))
      BY <1>9, <2>3
    <3>2. Take(l, avail, q.coins) \in Nat /\ Take(l, avail, q.coins) <= lots[l].remaining
      BY <1>6, <2>3
    <3> HIDE DEF P, q
    <3> QED BY <2>1, <3>1, <3>2 DEF Write, Writes
  <2> QED BY <1>10, <2>2, <2>3
<1>13. P \in [U -> Writes]
  BY <1>12
<1> HIDE DEF P, U
<1>14. P \in Plans
  <2>1. U \in SUBSET Nat
    BY <1>7
  <2> QED BY <1>13, <2>1, MakePlan
<1>15. Fits(P)
  BY <1>7, <1>11, <1>12 DEF Fits
<1>16. \A l \in DOMAIN P : lots[l].acct = q.acct
  BY <1>3, <1>11 DEF Of
<1>17. \A s \in Requests \ {r} : Writing(s) => DOMAIN req[s].plan \intersect DOMAIN P = {}
  BY <1>2, <1>3, <1>11 DEF CanScan, HasRow, Writing
<1>18. \A s \in Requests \ {r} : req[s].pc = "tipping" => req[s].acct # q.acct
  BY <1>2 DEF CanScan, Locks
<1>19. \A i \in DOMAIN tips : tips[i].from = q.acct /\ tips[i].video = q.video
         => q.at - tips[i].at >= TipDebounce
  <2> HIDE DEF q
  <2> QED BY <1>1, <1>2, <1>4, LastTipSpeaks
<1>20. Pays(P) = q.coins
  <2> DEFINE all == [l \in avail |-> Take(l, avail, q.coins)]
             some == [l \in used |-> Take(l, avail, q.coins)]
             paying == [l \in U |-> IF P[l].biz = "tip" THEN P[l].amount ELSE 0]
  <2>1. Taken(avail, q.coins) = q.coins
    <3> HIDE DEF q
    <3>1. Taken(avail, q.coins) = IF q.coins <= Total(avail) THEN q.coins ELSE Total(avail)
      BY <1>1, <1>3, <1>4, GreedyTakes
    <3>2. Total(avail) \in Nat
      BY <1>1, <1>3, TotalNat
    <3> QED BY <1>2, <1>4, <3>1, <3>2
  <2>2. IsFiniteSet(avail) /\ IsFiniteSet(U)
    <3>1. IsFiniteSet(DOMAIN lots) /\ U \in SUBSET DOMAIN lots
      BY <1>1, <1>7, LotsTyped
    <3> QED BY <1>3, <3>1, FS_Subset
  <2>3. \A l \in avail \ used : Take(l, avail, q.coins) = 0
    <3>1. \A l \in avail \ used : ~ (Take(l, avail, q.coins) > 0)
      BY DEF used
    <3> HIDE DEF q
    <3> QED BY <1>5, <3>1
  <2>4. SumFunction(all) = SumFunction(some)
    <3>1. DOMAIN all = avail /\ DOMAIN some = used
      OBVIOUS
    <3>2. \A l \in used : some[l] = all[l] /\ all[l] \in Int
      BY <1>3, <1>5
    <3>3. \A l \in avail \ used : all[l] = 0
      BY <2>3
    <3> HIDE DEF all, some, q
    <3> QED BY <1>3, <2>2, <3>1, <3>2, <3>3, SumPart
  <2>5. ASSUME NEW l \in used
        PROVE  P[l].biz = "tip" /\ P[l].amount = Take(l, avail, q.coins)
    <3>1. P[l] = Write(l, "tip", Take(l, avail, q.coins))
      BY <1>9
    <3> HIDE DEF q
    <3> QED BY <3>1 DEF Write
  <2>6. ASSUME NEW l \in U \ used
        PROVE  P[l].biz = "expire"
    <3>1. P[l] = Write(l, "expire", lots[l].remaining)
      BY <1>8, <1>10
    <3> QED BY <3>1 DEF Write
  <2>7. SumFunction(paying) = SumFunction(some)
    <3>1. DOMAIN paying = U /\ DOMAIN some = used
      OBVIOUS
    <3>2. used \in SUBSET U
      BY <1>9
    <3>3. \A l \in used : some[l] = paying[l] /\ paying[l] \in Int
      BY <1>6, <2>5, <3>2
    <3>4. \A l \in U \ used : paying[l] = 0
      BY <2>6
    <3> HIDE DEF paying, some, q
    <3> QED BY <2>2, <3>1, <3>2, <3>3, <3>4, SumPart
  <2>8. Pays(P) = SumFunction(paying)
    BY <1>11 DEF Pays
  <2>9. SumFunction(all) = q.coins
    BY <2>1 DEF Taken
  <2> QED BY <2>4, <2>7, <2>8, <2>9
<1>21. Ready(r, P)
  BY <1>4, <1>16, <1>18, <1>19, <1>20 DEF Ready
<1> HIDE DEF q
<1> QED BY <1>2, <1>14, <1>15, <1>17, <1>21, TakesLocks
-----------------------------------------------------------------------------
\* The tip of row t is balanced by the lots.
Balanced(t) ==
    /\ tips[t].coins = SumFunction([l \in DOMAIN lots |-> Spent(ledger[l], t)])
    /\ tips[t].coins = platform[t] + SumFunction([l \in DOMAIN lots |-> Received(ledger[l], t)])
    /\ \A l \in DOMAIN lots : Spent(ledger[l], t) > 0 => lots[l].acct = tips[t].from

LEMMA LedgerTyped ==
    ASSUME LotsOK, LedgerOK
    PROVE  DOMAIN ledger = DOMAIN lots /\ \A l \in DOMAIN lots : ledger[l] \in Seq(Rows)
<1>1. Len(ledger) = Len(lots) /\ DOMAIN ledger = 1..Len(ledger) /\ \A l \in DOMAIN ledger : ledger[l] \in Seq(Rows)
  BY DEF LedgerOK
<1>2. DOMAIN lots = 1..Len(lots)
  BY LotsTyped
<1> QED BY <1>1, <1>2

LEMMA LotsTypedLater ==
    ASSUME LotsOK'
    PROVE  /\ DOMAIN lots' = 1..Len(lots') /\ Len(lots') \in Nat /\ IsFiniteSet(DOMAIN lots')
           /\ \A l \in DOMAIN lots' : l \in Nat /\ lots'[l] \in Lots
<1>1. DOMAIN lots' = 1..Len(lots') /\ Len(lots') \in Nat /\ \A l \in DOMAIN lots' : l \in Nat /\ lots'[l] \in Lots
  BY DEF LotsOK
<1>2. IsFiniteSet(DOMAIN lots')
  BY <1>1, FS_Interval
<1> QED BY <1>1, <1>2

LEMMA LedgerTypedLater ==
    ASSUME LotsOK', LedgerOK'
    PROVE  DOMAIN ledger' = DOMAIN lots' /\ \A l \in DOMAIN lots' : ledger'[l] \in Seq(Rows)
<1>1. Len(ledger') = Len(lots') /\ DOMAIN ledger' = 1..Len(ledger') /\ \A l \in DOMAIN ledger' : ledger'[l] \in Seq(Rows)
  BY DEF LedgerOK
<1>2. DOMAIN lots' = 1..Len(lots')
  BY LotsTypedLater
<1> QED BY <1>1, <1>2

\* The lots are still there, perhaps with new ones.
LotsRemain ==
    /\ LotsOK' /\ LedgerOK'
    /\ DOMAIN lots \subseteq DOMAIN lots'
    /\ \A l \in DOMAIN lots : lots'[l].acct = lots[l].acct

LEMMA BalanceStays ==
    ASSUME LotsOK, LedgerOK, LotsRemain, NEW t, Balanced(t), tips'[t] = tips[t], platform'[t] = platform[t],
           \A l \in DOMAIN lots : /\ Spent(ledger'[l], t) = Spent(ledger[l], t)
                                  /\ Received(ledger'[l], t) = Received(ledger[l], t),
           \A l \in DOMAIN lots' \ DOMAIN lots : Spent(ledger'[l], t) = 0 /\ Received(ledger'[l], t) = 0
    PROVE  Balanced(t)'
<1> DEFINE U == DOMAIN lots'
           S == DOMAIN lots
           f == [l \in U |-> Spent(ledger'[l], t)]
           g == [l \in S |-> Spent(ledger[l], t)]
           h == [l \in U |-> Received(ledger'[l], t)]
           k == [l \in S |-> Received(ledger[l], t)]
<1>1. IsFiniteSet(U) /\ S \in SUBSET U
  BY LotsTypedLater DEF LotsRemain
<1>2. \A l \in S : /\ Spent(ledger[l], t) \in Int /\ Received(ledger[l], t) \in Int
  BY LedgerTyped, SumsInt
<1>3. DOMAIN f = U /\ DOMAIN g = S /\ DOMAIN h = U /\ DOMAIN k = S
  OBVIOUS
<1>4. \A l \in S : g[l] = f[l] /\ f[l] \in Int /\ k[l] = h[l] /\ h[l] \in Int
  BY <1>1, <1>2
<1>5. \A l \in U \ S : f[l] = 0 /\ h[l] = 0
  OBVIOUS
<1>6. SumFunction(f) = SumFunction(g) /\ SumFunction(h) = SumFunction(k)
  <2> HIDE DEF f, g, h, k, U, S
  <2>1. (\A l \in S : g[l] = f[l] /\ f[l] \in Int) /\ \A l \in U \ S : f[l] = 0
    BY <1>4, <1>5
  <2>2. (\A l \in S : k[l] = h[l] /\ h[l] \in Int) /\ \A l \in U \ S : h[l] = 0
    BY <1>4, <1>5
  <2>3. SumFunction(f) = SumFunction(g)
    BY <1>1, <1>3, <2>1, SumPart
  <2>4. SumFunction(h) = SumFunction(k)
    BY <1>1, <1>3, <2>2, SumPart
  <2> QED BY <2>3, <2>4
<1>7. tips[t].coins = SumFunction(g) /\ tips[t].coins = platform[t] + SumFunction(k)
  BY DEF Balanced
<1>8. tips'[t].coins = SumFunction(f) /\ tips'[t].coins = platform'[t] + SumFunction(h)
  <2> HIDE DEF f, g, h, k, U, S
  <2> QED BY <1>6, <1>7
<1>9. ASSUME NEW l \in U, Spent(ledger'[l], t) > 0  PROVE lots'[l].acct = tips'[t].from
  <2>1. l \in S
    <3>1. CASE l \in U \ S
      <4>1. Spent(ledger'[l], t) = 0
        BY <3>1
      <4> QED BY <4>1, <1>9
    <3> QED BY <3>1
  <2>2. lots[l].acct = tips[t].from
    BY <2>1, <1>9 DEF Balanced
  <2> QED BY <2>1, <2>2 DEF LotsRemain
<1> QED BY <1>8, <1>9 DEF Balanced

LEMMA GrantSums ==
    ASSUME NEW c \in Nat, NEW ref \in Nat, NEW t
    PROVE  /\ Grant(c, ref) \in Seq(Rows) /\ Net(Grant(c, ref)) = c
           /\ Spent(Grant(c, ref), t) = 0
           /\ Received(Grant(c, ref), t) = IF ref = t THEN c ELSE 0
           /\ \A i \in DOMAIN Grant(c, ref) : Grant(c, ref)[i].ref = ref
<1> DEFINE row == [biz |-> "grant", amount |-> c, ref |-> ref]
<1>1. row \in Rows /\ row.biz = "grant" /\ row.amount = c /\ row.ref = ref
  BY DEF Rows
<1>2. Grant(c, ref) = <<row>>
  BY DEF Grant
<1>3. \A i \in DOMAIN Grant(c, ref) : Grant(c, ref)[i].ref = ref
  BY <1>2
<1>4. SpentIn(row, t) = 0 /\ ReceivedIn(row, t) = IF ref = t THEN c ELSE 0
  BY <1>1 DEF SpentIn, ReceivedIn, IsOf
<1> HIDE DEF row
<1> QED BY <1>1, <1>2, <1>3, <1>4, SumsOfOne
-----------------------------------------------------------------------------
\* New lots, each explained by its first row.
Granted ==
    /\ LotsRemain
    /\ \A l \in DOMAIN lots : lots'[l] = lots[l] /\ ledger'[l] = ledger[l]
    /\ \A l \in DOMAIN lots' \ DOMAIN lots :
         \E c \in Nat : lots'[l].remaining = c /\ ledger'[l] = Grant(c, 0)

LEMMA GrantIsNoTip ==
    ASSUME NEW c \in Nat, NEW ref \in Nat, NEW t, t # ref
    PROVE  Spent(Grant(c, ref), t) = 0 /\ Received(Grant(c, ref), t) = 0
<1>1. Spent(Grant(c, ref), t) = 0 /\ Received(Grant(c, ref), t) = IF ref = t THEN c ELSE 0
  BY GrantSums
<1> QED BY <1>1

LEMMA GrantRefs ==
    ASSUME NEW c \in Nat, NEW ref \in Nat
    PROVE  /\ Net(Grant(c, ref)) = c
           /\ \A i \in DOMAIN Grant(c, ref) : Grant(c, ref)[i].ref = ref
<1>1. PICK t : t = 1
  OBVIOUS
<1> QED BY GrantSums

LEMMA TipsTyped ==
    ASSUME TipsOK
    PROVE  /\ Len(tips) \in Nat /\ DOMAIN tips = 1..Len(tips) /\ DOMAIN platform = DOMAIN tips
           /\ \A t \in DOMAIN tips : /\ tips[t] \in TipRows /\ tips[t].coins \in Nat /\ tips[t].at \in Nat
                                     /\ platform[t] \in Int
<1>1. /\ Len(tips) \in Nat /\ DOMAIN tips = 1..Len(tips) /\ DOMAIN platform = 1..Len(platform)
      /\ Len(platform) = Len(tips)
      /\ \A t \in DOMAIN tips : tips[t] \in TipRows
      /\ \A t \in DOMAIN platform : platform[t] \in Int
  BY DEF TipsOK
<1> QED BY <1>1 DEF TipRows

LEMMA GrantedKeeps ==
    ASSUME WalletInv, Granted, UNCHANGED <<tips, platform, req, now>>, paid' \subseteq Recharges
    PROVE  WalletInv'
<1>1. LotsOK /\ LedgerOK /\ TipsOK /\ ReqOK
  BY DEF WalletInv, Typed
<1>2. Typed'
  BY <1>1 DEF WalletInv, Typed, Granted, LotsRemain, TipsOK, ReqOK
<1>3. DOMAIN lots \subseteq DOMAIN lots' /\ DOMAIN ledger = DOMAIN lots /\ DOMAIN ledger' = DOMAIN lots'
  BY <1>1, LedgerTyped, LedgerTypedLater DEF Granted, LotsRemain
<1>4. \A l \in DOMAIN lots : lots'[l] = lots[l] /\ ledger'[l] = ledger[l]
  BY DEF Granted
<1>5. Plan'
  <2>1. TipsNamed'
    BY DEF WalletInv, Plan, TipsNamed
  <2>2. PlansFit'
    <3>1. ASSUME NEW r \in Requests, Writing(r)'  PROVE (Fits(req[r].plan))'
      <4>1. Writing(r) /\ req' = req
        BY <3>1 DEF Writing
      <4>2. Fits(req[r].plan)
        BY <4>1 DEF WalletInv, Plan, PlansFit
      <4> QED BY <1>3, <1>4, <4>1, <4>2 DEF Fits
    <3> QED BY <3>1 DEF PlansFit
  <2>3. PlansApart'
    BY DEF WalletInv, Plan, PlansApart, Writing
  <2>4. TipPlans'
    <3> SUFFICES ASSUME NEW r \in Requests, req[r].pc = "tipping"
                 PROVE  /\ Pays(req[r].plan) = req[r].coins
                        /\ \A l \in DOMAIN req[r].plan : lots'[l].acct = req[r].acct
      BY DEF TipPlans, Pays
    <3>1. /\ Pays(req[r].plan) = req[r].coins
          /\ \A l \in DOMAIN req[r].plan : lots[l].acct = req[r].acct
      BY DEF WalletInv, Plan, TipPlans
    <3>2. \A l \in DOMAIN req[r].plan : l \in DOMAIN lots
      BY DEF WalletInv, Plan, PlansFit, Fits, Writing
    <3> QED BY <1>4, <3>1, <3>2
  <2>5. ExpirePlans'
    BY DEF WalletInv, Plan, ExpirePlans
  <2> QED BY <2>1, <2>2, <2>3, <2>4, <2>5 DEF Plan
<1>6. RefsKnown'
  <2> SUFFICES ASSUME NEW l \in DOMAIN ledger', NEW i \in DOMAIN ledger'[l]
               PROVE  ledger'[l][i].ref <= Len(tips)
    BY DEF RefsKnown
  <2>1. CASE l \in DOMAIN lots
    <3>1. ledger'[l] = ledger[l] /\ l \in DOMAIN ledger
      BY <1>3, <1>4, <2>1
    <3> QED BY <3>1 DEF WalletInv, Book, RefsKnown
  <2>2. CASE l \notin DOMAIN lots
    <3>1. PICK c \in Nat : ledger'[l] = Grant(c, 0)
      BY <1>3, <2>2 DEF Granted
    <3>2. ledger'[l][i].ref = 0
      BY <3>1, GrantSums
    <3>3. Len(tips) \in Nat
      BY <1>1, TipsTyped
    <3> QED BY <3>2, <3>3
  <2> QED BY <2>1, <2>2
<1>7. LedgerExplains'
  <2> SUFFICES ASSUME NEW l \in DOMAIN lots'
               PROVE  lots'[l].remaining = Net(ledger'[l]) /\ lots'[l].remaining >= 0
    BY DEF LedgerExplains, Net
  <2>1. CASE l \in DOMAIN lots
    BY <1>4, <2>1 DEF WalletInv, Book, LedgerExplains
  <2>2. CASE l \notin DOMAIN lots
    <3>1. PICK c \in Nat : lots'[l].remaining = c /\ ledger'[l] = Grant(c, 0)
      BY <2>2 DEF Granted
    <3>2. Net(ledger'[l]) = c
      BY <3>1, GrantSums
    <3> QED BY <3>1, <3>2
  <2> QED BY <2>1, <2>2
<1>8. TipBalances'
  <2>1. ASSUME NEW t \in DOMAIN tips  PROVE Balanced(t)'
    <3>1. Balanced(t)
      BY DEF WalletInv, Book, TipBalances, Balanced
    <3>2. tips'[t] = tips[t] /\ platform'[t] = platform[t]
      OBVIOUS
    <3>3. \A l \in DOMAIN lots : /\ Spent(ledger'[l], t) = Spent(ledger[l], t)
                                 /\ Received(ledger'[l], t) = Received(ledger[l], t)
      BY <1>4
    <3>4. ASSUME NEW l \in DOMAIN lots' \ DOMAIN lots
          PROVE  Spent(ledger'[l], t) = 0 /\ Received(ledger'[l], t) = 0
      <4>1. PICK c \in Nat : ledger'[l] = Grant(c, 0)
        BY DEF Granted
      <4>2. t # 0
        BY <1>1, TipsTyped
      <4>3. 0 \in Nat
        OBVIOUS
      <4> QED BY <4>1, <4>2, <4>3, GrantIsNoTip
    <3>5. LotsRemain
      BY DEF Granted
    <3> QED BY <1>1, <3>1, <3>2, <3>3, <3>4, <3>5, BalanceStays
  <2> QED BY <2>1 DEF TipBalances, Balanced
<1>9. Once'
  BY DEF WalletInv, Once, TippersApart, NoRecentTip, Debounced
<1> QED BY <1>2, <1>5, <1>6, <1>7, <1>8, <1>9 DEF WalletInv, Book

LEMMA LotTyped ==
    ASSUME now \in Nat, NEW a \in Holders,
           NEW source \in {"register", "checkin", "lottery", "tip_in", "recharge"}, NEW coins \in Nat
    PROVE  /\ Lot(a, source, coins) \in Lots
           /\ Lot(a, source, coins).remaining = coins /\ Lot(a, source, coins).acct = a
<1>1. DOMAIN TTL = {"register", "checkin", "lottery", "tip_in"} /\ \A s \in DOMAIN TTL : TTL[s] \in Nat
  BY WalletAssumption DEF WalletAssumption
<1>2. source \in Sources
  BY <1>1 DEF Sources
<1>3. ExpireFor(source, now) \in Nat
  <2>1. CASE source = "recharge"
    BY <2>1 DEF ExpireFor, Forever
  <2>2. CASE source # "recharge"
    <3>1. source \in DOMAIN TTL
      BY <1>1, <2>2
    <3> QED BY <1>1, <2>2, <3>1 DEF ExpireFor
  <2> QED BY <2>1, <2>2
<1> QED BY <1>2, <1>3 DEF Lot, Lots

LEMMA AppendFacts ==
    ASSUME NEW T, NEW s \in Seq(T), NEW e \in T
    PROVE  /\ Len(s) \in Nat /\ Append(s, e) \in Seq(T) /\ Len(Append(s, e)) = Len(s) + 1
           /\ \A l \in 1..Len(s) : Append(s, e)[l] = s[l]
           /\ Append(s, e)[Len(s) + 1] = e
OBVIOUS

\* The commit of a transaction whose last insert is a lot.
LEMMA OneMoreLot ==
    ASSUME LotsOK, NEW lot \in Lots, NEW rows \in Seq(Rows), NEW L \in Seq(Lots),
           NEW B \in Seq(Seq(Rows)), Len(L) = Len(lots), Len(B) = Len(lots),
           lots' = Append(L, lot), ledger' = Append(B, rows)
    PROVE  /\ LotsOK' /\ LedgerOK' /\ Len(lots) + 1 \notin DOMAIN lots
           /\ DOMAIN lots' = DOMAIN lots \union {Len(lots) + 1}
           /\ \A l \in DOMAIN lots : lots'[l] = L[l] /\ ledger'[l] = B[l]
           /\ lots'[Len(lots) + 1] = lot /\ ledger'[Len(lots) + 1] = rows
<1> DEFINE n == Len(lots)
           RowSeqs == Seq(Rows)
<1>1. n \in Nat /\ DOMAIN lots = 1..n
  BY LotsTyped
<1>2. /\ lots' \in Seq(Lots) /\ Len(lots') = n + 1
      /\ \A l \in 1..n : lots'[l] = L[l]
      /\ lots'[n + 1] = lot
  BY AppendFacts
<1>3. rows \in RowSeqs /\ B \in Seq(RowSeqs)
  OBVIOUS
<1> HIDE DEF RowSeqs
<1>4. /\ ledger' \in Seq(RowSeqs) /\ Len(ledger') = n + 1
      /\ \A l \in 1..n : ledger'[l] = B[l]
      /\ ledger'[n + 1] = rows
  BY <1>3, AppendFacts
<1>5. LotsOK' /\ LedgerOK'
  BY <1>2, <1>4 DEF LotsOK, LedgerOK, RowSeqs
<1>6. DOMAIN lots' = 1..(n + 1)
  BY <1>2
<1> HIDE DEF n
<1>7. DOMAIN lots' = DOMAIN lots \union {n + 1} /\ n + 1 \notin DOMAIN lots
  BY <1>1, <1>6
<1> QED BY <1>1, <1>2, <1>4, <1>5, <1>7 DEF n

LEMMA GrantTxGrants ==
    ASSUME Typed, NEW a \in Holders, NEW source \in {"register", "checkin", "lottery"},
           NEW coins \in Nat, GrantTx(a, source, coins)
    PROVE  Granted
<1>1. LotsOK /\ LedgerOK /\ now \in Nat
  BY DEF Typed
<1>2. Lot(a, source, coins) \in Lots /\ Lot(a, source, coins).remaining = coins
  BY <1>1, LotTyped
<1>3. Grant(coins, 0) \in Seq(Rows)
  BY GrantSums
<1>4. lots' = Append(lots, Lot(a, source, coins)) /\ ledger' = Append(ledger, Grant(coins, 0))
  BY DEF GrantTx
<1>5. lots \in Seq(Lots) /\ ledger \in Seq(Seq(Rows)) /\ Len(ledger) = Len(lots)
  BY <1>1 DEF LotsOK, LedgerOK
<1> DEFINE z == Len(lots) + 1
<1>6. /\ LotsOK' /\ LedgerOK' /\ DOMAIN lots' = DOMAIN lots \union {z}
      /\ \A l \in DOMAIN lots : lots'[l] = lots[l] /\ ledger'[l] = ledger[l]
      /\ lots'[z] = Lot(a, source, coins) /\ ledger'[z] = Grant(coins, 0)
  <2>1. PICK lot \in Lots : lot = Lot(a, source, coins)
    BY <1>2
  <2>2. PICK rows \in Seq(Rows) : rows = Grant(coins, 0)
    BY <1>3
  <2>3. PICK L \in Seq(Lots) : L = lots
    BY <1>5
  <2>4. PICK B \in Seq(Seq(Rows)) : B = ledger
    BY <1>5
  <2>5. lots' = Append(L, lot) /\ ledger' = Append(B, rows) /\ Len(L) = Len(lots) /\ Len(B) = Len(lots)
    BY <1>4, <1>5, <2>1, <2>2, <2>3, <2>4
  <2>6. /\ LotsOK' /\ LedgerOK' /\ DOMAIN lots' = DOMAIN lots \union {z}
        /\ \A l \in DOMAIN lots : lots'[l] = L[l] /\ ledger'[l] = B[l]
        /\ lots'[z] = lot /\ ledger'[z] = rows
    BY <1>1, <2>5, OneMoreLot
  <2> QED BY <2>1, <2>2, <2>3, <2>4, <2>6
<1> HIDE DEF z
<1>7. lots'[z].remaining = coins
  BY <1>2, <1>6
<1> QED BY <1>6, <1>7 DEF Granted, LotsRemain

LEMMA TwoMore ==
    ASSUME NEW S, NEW s \in Seq(S), NEW x \in S, NEW y \in S
    PROVE  /\ s \o <<x, y>> \in Seq(S) /\ Len(s \o <<x, y>>) = Len(s) + 2
           /\ \A l \in 1..Len(s) : (s \o <<x, y>>)[l] = s[l]
           /\ (s \o <<x, y>>)[Len(s) + 1] = x /\ (s \o <<x, y>>)[Len(s) + 2] = y
  OBVIOUS

LEMMA GrantRechargeGrants ==
    ASSUME Typed, NEW o \in paid, GrantRecharge(o)
    PROVE  Granted
<1>1. LotsOK /\ LedgerOK /\ now \in Nat /\ o \in Recharges
  BY DEF Typed
<1>2. o.acct \in Holders /\ o.coins \in Nat /\ o.bonus \in Nat
  BY <1>1, WalletAssumption DEF WalletAssumption
<1> DEFINE A == Lot(o.acct, "recharge", o.coins)
           B == Lot(o.acct, "recharge", o.bonus)
           GA == Grant(o.coins, 0)
           GB == Grant(o.bonus, 0)
           n == Len(lots)
<1>3. A \in Lots /\ B \in Lots /\ A.remaining = o.coins /\ B.remaining = o.bonus
  BY <1>1, <1>2, LotTyped
<1>4. GA \in Seq(Rows) /\ GB \in Seq(Rows)
  BY <1>2, GrantSums
<1>5. lots' = lots \o <<A, B>> /\ ledger' = ledger \o <<GA, GB>>
  BY DEF GrantRecharge
<1>6. lots \in Seq(Lots) /\ ledger \in Seq(Seq(Rows)) /\ Len(ledger) = n
  BY <1>1 DEF LotsOK, LedgerOK
<1>7. n \in Nat /\ DOMAIN lots = 1..n
  BY <1>1, LotsTyped
<1> HIDE DEF A, B, GA, GB
<1>8. /\ lots' \in Seq(Lots) /\ Len(lots') = n + 2
      /\ \A l \in 1..n : lots'[l] = lots[l]
      /\ lots'[n + 1] = A /\ lots'[n + 2] = B
  <2>1. A \in Lots /\ B \in Lots /\ lots \in Seq(Lots) /\ Len(lots) = n
    BY <1>3, <1>6
  <2>2. /\ lots \o <<A, B>> \in Seq(Lots) /\ Len(lots \o <<A, B>>) = Len(lots) + 2
        /\ \A l \in 1..Len(lots) : (lots \o <<A, B>>)[l] = lots[l]
        /\ (lots \o <<A, B>>)[Len(lots) + 1] = A /\ (lots \o <<A, B>>)[Len(lots) + 2] = B
    BY <2>1, TwoMore
  <2> QED BY <1>5, <2>1, <2>2, Zenon
<1>9. /\ ledger' \in Seq(Seq(Rows)) /\ Len(ledger') = n + 2
      /\ \A l \in 1..n : ledger'[l] = ledger[l]
      /\ ledger'[n + 1] = GA /\ ledger'[n + 2] = GB
  <2> DEFINE RowSeqs == Seq(Rows)
  <2>1. ledger \in Seq(RowSeqs) /\ Len(ledger) = n /\ GA \in RowSeqs /\ GB \in RowSeqs
    BY <1>4, <1>6
  <2> HIDE DEF RowSeqs
  <2>3. /\ ledger \o <<GA, GB>> \in Seq(RowSeqs) /\ Len(ledger \o <<GA, GB>>) = Len(ledger) + 2
        /\ \A l \in 1..Len(ledger) : (ledger \o <<GA, GB>>)[l] = ledger[l]
        /\ (ledger \o <<GA, GB>>)[Len(ledger) + 1] = GA /\ (ledger \o <<GA, GB>>)[Len(ledger) + 2] = GB
    BY <2>1, TwoMore
  <2>2. /\ ledger' \in Seq(RowSeqs) /\ Len(ledger') = n + 2
        /\ \A l \in 1..n : ledger'[l] = ledger[l]
        /\ ledger'[n + 1] = GA /\ ledger'[n + 2] = GB
    BY <1>5, <2>1, <2>3, Zenon
  <2> QED BY <2>2 DEF RowSeqs
<1>10. LotsOK' /\ LedgerOK'
  BY <1>8, <1>9 DEF LotsOK, LedgerOK
<1>11. DOMAIN lots' = 1..(n + 2)
  BY <1>8
<1> HIDE DEF n
<1>12. DOMAIN lots \subseteq DOMAIN lots' /\ \A l \in DOMAIN lots' \ DOMAIN lots : l = n + 1 \/ l = n + 2
  BY <1>7, <1>11
<1>13. \A l \in DOMAIN lots' \ DOMAIN lots :
          \E c \in Nat : lots'[l].remaining = c /\ ledger'[l] = Grant(c, 0)
  <2> SUFFICES ASSUME NEW l \in DOMAIN lots' \ DOMAIN lots
               PROVE  \E c \in Nat : lots'[l].remaining = c /\ ledger'[l] = Grant(c, 0)
    OBVIOUS
  <2>1. CASE l = n + 1
    <3>1. lots'[l].remaining = o.coins /\ ledger'[l] = Grant(o.coins, 0)
      BY <1>3, <1>8, <1>9, <2>1 DEF GA
    <3> QED BY <1>2, <3>1
  <2>2. CASE l = n + 2
    <3>1. lots'[l].remaining = o.bonus /\ ledger'[l] = Grant(o.bonus, 0)
      BY <1>3, <1>8, <1>9, <2>2 DEF GB
    <3> QED BY <1>2, <3>1
  <2> QED BY <1>12, <2>1, <2>2
<1> QED BY <1>7, <1>8, <1>9, <1>10, <1>12, <1>13 DEF Granted, LotsRemain
-----------------------------------------------------------------------------
\* The rows that a commit adds.
BookedRow(w, ref) == [biz |-> w.biz, amount |-> -w.amount, ref |-> IF w.biz = "tip" THEN ref ELSE 0]

LEMMA BookedRowTyped ==
    ASSUME NEW p \in Plans, NEW l \in DOMAIN p, NEW ref \in Nat, NEW t, t # 0
    PROVE  /\ BookedRow(p[l], ref) \in Rows
           /\ BookedRow(p[l], ref).amount = -p[l].amount
           /\ BookedRow(p[l], ref).ref \in {0, ref}
           /\ SpentIn(BookedRow(p[l], ref), t) =
                IF p[l].biz = "tip" /\ ref = t THEN p[l].amount ELSE 0
           /\ ReceivedIn(BookedRow(p[l], ref), t) = 0
<1>1. p[l].amount \in Nat /\ p[l].biz \in {"tip", "expire"}
  BY PlanTyped
<1> DEFINE row == BookedRow(p[l], ref)
<1>2. row.biz = p[l].biz /\ row.amount = -p[l].amount /\ row.ref = IF p[l].biz = "tip" THEN ref ELSE 0
  BY DEF BookedRow
<1>3. row \in Rows
  BY <1>1 DEF BookedRow, Rows
<1> HIDE DEF row
<1>4. SpentIn(row, t) = IF p[l].biz = "tip" /\ ref = t THEN p[l].amount ELSE 0
  <2>1. CASE p[l].biz = "tip"
    BY <1>1, <1>2, <2>1 DEF SpentIn, IsOf
  <2>2. CASE p[l].biz = "expire"
    BY <1>2, <2>2 DEF SpentIn, IsOf
  <2> QED BY <1>1, <2>1, <2>2
<1>5. ReceivedIn(row, t) = 0
  <2>1. row.biz # "grant"
    BY <1>1, <1>2
  <2> QED BY <2>1 DEF ReceivedIn, IsOf
<1>6. row.ref \in {0, ref}
  BY <1>2
<1> QED BY <1>2, <1>3, <1>4, <1>5, <1>6 DEF row

LEMMA WrittenFacts ==
    ASSUME Typed, NEW p \in Plans, Fits(p), NEW ref \in Nat
    PROVE  /\ Written(p) \in Seq(Lots) /\ Len(Written(p)) = Len(lots)
           /\ Booked(p, ref) \in Seq(Seq(Rows)) /\ Len(Booked(p, ref)) = Len(lots)
           /\ \A l \in DOMAIN lots : Written(p)[l].acct = lots[l].acct
           /\ \A l \in DOMAIN lots \ DOMAIN p : Written(p)[l] = lots[l] /\ Booked(p, ref)[l] = ledger[l]
           /\ \A l \in DOMAIN p : /\ Written(p)[l].remaining = lots[l].remaining - p[l].amount
                                  /\ Written(p)[l].remaining \in Nat
                                  /\ Booked(p, ref)[l] = Append(ledger[l], BookedRow(p[l], ref))
<1> DEFINE n == Len(lots)
<1>1. LotsOK /\ LedgerOK
  BY DEF Typed
<1>2. n \in Nat /\ DOMAIN lots = 1..n /\ \A l \in DOMAIN lots : lots[l] \in Lots /\ lots[l].remaining \in Nat
  BY <1>1, LotsTyped
<1>3. DOMAIN ledger = 1..n /\ \A l \in DOMAIN lots : ledger[l] \in Seq(Rows)
  BY <1>1, <1>2, LedgerTyped
<1>4. \A l \in DOMAIN p : /\ l \in DOMAIN lots /\ p[l].amount \in Nat
                          /\ p[l].from = lots[l].remaining /\ p[l].amount <= lots[l].remaining
  BY PlanTyped DEF Fits
<1> HIDE DEF n
<1>5. ASSUME NEW l \in 1..n
      PROVE  /\ Written(p)[l] \in Lots /\ Written(p)[l].acct = lots[l].acct
             /\ l \in DOMAIN p => /\ Written(p)[l].remaining = lots[l].remaining - p[l].amount
                                  /\ Written(p)[l].remaining \in Nat
             /\ l \notin DOMAIN p => Written(p)[l] = lots[l]
  <2>1. lots[l] \in Lots /\ lots[l].remaining \in Nat /\ l \in DOMAIN lots
    BY <1>2
  <2>2. CASE l \notin DOMAIN p
    <3>1. Written(p)[l] = lots[l]
      BY <2>1, <2>2 DEF Written
    <3> QED BY <2>1, <2>2, <3>1
  <2>3. CASE l \in DOMAIN p
    <3>1. PICK left \in Nat : left = lots[l].remaining - p[l].amount /\ left = p[l].from - p[l].amount
      BY <1>4, <2>1, <2>3
    <3>2. Written(p)[l] = [lots[l] EXCEPT !.remaining = left]
      BY <2>1, <2>3, <3>1 DEF Written
    <3>3. Written(p)[l] \in Lots
      BY <2>1, <3>1, <3>2 DEF Lots
    <3>4. Written(p)[l].acct = lots[l].acct /\ Written(p)[l].remaining = left
      BY <2>1, <3>2 DEF Lots
    <3> QED BY <2>3, <3>1, <3>3, <3>4
  <2> QED BY <2>2, <2>3
<1>6. ASSUME NEW l \in 1..n
      PROVE  /\ Booked(p, ref)[l] \in Seq(Rows)
             /\ l \in DOMAIN p => Booked(p, ref)[l] = Append(ledger[l], BookedRow(p[l], ref))
             /\ l \notin DOMAIN p => Booked(p, ref)[l] = ledger[l]
  <2>1. ledger[l] \in Seq(Rows) /\ l \in DOMAIN ledger
    BY <1>2, <1>3
  <2>2. CASE l \notin DOMAIN p
    BY <2>1, <2>2 DEF Booked
  <2>3. CASE l \in DOMAIN p
    <3>1. Booked(p, ref)[l] = Append(ledger[l], BookedRow(p[l], ref))
      BY <2>1, <2>3 DEF Booked, BookedRow
    <3>2. BookedRow(p[l], ref) \in Rows
      BY <2>3, BookedRowTyped
    <3>3. Append(ledger[l], BookedRow(p[l], ref)) \in Seq(Rows)
      BY <2>1, <3>2, SumsAppend
    <3> QED BY <2>3, <3>1, <3>3
  <2> QED BY <2>2, <2>3
<1>7. Written(p) \in [1..n -> Lots]
  <2>1. Written(p) = [l \in 1..n |-> Written(p)[l]]
    BY <1>2 DEF Written
  <2> QED BY <1>5, <2>1
<1>8. Booked(p, ref) \in [1..n -> Seq(Rows)]
  <2>1. Booked(p, ref) = [l \in 1..n |-> Booked(p, ref)[l]]
    BY <1>3 DEF Booked
  <2> QED BY <1>6, <2>1
<1>9. Written(p) \in Seq(Lots) /\ Len(Written(p)) = n
  BY <1>2, <1>7
<1>10. Booked(p, ref) \in Seq(Seq(Rows)) /\ Len(Booked(p, ref)) = n
  <2> DEFINE RowSeqs == Seq(Rows)
  <2> HIDE DEF RowSeqs
  <2>1. Booked(p, ref) \in [1..n -> RowSeqs]
    BY <1>8 DEF RowSeqs
  <2>2. Booked(p, ref) \in Seq(RowSeqs) /\ Len(Booked(p, ref)) = n
    BY <1>2, <2>1
  <2> QED BY <2>2 DEF RowSeqs
<1> QED BY <1>2, <1>4, <1>5, <1>6, <1>9, <1>10 DEF n

\* Request r has written its plan; ref is the tip it was for.
Commits(r, ref) ==
    /\ LotsRemain /\ Moves(r) /\ req'[r].pc = "idle"
    /\ \A l \in DOMAIN lots \ DOMAIN req[r].plan : lots'[l] = lots[l] /\ ledger'[l] = ledger[l]
    /\ \A l \in DOMAIN req[r].plan :
         /\ lots'[l].remaining = lots[l].remaining - req[r].plan[l].amount
         /\ lots'[l].remaining \in Nat
         /\ ledger'[l] = Append(ledger[l], BookedRow(req[r].plan[l], ref))

LEMMA CommitKeepsPlans ==
    ASSUME WalletInv, NEW r \in Requests, Writing(r), NEW ref, Commits(r, ref)
    PROVE  Plan'
<1>1. \A q \in Requests : q # r => req'[q] = req[q]
  BY DEF Commits, Moves
<1>2. req'[r].pc = "idle"
  BY DEF Commits
<1>3. TipsNamed'
  BY <1>1, <1>2 DEF WalletInv, Plan, TipsNamed
<1>4. ASSUME NEW q \in Requests, req'[q].pc \in {"tipping", "expiring"}
      PROVE  /\ q # r /\ req'[q] = req[q] /\ Fits(req[q].plan)
             /\ DOMAIN req[q].plan \intersect DOMAIN req[r].plan = {}
  <2>1. q # r
    BY <1>2, <1>4
  <2>2. req'[q] = req[q] /\ Writing(q)
    BY <1>1, <1>4, <2>1 DEF Writing
  <2> QED BY <2>1, <2>2 DEF WalletInv, Plan, PlansFit, PlansApart
<1>5. PlansFit'
  <2>1. ASSUME NEW q \in Requests, Writing(q)'  PROVE (Fits(req[q].plan))'
    <3>1. req'[q].pc \in {"tipping", "expiring"}
      BY <2>1 DEF Writing
    <3>2. req'[q] = req[q] /\ Fits(req[q].plan) /\ DOMAIN req[q].plan \intersect DOMAIN req[r].plan = {}
      BY <1>4, <3>1
    <3>3. \A l \in DOMAIN req[q].plan : l \in DOMAIN lots' /\ lots'[l] = lots[l]
      BY <3>2 DEF Fits, Commits, LotsRemain
    <3> QED BY <3>2, <3>3 DEF Fits
  <2> QED BY <2>1 DEF PlansFit
<1>6. PlansApart'
  <2> SUFFICES ASSUME NEW q \in Requests, NEW s \in Requests, q # s,
                      req'[q].pc \in {"tipping", "expiring"}, req'[s].pc \in {"tipping", "expiring"}
               PROVE  DOMAIN req'[q].plan \intersect DOMAIN req'[s].plan = {}
    BY DEF PlansApart, Writing
  <2>1. req'[q] = req[q] /\ req'[s] = req[s]
    BY <1>4
  <2> QED BY <2>1 DEF WalletInv, Plan, PlansApart, Writing
<1>7. TipPlans'
  <2> SUFFICES ASSUME NEW q \in Requests, req'[q].pc = "tipping"
               PROVE  /\ Pays(req'[q].plan) = req'[q].coins
                      /\ \A l \in DOMAIN req'[q].plan : lots'[l].acct = req'[q].acct
    BY DEF TipPlans, Pays
  <2>1. req'[q] = req[q] /\ Fits(req[q].plan)
    BY <1>4
  <2>2. /\ Pays(req[q].plan) = req[q].coins
        /\ \A l \in DOMAIN req[q].plan : lots[l].acct = req[q].acct
    BY <2>1 DEF WalletInv, Plan, TipPlans
  <2>3. \A l \in DOMAIN req[q].plan : lots'[l].acct = lots[l].acct
    BY <2>1 DEF Fits, Commits, LotsRemain
  <2> QED BY <2>1, <2>2, <2>3
<1>8. ExpirePlans'
  <2> SUFFICES ASSUME NEW q \in Requests, req'[q].pc = "expiring", NEW l \in DOMAIN req'[q].plan
               PROVE  req'[q].plan[l].biz = "expire"
    BY DEF ExpirePlans
  <2>1. req'[q] = req[q]
    BY <1>4
  <2> QED BY <2>1 DEF WalletInv, Plan, ExpirePlans
<1> QED BY <1>3, <1>5, <1>6, <1>7, <1>8 DEF Plan

\* What the plan for tip ref takes from lot l for tip t.
Paid(p, l, ref, t) == IF l \in DOMAIN p /\ p[l].biz = "tip" /\ ref = t THEN p[l].amount ELSE 0

\* What a commit of plan p for tip ref does to the sums of lot l for tip t.
SumsMove(p, l, ref, t) ==
    /\ lots'[l].remaining = Net(ledger'[l]) /\ lots'[l].remaining >= 0
    /\ Spent(ledger'[l], t) = Spent(ledger[l], t) + Paid(p, l, ref, t)
    /\ Received(ledger'[l], t) = Received(ledger[l], t)
    /\ \A i \in DOMAIN ledger'[l] : ledger'[l][i].ref <= Len(tips) \/ ledger'[l][i].ref = ref

LEMMA CommitSums ==
    ASSUME WalletInv, NEW r \in Requests, Writing(r), NEW ref \in Nat, Commits(r, ref),
           NEW l \in DOMAIN lots, NEW t, t # 0
    PROVE  SumsMove(req[r].plan, l, ref, t)
<1> USE DEF SumsMove
<1> DEFINE p == req[r].plan
           rows == ledger[l]
<1>1. p \in Plans /\ rows \in Seq(Rows) /\ l \in DOMAIN ledger
  BY ReqTyped, LedgerTyped DEF WalletInv, Typed
<1>2. lots[l].remaining = Net(rows) /\ lots[l].remaining >= 0 /\ lots[l].remaining \in Nat
  BY LotsTyped DEF WalletInv, Typed, Book, LedgerExplains
<1>3. \A i \in DOMAIN rows : rows[i].ref <= Len(tips)
  BY <1>1 DEF WalletInv, Book, RefsKnown
<1>4. Spent(rows, t) \in Int /\ Received(rows, t) \in Int /\ Net(rows) \in Int
  BY <1>1, SumsInt
<1>5. CASE l \notin DOMAIN p
  <2>1. lots'[l] = lots[l] /\ ledger'[l] = ledger[l]
    BY <1>5 DEF Commits
  <2>2. Paid(req[r].plan, l, ref, t) = 0
    BY <1>5 DEF Paid
  <2> HIDE DEF p
  <2> QED BY <1>2, <1>3, <1>4, <2>1, <2>2
<1>6. CASE l \in DOMAIN p
  <2> DEFINE row == BookedRow(p[l], ref)
  <2>1. p[l].amount \in Nat
    BY <1>1, <1>6, PlanTyped
  <2>2. /\ row \in Rows /\ row.amount = -p[l].amount /\ row.ref \in {0, ref}
        /\ SpentIn(row, t) = IF p[l].biz = "tip" /\ ref = t THEN p[l].amount ELSE 0
        /\ ReceivedIn(row, t) = 0
    BY <1>1, <1>6, BookedRowTyped
  <2>3. /\ lots'[l].remaining = lots[l].remaining - p[l].amount
        /\ lots'[l].remaining \in Nat
        /\ ledger'[l] = Append(rows, row)
    BY <1>6 DEF Commits
  <2> HIDE DEF row, rows, p
  <2>4. /\ Net(ledger'[l]) = row.amount + Net(rows)
        /\ Spent(ledger'[l], t) = SpentIn(row, t) + Spent(rows, t)
        /\ Received(ledger'[l], t) = ReceivedIn(row, t) + Received(rows, t)
    BY <1>1, <2>2, <2>3, SumsAppend
  <2>5. lots'[l].remaining = Net(ledger'[l]) /\ lots'[l].remaining >= 0
    BY <1>2, <1>4, <2>1, <2>2, <2>3, <2>4
  <2>6. /\ Received(ledger'[l], t) = Received(rows, t)
        /\ Spent(ledger'[l], t) = Spent(rows, t) + Paid(p, l, ref, t)
    <3>1. Received(ledger'[l], t) = Received(rows, t)
      BY <1>4, <2>2, <2>4
    <3>2. SpentIn(row, t) \in Int
      BY <2>1, <2>2
    <3>3. SpentIn(row, t) = Paid(p, l, ref, t)
      BY <1>6, <2>2 DEF Paid
    <3> QED BY <1>4, <2>4, <3>1, <3>2, <3>3
  <2>7. ASSUME NEW i \in DOMAIN ledger'[l]  PROVE ledger'[l][i].ref <= Len(tips) \/ ledger'[l][i].ref = ref
    <3>1. ledger'[l][i] = row \/ (i \in DOMAIN rows /\ ledger'[l][i] = rows[i])
      BY <1>1, <2>2, <2>3
    <3>2. 0 <= Len(tips)
      <4>1. Len(tips) \in Nat
        BY TipsTyped DEF WalletInv, Typed
      <4> QED BY <4>1
    <3> QED BY <1>3, <2>2, <3>1, <3>2
  <2> QED BY <1>6, <2>5, <2>6, <2>7 DEF rows, p
<1> QED BY <1>5, <1>6

LEMMA RefsAfterCommit ==
    ASSUME WalletInv, NEW r \in Requests, Writing(r), NEW ref \in Nat, Commits(r, ref),
           NEW l \in DOMAIN lots, NEW i \in DOMAIN ledger'[l]
    PROVE  ledger'[l][i].ref <= Len(tips) \/ ledger'[l][i].ref = ref
<1>1. PICK t : t = 1
  OBVIOUS
<1>2. t # 0
  BY <1>1
<1>3. \A j \in DOMAIN ledger'[l] : ledger'[l][j].ref <= Len(tips) \/ ledger'[l][j].ref = ref
  <2>1. SumsMove(req[r].plan, l, ref, t)
    BY <1>2, CommitSums, Zenon
  <2> QED BY <2>1, Zenon DEF SumsMove
<1> QED BY <1>3

LEMMA ThisTipMoves ==
    ASSUME WalletInv, NEW r \in Requests, Writing(r), NEW ref \in Nat, Commits(r, ref),
           NEW l \in DOMAIN lots, ref # 0
    PROVE  /\ Spent(ledger'[l], ref) = Spent(ledger[l], ref) + Paid(req[r].plan, l, ref, ref)
           /\ Received(ledger'[l], ref) = Received(ledger[l], ref)
<1>1. SumsMove(req[r].plan, l, ref, ref)
  BY CommitSums, Zenon
<1> QED BY <1>1, Zenon DEF SumsMove

LEMMA OtherTipsStay ==
    ASSUME WalletInv, NEW r \in Requests, Writing(r), NEW ref \in Nat, Commits(r, ref),
           NEW l \in DOMAIN lots, NEW t, t # 0, t # ref
    PROVE  /\ Spent(ledger'[l], t) = Spent(ledger[l], t)
           /\ Received(ledger'[l], t) = Received(ledger[l], t)
<1>1. Spent(ledger[l], t) \in Int
  BY LedgerTyped, SumsInt DEF WalletInv, Typed
<1>2. /\ Spent(ledger'[l], t) = Spent(ledger[l], t) + Paid(req[r].plan, l, ref, t)
      /\ Received(ledger'[l], t) = Received(ledger[l], t)
  <2>1. SumsMove(req[r].plan, l, ref, t)
    BY CommitSums, Zenon
  <2> QED BY <2>1, Zenon DEF SumsMove
<1>3. Paid(req[r].plan, l, ref, t) = 0
  BY DEF Paid
<1> QED BY <1>1, <1>2, <1>3

-----------------------------------------------------------------------------
LEMMA ExpireCommitKeeps ==
    ASSUME WalletInv, NEW r \in Requests, ExpireCommit(r)
    PROVE  WalletInv'
<1> DEFINE p == req[r].plan
<1>1. Typed /\ LotsOK /\ LedgerOK /\ TipsOK /\ ReqOK /\ p \in Plans
  BY ReqTyped DEF WalletInv, Typed
<1>2. Writing(r) /\ Fits(p)
  BY DEF ExpireCommit, Writing, WalletInv, Plan, PlansFit
<1>3. /\ lots' = Written(p) /\ ledger' = Booked(p, 0)
      /\ req' = [req EXCEPT ![r] = WalletIdle]
      /\ UNCHANGED <<now, tips, platform, daily, paid>>
  BY DEF ExpireCommit
<1>4. 0 \in Nat
  OBVIOUS
<1> HIDE DEF p
<1>5. /\ Written(p) \in Seq(Lots) /\ Len(Written(p)) = Len(lots)
      /\ Booked(p, 0) \in Seq(Seq(Rows)) /\ Len(Booked(p, 0)) = Len(lots)
      /\ \A l \in DOMAIN lots : Written(p)[l].acct = lots[l].acct
      /\ \A l \in DOMAIN lots \ DOMAIN p : Written(p)[l] = lots[l] /\ Booked(p, 0)[l] = ledger[l]
      /\ \A l \in DOMAIN p : /\ Written(p)[l].remaining = lots[l].remaining - p[l].amount
                             /\ Written(p)[l].remaining \in Nat
                             /\ Booked(p, 0)[l] = Append(ledger[l], BookedRow(p[l], 0))
  BY <1>1, <1>2, <1>4, WrittenFacts
<1>6. Moves(r) /\ req'[r].pc = "idle"
  BY <1>1, <1>3, GoesIdle
<1>7. LotsOK' /\ LedgerOK' /\ DOMAIN lots' = DOMAIN lots
  <2>1. LotsOK' /\ LedgerOK'
    BY <1>3, <1>5 DEF LotsOK, LedgerOK
  <2>2. DOMAIN lots' = 1..Len(lots) /\ DOMAIN lots = 1..Len(lots)
    <3>1. DOMAIN lots' = 1..Len(lots')
      BY <2>1, LotsTypedLater
    <3>2. Len(lots') = Len(lots)
      BY <1>3, <1>5
    <3> QED BY <1>1, <3>1, <3>2, LotsTyped
  <2> QED BY <2>1, <2>2
<1>8. Commits(r, 0)
  BY <1>3, <1>5, <1>6, <1>7 DEF Commits, LotsRemain, p
<1>9. Typed'
  BY <1>1, <1>3, <1>6, <1>7 DEF Typed, TipsOK, ReqOK, Moves
<1>10. Plan'
  BY <1>2, <1>8, CommitKeepsPlans
<1>11. DOMAIN ledger' = DOMAIN lots
  BY <1>7, LedgerTypedLater
<1>12. RefsKnown'
  <2> SUFFICES ASSUME NEW l \in DOMAIN ledger', NEW i \in DOMAIN ledger'[l]
               PROVE  ledger'[l][i].ref <= Len(tips)
    BY <1>3 DEF RefsKnown
  <2>1. l \in DOMAIN lots
    BY <1>11
  <2>2. ledger'[l][i].ref <= Len(tips) \/ ledger'[l][i].ref = 0
    BY <1>2, <1>4, <1>8, <2>1, RefsAfterCommit
  <2>3. Len(tips) \in Nat
    BY <1>1, TipsTyped
  <2> QED BY <2>2, <2>3
<1>13. LedgerExplains'
  <2> SUFFICES ASSUME NEW l \in DOMAIN lots'
               PROVE  lots'[l].remaining = Net(ledger'[l]) /\ lots'[l].remaining >= 0
    BY DEF LedgerExplains, Net
  <2>1. l \in DOMAIN lots
    BY <1>7
  <2>2. PICK t : t = 1
    OBVIOUS
  <2>3. t # 0
    BY <2>2
  <2>4. SumsMove(req[r].plan, l, 0, t)
    BY <1>2, <1>4, <1>8, <2>1, <2>3, CommitSums, Zenon
  <2> QED BY <2>4, Zenon DEF SumsMove
<1>14. TipBalances'
  <2>1. ASSUME NEW t \in DOMAIN tips  PROVE Balanced(t)'
    <3>1. Balanced(t)
      BY DEF WalletInv, Book, TipBalances, Balanced
    <3>2. tips'[t] = tips[t] /\ platform'[t] = platform[t]
      BY <1>3
    <3>3. t # 0
      BY <1>1, TipsTyped
    <3>4. ASSUME NEW l \in DOMAIN lots
          PROVE  /\ Spent(ledger'[l], t) = Spent(ledger[l], t)
                 /\ Received(ledger'[l], t) = Received(ledger[l], t)
      BY <1>2, <1>4, <1>8, <3>3, OtherTipsStay
    <3>5. LotsRemain
      BY <1>8 DEF Commits
    <3>6. \A l \in DOMAIN lots' \ DOMAIN lots : Spent(ledger'[l], t) = 0 /\ Received(ledger'[l], t) = 0
      BY <1>7
    <3> QED BY <1>1, <3>1, <3>2, <3>4, <3>5, <3>6, BalanceStays
  <2> QED BY <1>3, <2>1 DEF TipBalances, Balanced
<1>15. Once'
  <2>1. \A q \in Requests : req'[q].pc = "tipping" => req'[q] = req[q]
    BY <1>6 DEF Moves
  <2>2. TippersApart'
    BY <2>1 DEF WalletInv, Once, TippersApart
  <2>3. NoRecentTip'
    BY <1>3, <2>1 DEF WalletInv, Once, NoRecentTip
  <2>4. Debounced'
    BY <1>3 DEF WalletInv, Once, Debounced
  <2> QED BY <2>2, <2>3, <2>4 DEF Once
<1> QED BY <1>9, <1>10, <1>12, <1>13, <1>14, <1>15 DEF WalletInv, Book
-----------------------------------------------------------------------------
LEMMA SplitTipAddsUp ==
    ASSUME NEW c \in Nat
    PROVE  /\ SplitTip(c).received \in Nat /\ SplitTip(c).cut \in Int
           /\ SplitTip(c).received + SplitTip(c).cut = c
BY DEF SplitTip

\* What the commit of a tip leaves: z is its lot of the author, id its row.
TipDone(r, z, id) ==
    /\ Commits(r, id) /\ Writing(r) /\ req[r].pc = "tipping"
    /\ DOMAIN lots' = DOMAIN lots \union {z} /\ z \notin DOMAIN lots
    /\ lots'[z].remaining = SplitTip(req[r].coins).received
    /\ ledger'[z] = Grant(SplitTip(req[r].coins).received, id)
    /\ TipsOK' /\ id = Len(tips) + 1 /\ DOMAIN tips' = DOMAIN tips \union {id}
    /\ \A t \in DOMAIN tips : tips'[t] = tips[t] /\ platform'[t] = platform[t]
    /\ tips'[id] = [from |-> req[r].acct, video |-> req[r].video,
                    coins |-> req[r].coins, at |-> req[r].at]
    /\ platform'[id] = SplitTip(req[r].coins).cut

LEMMA TipCommitDoes ==
    ASSUME WalletInv, NEW r \in Requests, TipCommit(r)
    PROVE  TipDone(r, Len(lots) + 1, Len(tips) + 1)
<1> DEFINE q == req[r]
           p == q.plan
           id == Len(tips) + 1
           z == Len(lots) + 1
           got == SplitTip(q.coins).received
           cut == SplitTip(q.coins).cut
           lot == Lot(q.video, "tip_in", got)
           tip == [from |-> q.acct, video |-> q.video, coins |-> q.coins, at |-> q.at]
<1>1. Typed /\ LotsOK /\ LedgerOK /\ TipsOK /\ ReqOK /\ now \in Nat
      /\ p \in Plans /\ q.coins \in Nat /\ q.at \in Nat
  BY ReqTyped DEF WalletInv, Typed
<1>2. q.pc = "tipping" /\ Writing(r) /\ Fits(p) /\ q.acct \in Holders /\ q.video \in Holders
  BY DEF TipCommit, Writing, WalletInv, Plan, PlansFit, TipsNamed
<1>3. /\ lots' = Append(Written(p), lot)
      /\ ledger' = Append(Booked(p, id), Grant(got, id))
      /\ tips' = Append(tips, tip)
      /\ platform' = Append(platform, cut)
      /\ req' = [req EXCEPT ![r] = WalletIdle]
  BY DEF TipCommit
<1>4. got \in Nat /\ cut \in Int
  BY <1>1, SplitTipAddsUp
<1>5. Len(tips) \in Nat /\ id \in Nat /\ DOMAIN tips = 1..Len(tips)
  BY <1>1, TipsTyped
<1>6. lot \in Lots /\ lot.remaining = got
  BY <1>1, <1>2, <1>4, LotTyped
<1>7. Grant(got, id) \in Seq(Rows)
  BY <1>4, <1>5, GrantSums
<1>8. tip \in TipRows
  BY <1>1, <1>2 DEF TipRows
<1>9. Moves(r) /\ req'[r].pc = "idle"
  BY <1>1, <1>3, GoesIdle
<1>10. /\ TipsOK' /\ DOMAIN tips' = DOMAIN tips \union {id}
       /\ \A t \in DOMAIN tips : tips'[t] = tips[t] /\ platform'[t] = platform[t]
       /\ tips'[id] = tip /\ platform'[id] = cut
  <2> HIDE DEF tip, cut, got, q, lot, p
  <2>1. tips \in Seq(TipRows) /\ platform \in Seq(Int) /\ Len(platform) = Len(tips)
    BY <1>1 DEF TipsOK
  <2>2. /\ tips' \in Seq(TipRows) /\ Len(tips') = Len(tips) + 1
        /\ \A t \in 1..Len(tips) : tips'[t] = tips[t]
        /\ tips'[id] = tip
    BY <1>3, <1>8, <2>1, AppendFacts
  <2>3. /\ platform' \in Seq(Int) /\ Len(platform') = Len(tips) + 1
        /\ \A t \in 1..Len(tips) : platform'[t] = platform[t]
        /\ platform'[id] = cut
    BY <1>3, <1>4, <2>1, AppendFacts
  <2>4. DOMAIN tips' = 1..(Len(tips) + 1)
    BY <2>2
  <2>5. DOMAIN tips' = DOMAIN tips \union {id}
    BY <1>5, <2>4
  <2> QED BY <1>5, <2>2, <2>3, <2>5 DEF TipsOK
<1>11. /\ Written(p) \in Seq(Lots) /\ Len(Written(p)) = Len(lots)
       /\ Booked(p, id) \in Seq(Seq(Rows)) /\ Len(Booked(p, id)) = Len(lots)
       /\ \A l \in DOMAIN lots : Written(p)[l].acct = lots[l].acct
       /\ \A l \in DOMAIN lots \ DOMAIN p : Written(p)[l] = lots[l] /\ Booked(p, id)[l] = ledger[l]
       /\ \A l \in DOMAIN p : /\ Written(p)[l].remaining = lots[l].remaining - p[l].amount
                              /\ Written(p)[l].remaining \in Nat
                              /\ Booked(p, id)[l] = Append(ledger[l], BookedRow(p[l], id))
  <2> HIDE DEF p, id
  <2> QED BY <1>1, <1>2, <1>5, WrittenFacts
<1>12. /\ LotsOK' /\ LedgerOK' /\ z \notin DOMAIN lots
       /\ DOMAIN lots' = DOMAIN lots \union {z}
       /\ \A l \in DOMAIN lots : lots'[l] = Written(p)[l] /\ ledger'[l] = Booked(p, id)[l]
       /\ lots'[z] = lot /\ ledger'[z] = Grant(got, id)
  <2>1. PICK L \in Seq(Lots) : L = Written(p)
    BY <1>11
  <2>2. PICK B \in Seq(Seq(Rows)) : B = Booked(p, id)
    BY <1>11
  <2>3. PICK rows \in Seq(Rows) : rows = Grant(got, id)
    BY <1>7
  <2>4. PICK new \in Lots : new = lot
    BY <1>6
  <2> HIDE DEF lot, got, p, id, q
  <2>5. Len(L) = Len(lots) /\ Len(B) = Len(lots) /\ lots' = Append(L, new) /\ ledger' = Append(B, rows)
    BY <1>3, <1>11, <2>1, <2>2, <2>3, <2>4
  <2>6. /\ LotsOK' /\ LedgerOK' /\ z \notin DOMAIN lots
        /\ DOMAIN lots' = DOMAIN lots \union {z}
        /\ \A l \in DOMAIN lots : lots'[l] = L[l] /\ ledger'[l] = B[l]
        /\ lots'[z] = new /\ ledger'[z] = rows
    BY <1>1, <2>5, OneMoreLot
  <2> QED BY <2>1, <2>2, <2>3, <2>4, <2>6
<1>13. \A l \in DOMAIN p : l \in DOMAIN lots
  BY <1>2 DEF Fits
<1> HIDE DEF p, q, id, z, got, cut, lot, tip
<1>14. LotsRemain
  BY <1>11, <1>12 DEF LotsRemain
<1>15. /\ \A l \in DOMAIN lots \ DOMAIN p : lots'[l] = lots[l] /\ ledger'[l] = ledger[l]
       /\ \A l \in DOMAIN p :
            /\ lots'[l].remaining = lots[l].remaining - p[l].amount
            /\ lots'[l].remaining \in Nat
            /\ ledger'[l] = Append(ledger[l], BookedRow(p[l], id))
  BY <1>11, <1>12, <1>13
<1>16. Commits(r, id)
  BY <1>9, <1>14, <1>15 DEF Commits, p, q
<1>17. lots'[z].remaining = got
  BY <1>6, <1>12
<1> QED BY <1>2, <1>10, <1>12, <1>16, <1>17 DEF TipDone, id, z, got, cut, tip, q

\* The new tip is balanced by the lots of its plan and the lot of the author.
LEMMA NewTipBalances ==
    ASSUME WalletInv, NEW r \in Requests, NEW z, NEW id, TipDone(r, z, id)
    PROVE  Balanced(id)'
<1> DEFINE p == req[r].plan
           coins == req[r].coins
           got == SplitTip(coins).received
           cut == SplitTip(coins).cut
           U == DOMAIN lots'
           f == [l \in U |-> Spent(ledger'[l], id)]
           g == [l \in DOMAIN p |-> IF p[l].biz = "tip" THEN p[l].amount ELSE 0]
           h == [l \in U |-> Received(ledger'[l], id)]
           k == [l \in {z} |-> got]
<1>1. Typed /\ LotsOK /\ LedgerOK /\ TipsOK /\ ReqOK /\ p \in Plans /\ coins \in Nat
  BY ReqTyped DEF WalletInv, Typed
<1>2. /\ Commits(r, id) /\ Writing(r) /\ req[r].pc = "tipping"
      /\ U = DOMAIN lots \union {z} /\ z \notin DOMAIN lots
      /\ ledger'[z] = Grant(got, id)
      /\ id = Len(tips) + 1
      /\ tips'[id].from = req[r].acct /\ tips'[id].coins = coins
      /\ platform'[id] = cut
  BY DEF TipDone
<1>3. /\ Fits(p) /\ Pays(p) = coins /\ \A l \in DOMAIN p : lots[l].acct = req[r].acct
  BY <1>2 DEF WalletInv, Plan, PlansFit, TipPlans
<1>4. \A l \in DOMAIN p : l \in DOMAIN lots /\ p[l].amount \in Nat
  BY <1>1, <1>3, PlanTyped DEF Fits
<1>5. id \in Nat /\ id # 0
  BY <1>1, <1>2, TipsTyped
<1>6. got \in Nat /\ cut \in Int /\ got + cut = coins
  BY <1>1, SplitTipAddsUp
<1>7. ASSUME NEW l \in DOMAIN lots
      PROVE  Spent(ledger'[l], id) = Paid(p, l, id, id) /\ Received(ledger'[l], id) = 0
  <2>1. ledger[l] \in Seq(Rows) /\ l \in DOMAIN ledger
    BY <1>1, LedgerTyped
  <2>2. \A i \in DOMAIN ledger[l] : ledger[l][i].ref # id
    <3>1. \A i \in DOMAIN ledger[l] : ledger[l][i].ref <= Len(tips)
      BY <2>1 DEF WalletInv, Book, RefsKnown
    <3>2. Len(tips) \in Nat
      BY <1>1, TipsTyped
    <3> QED BY <1>2, <3>1, <3>2
  <2>3. Spent(ledger[l], id) = 0 /\ Received(ledger[l], id) = 0
    BY <2>1, <2>2, NoRowsNoCoins
  <2>4. /\ Spent(ledger'[l], id) = Spent(ledger[l], id) + Paid(p, l, id, id)
        /\ Received(ledger'[l], id) = Received(ledger[l], id)
    BY <1>2, <1>5, ThisTipMoves
  <2>5. Paid(p, l, id, id) \in Int
    BY <1>4 DEF Paid
  <2> HIDE DEF p
  <2> QED BY <2>3, <2>4, <2>5
<1>8. Spent(ledger'[z], id) = 0 /\ Received(ledger'[z], id) = got
  <2> HIDE DEF got
  <2>1. Spent(Grant(got, id), id) = 0 /\ Received(Grant(got, id), id) = IF id = id THEN got ELSE 0
    BY <1>5, <1>6, GrantSums
  <2> QED BY <1>2, <2>1
<1>9. IsFiniteSet(U) /\ DOMAIN p \in SUBSET U /\ z \in U
  <2>1. LotsOK'
    BY <1>2 DEF Commits, LotsRemain
  <2> QED BY <1>2, <1>4, <2>1, LotsTypedLater
<1>10. DOMAIN f = U /\ DOMAIN g = DOMAIN p /\ DOMAIN h = U /\ DOMAIN k = {z}
  OBVIOUS
<1>11. \A l \in DOMAIN p : g[l] = Paid(p, l, id, id) /\ g[l] \in Int
  BY <1>4 DEF Paid
<1>12. \A l \in DOMAIN lots \ DOMAIN p : Paid(p, l, id, id) = 0
  BY DEF Paid
<1>13. /\ \A l \in U : f[l] = Spent(ledger'[l], id) /\ h[l] = Received(ledger'[l], id)
       /\ k[z] = got /\ Pays(p) = SumFunction(g)
  BY DEF Pays
<1>14. tips'[id].coins = SumFunction(f)
  <2>1. \A l \in DOMAIN p : g[l] = f[l] /\ f[l] \in Int
    BY <1>4, <1>7, <1>9, <1>11, <1>13
  <2>2. \A l \in U \ DOMAIN p : f[l] = 0
    <3> SUFFICES ASSUME NEW l \in U \ DOMAIN p  PROVE f[l] = 0
      OBVIOUS
    <3>1. f[l] = Spent(ledger'[l], id) /\ (l = z \/ l \in DOMAIN lots)
      BY <1>2, <1>13
    <3>2. CASE l = z
      BY <1>8, <3>1, <3>2
    <3>3. CASE l \in DOMAIN lots
      BY <1>7, <1>12, <3>1, <3>3
    <3> QED BY <3>1, <3>2, <3>3
  <2> HIDE DEF f, g, U, p, coins
  <2>3. SumFunction(f) = SumFunction(g)
    BY <1>9, <1>10, <2>1, <2>2, SumPart
  <2> QED BY <1>2, <1>3, <1>13, <2>3
<1>15. tips'[id].coins = platform'[id] + SumFunction(h)
  <2>1. \A l \in {z} : k[l] = h[l] /\ h[l] \in Int
    BY <1>6, <1>8, <1>9, <1>13
  <2>2. \A l \in U \ {z} : h[l] = 0
    BY <1>2, <1>7, <1>13
  <2>3. {z} \in SUBSET U /\ k[z] \in Int
    BY <1>6, <1>9
  <2> HIDE DEF h, k, U, p, coins, got, cut
  <2>4. SumFunction(h) = SumFunction(k)
    BY <1>9, <1>10, <2>1, <2>2, <2>3, SumPart
  <2>5. SumFunction(k) = got
    <3>1. SumFunction(k) = k[z]
      BY <1>10, <2>3, SumOneRow
    <3> QED BY <1>13, <3>1
  <2> QED BY <1>2, <1>6, <2>4, <2>5
<1>16. ASSUME NEW l \in U, Spent(ledger'[l], id) > 0  PROVE lots'[l].acct = tips'[id].from
  <2>1. l # z
    BY <1>8, <1>16
  <2>2. l \in DOMAIN lots
    BY <1>2, <2>1
  <2>3. l \in DOMAIN p
    <3>1. CASE l \notin DOMAIN p
      <4>1. Spent(ledger'[l], id) = 0
        BY <1>7, <1>12, <2>2, <3>1
      <4> QED BY <1>16, <4>1
    <3> QED BY <3>1
  <2>4. lots'[l].acct = lots[l].acct
    BY <1>2, <2>2 DEF Commits, LotsRemain
  <2> QED BY <1>2, <1>3, <2>3, <2>4
<1> QED BY <1>14, <1>15, <1>16 DEF Balanced

LEMMA TipsTypedLater ==
    ASSUME TipsOK'
    PROVE  DOMAIN tips' = 1..Len(tips') /\ Len(tips') \in Nat
BY DEF TipsOK

LEMMA TipCommitKeeps ==
    ASSUME WalletInv, NEW r \in Requests, TipCommit(r)
    PROVE  WalletInv'
<1>0. PICK id, z : id = Len(tips) + 1 /\ z = Len(lots) + 1
  OBVIOUS
<1>1. Typed /\ LotsOK /\ LedgerOK /\ TipsOK /\ ReqOK
  BY DEF WalletInv, Typed
<1>2. TipDone(r, z, id)
  BY <1>0, TipCommitDoes
<1>3. UNCHANGED <<now, daily, paid>>
  BY DEF TipCommit
<1>4. id \in Nat /\ Len(tips) \in Nat /\ DOMAIN tips = 1..Len(tips) /\ \A t \in DOMAIN tips : t # 0 /\ t # id
  BY <1>0, <1>1, TipsTyped
<1>5. id = Len(tips) + 1
  BY <1>0
<1>6. /\ Commits(r, id) /\ Writing(r) /\ req[r].pc = "tipping" /\ LotsRemain /\ Moves(r)
      /\ req'[r].pc = "idle" /\ LotsOK' /\ LedgerOK' /\ TipsOK'
  BY <1>2 DEF TipDone, Commits, LotsRemain
<1>7. /\ DOMAIN lots' = DOMAIN lots \union {z} /\ z \notin DOMAIN lots
      /\ lots'[z].remaining = SplitTip(req[r].coins).received
      /\ ledger'[z] = Grant(SplitTip(req[r].coins).received, id)
      /\ DOMAIN tips' = DOMAIN tips \union {id}
      /\ \A t \in DOMAIN tips : tips'[t] = tips[t] /\ platform'[t] = platform[t]
      /\ tips'[id].from = req[r].acct /\ tips'[id].video = req[r].video /\ tips'[id].at = req[r].at
  BY <1>2 DEF TipDone
<1>8. Len(tips') = id
  <2>1. DOMAIN tips' = 1..Len(tips') /\ Len(tips') \in Nat
    BY <1>6, TipsTypedLater
  <2>2. \A t : t \in 1..Len(tips') <=> t \in 1..Len(tips) \/ t = id
    BY <1>4, <1>7, <2>1
  <2>3. id \in 1..Len(tips') /\ ~ (id + 1 \in 1..Len(tips'))
    BY <1>4, <1>5, <2>2
  <2>4. PICK n \in Nat : n = Len(tips')
    BY <2>1
  <2> QED BY <1>4, <2>3, <2>4
<1>9. SplitTip(req[r].coins).received \in Nat
  BY <1>1, ReqTyped, SplitTipAddsUp
<1>10. Typed'
  BY <1>1, <1>3, <1>6 DEF Typed, ReqOK, Moves
<1>11. Plan'
  BY <1>6, CommitKeepsPlans
<1>12. DOMAIN ledger' = DOMAIN lots'
  BY <1>6, LedgerTypedLater
<1>13. RefsKnown'
  <2> SUFFICES ASSUME NEW l \in DOMAIN ledger', NEW i \in DOMAIN ledger'[l]
               PROVE  ledger'[l][i].ref <= id
    BY <1>8 DEF RefsKnown
  <2>1. CASE l = z
    <3>1. ledger'[l][i].ref = id
      BY <1>4, <1>7, <1>9, <2>1, GrantRefs
    <3> QED BY <1>4, <3>1
  <2>2. CASE l \in DOMAIN lots
    <3>1. ledger'[l][i].ref <= Len(tips) \/ ledger'[l][i].ref = id
      BY <1>4, <1>6, <2>2, RefsAfterCommit
    <3>2. ledger'[l][i].ref \in Nat
      <4>1. ledger'[l] \in Seq(Rows)
        BY <1>6, <1>12, LedgerTypedLater
      <4>2. ledger'[l][i] \in Rows
        BY <4>1
      <4> QED BY <4>2 DEF Rows
    <3> QED BY <1>4, <1>5, <3>1, <3>2
  <2> QED BY <1>7, <1>12, <2>1, <2>2
<1>14. LedgerExplains'
  <2> SUFFICES ASSUME NEW l \in DOMAIN lots'
               PROVE  lots'[l].remaining = Net(ledger'[l]) /\ lots'[l].remaining >= 0
    BY DEF LedgerExplains, Net
  <2>1. CASE l = z
    <3>1. Net(ledger'[l]) = SplitTip(req[r].coins).received
      BY <1>4, <1>7, <1>9, <2>1, GrantRefs
    <3> QED BY <1>7, <1>9, <2>1, <3>1
  <2>2. CASE l \in DOMAIN lots
    <3>1. PICK t : t = 1
      OBVIOUS
    <3>2. t # 0
      BY <3>1
    <3>3. SumsMove(req[r].plan, l, id, t)
      BY <1>4, <1>6, <2>2, <3>2, CommitSums, Zenon
    <3> QED BY <3>3, Zenon DEF SumsMove
  <2> QED BY <1>7, <2>1, <2>2
<1>15. TipBalances'
  <2>1. Balanced(id)'
    BY <1>2, NewTipBalances
  <2>2. ASSUME NEW t \in DOMAIN tips  PROVE Balanced(t)'
    <3>1. Balanced(t)
      BY DEF WalletInv, Book, TipBalances, Balanced
    <3>2. tips'[t] = tips[t] /\ platform'[t] = platform[t] /\ t # 0 /\ t # id
      BY <1>4, <1>7
    <3>3. \A l \in DOMAIN lots : /\ Spent(ledger'[l], t) = Spent(ledger[l], t)
                                 /\ Received(ledger'[l], t) = Received(ledger[l], t)
      BY <1>4, <1>6, <3>2, OtherTipsStay
    <3>4. Spent(ledger'[z], t) = 0 /\ Received(ledger'[z], t) = 0
      <4>1. PICK c \in Nat : ledger'[z] = Grant(c, id)
        BY <1>7, <1>9
      <4>2. Spent(Grant(c, id), t) = 0 /\ Received(Grant(c, id), t) = 0
        BY <1>4, <3>2, GrantIsNoTip
      <4> QED BY <4>1, <4>2
    <3>5. \A l \in DOMAIN lots' \ DOMAIN lots : l = z
      BY <1>7
    <3>6. \A l \in DOMAIN lots' \ DOMAIN lots : Spent(ledger'[l], t) = 0 /\ Received(ledger'[l], t) = 0
      BY <3>4, <3>5
    <3> QED BY <1>1, <1>6, <3>1, <3>2, <3>3, <3>6, BalanceStays
  <2> QED BY <1>7, <2>1, <2>2 DEF TipBalances, Balanced
<1>16. ASSUME NEW i \in DOMAIN tips, tips[i].from = req[r].acct, tips[i].video = req[r].video
       PROVE  req[r].at - tips[i].at >= TipDebounce
  BY <1>6, <1>16 DEF WalletInv, Once, NoRecentTip
<1>17. Once'
  <2>1. \A q \in Requests : req'[q].pc = "tipping" =>
           q # r /\ req'[q] = req[q] /\ req[q].acct # req[r].acct
    BY <1>6 DEF Moves, WalletInv, Once, TippersApart
  <2>2. TippersApart'
    BY <2>1 DEF WalletInv, Once, TippersApart
  <2>3. NoRecentTip'
    <3> SUFFICES ASSUME NEW q \in Requests, req'[q].pc = "tipping", NEW i \in DOMAIN tips',
                        tips'[i].from = req'[q].acct, tips'[i].video = req'[q].video
                 PROVE  req'[q].at - tips'[i].at >= TipDebounce
      BY DEF NoRecentTip
    <3>1. i \in DOMAIN tips
      BY <1>7, <2>1
    <3> QED BY <1>7, <2>1, <3>1 DEF WalletInv, Once, NoRecentTip
  <2>4. Debounced'
    <3> SUFFICES ASSUME NEW i \in DOMAIN tips', NEW j \in DOMAIN tips', i < j,
                        tips'[i].from = tips'[j].from, tips'[i].video = tips'[j].video
                 PROVE  tips'[j].at - tips'[i].at >= TipDebounce
      BY DEF Debounced
    <3>1. i \in DOMAIN tips
      BY <1>4, <1>5, <1>7
    <3>2. CASE j = id
      BY <1>7, <1>16, <3>1, <3>2
    <3>3. CASE j \in DOMAIN tips
      BY <1>7, <3>1, <3>3 DEF WalletInv, Once, Debounced
    <3> QED BY <1>7, <3>2, <3>3
  <2> QED BY <2>2, <2>3, <2>4 DEF Once
<1> QED BY <1>10, <1>11, <1>13, <1>14, <1>15, <1>17 DEF WalletInv, Book
-----------------------------------------------------------------------------
LEMMA GrantsKeep ==
    ASSUME WalletInv, NEW a \in Holders
    PROVE  /\ GrantRegisterGift(a) => WalletInv'
           /\ \A action \in {"checkin", "lottery"}, prize \in Prizes :
                Claim(a, action, prize) => WalletInv'
<1>1. Typed /\ paid \subseteq Recharges /\ \A c \in Prizes : c \in Nat
  BY WalletAssumption DEF WalletInv, Typed, WalletAssumption
<1>2. ASSUME GrantRegisterGift(a)  PROVE WalletInv'
  <2>1. GrantTx(a, "register", 10) /\ UNCHANGED <<now, tips, platform, daily, paid, req>>
    BY <1>2 DEF GrantRegisterGift
  <2>2. Granted
    BY <1>1, <2>1, GrantTxGrants
  <2> QED BY <1>1, <2>1, <2>2, GrantedKeeps
<1>3. ASSUME NEW action \in {"checkin", "lottery"}, NEW prize \in Prizes, Claim(a, action, prize)
      PROVE  WalletInv'
  <2>1. UNCHANGED <<now, tips, platform, paid, req>>
    BY <1>3 DEF Claim
  <2>2. CASE prize > 0
    <3>1. GrantTx(a, action, prize)
      BY <1>3, <2>2 DEF Claim
    <3>2. Granted
      BY <1>1, <3>1, GrantTxGrants
    <3> QED BY <1>1, <2>1, <3>2, GrantedKeeps
  <2>3. CASE ~ (prize > 0)
    <3>1. UNCHANGED <<lots, ledger>>
      BY <1>3, <2>3 DEF Claim
    <3>2. Granted
      <4>1. LotsOK' /\ LedgerOK'
        BY <1>1, <3>1 DEF Typed, LotsOK, LedgerOK
      <4> QED BY <3>1, <4>1 DEF Granted, LotsRemain
    <3> QED BY <1>1, <2>1, <3>2, GrantedKeeps
  <2> QED BY <2>2, <2>3
<1> QED BY <1>2, <1>3

LEMMA StartsKeep ==
    ASSUME WalletInv, NEW r \in Requests
    PROVE  /\ \A a \in Holders, v \in Holders, c \in TipAmounts : TipStart(r, a, v, c) => WalletInv'
           /\ \A a \in Holders : ExpireStart(r, "summary", a) => WalletInv'
           /\ ExpireStart(r, "sweep", Nobody) => WalletInv'
           /\ Rollback(r) => WalletInv'
<1>1. ReqOK /\ now \in Nat /\ paid \subseteq Recharges /\ \A c \in TipAmounts : c \in Nat
  BY WalletAssumption DEF WalletInv, Typed, WalletAssumption
<1>2. NoPlan \in Plans
  <2>1. NoPlan \in [{} -> Writes]
    BY DEF NoPlan
  <2> QED BY <2>1, MakePlan
<1>3. ASSUME NEW a \in Holders, NEW v \in Holders, NEW c \in TipAmounts, TipStart(r, a, v, c)
      PROVE  WalletInv'
  <2> DEFINE new == [WalletIdle EXCEPT !.pc = "tip", !.acct = a, !.video = v, !.coins = c, !.at = now]
  <2>1. new \in Reqs /\ new.pc = "tip" /\ new.acct = a /\ new.video = v
    BY <1>1, <1>2 DEF WalletIdle, Reqs
  <2>2. req' = [req EXCEPT ![r] = new] /\ CoinsStay /\ UNCHANGED <<now, paid>>
    BY <1>3 DEF TipStart, CoinsStay
  <2> HIDE DEF new
  <2>3. Moves(r) /\ req'[r] = new
    BY <1>1, <2>1, <2>2 DEF Moves, ReqOK
  <2>4. req'[r].pc \notin {"tipping", "expiring"} /\ req'[r].acct \in Holders /\ req'[r].video \in Holders
    BY <2>1, <2>3
  <2> QED BY <1>1, <2>2, <2>3, <2>4, HoldsNothing
<1>4. ASSUME NEW pc \in {"summary", "sweep"}, NEW a \in Holders \union {Nobody}, ExpireStart(r, pc, a)
      PROVE  WalletInv'
  <2> DEFINE new == [WalletIdle EXCEPT !.pc = pc, !.acct = a, !.at = now]
  <2>1. new \in Reqs /\ new.pc = pc
    BY <1>1, <1>2 DEF WalletIdle, Reqs
  <2>2. req' = [req EXCEPT ![r] = new] /\ CoinsStay /\ UNCHANGED <<now, paid>>
    BY <1>4 DEF ExpireStart, CoinsStay
  <2> HIDE DEF new
  <2>3. Moves(r) /\ req'[r] = new
    BY <1>1, <2>1, <2>2 DEF Moves, ReqOK
  <2>4. req'[r].pc \notin {"tip", "tipping", "expiring"}
    BY <2>1, <2>3
  <2> QED BY <1>1, <2>2, <2>3, <2>4, HoldsNothing
<1>5. ASSUME Rollback(r)  PROVE WalletInv'
  <2>1. req' = [req EXCEPT ![r] = WalletIdle] /\ CoinsStay /\ UNCHANGED <<now, paid>>
    BY <1>5 DEF Rollback, CoinsStay
  <2>2. Moves(r) /\ req'[r].pc = "idle"
    BY <1>1, <2>1, GoesIdle
  <2> QED BY <1>1, <2>1, <2>2, HoldsNothing
<1> QED BY <1>3, <1>4, <1>5

\* Every step keeps the invariant.
THEOREM WalletSteps == WalletInv /\ [WalletNext]_walletVars => WalletInv'
<1> SUFFICES ASSUME WalletInv, [WalletNext]_walletVars  PROVE WalletInv'
  OBVIOUS
<1>1. CASE UNCHANGED walletVars
  <2>1. /\ now' = now /\ lots' = lots /\ ledger' = ledger /\ tips' = tips
        /\ platform' = platform /\ daily' = daily /\ paid' = paid /\ req' = req
    BY <1>1 DEF walletVars
  <2>2. Typed'
    BY <2>1 DEF WalletInv, Typed, LotsOK, LedgerOK, TipsOK, ReqOK
  <2>3. Plan'
    BY <2>1 DEF WalletInv, Plan, TipsNamed, PlansFit, Fits, Writing, PlansApart, TipPlans, Pays, ExpirePlans
  <2>4. Book'
    BY <2>1 DEF WalletInv, Book, RefsKnown, LedgerExplains, TipBalances
  <2>5. Once'
    BY <2>1 DEF WalletInv, Once, TippersApart, NoRecentTip, Debounced, Writing
  <2> QED BY <2>2, <2>3, <2>4, <2>5 DEF WalletInv
<1>2. ASSUME NEW a \in Holders, GrantRegisterGift(a)  PROVE WalletInv'
  BY <1>2, GrantsKeep
<1>3. ASSUME NEW a \in Holders, NEW action \in {"checkin", "lottery"}, NEW prize \in Prizes,
             Claim(a, action, prize)
      PROVE  WalletInv'
  BY <1>3, GrantsKeep
<1>4. ASSUME NEW r \in Requests, NEW a \in Holders, NEW v \in Holders, NEW c \in TipAmounts,
             TipStart(r, a, v, c)
      PROVE  WalletInv'
  BY <1>4, StartsKeep
<1>5. ASSUME NEW r \in Requests, NEW a \in Holders, ExpireStart(r, "summary", a)  PROVE WalletInv'
  BY <1>5, StartsKeep
<1>6. ASSUME NEW o \in paid, GrantRecharge(o)  PROVE WalletInv'
  <2>1. Granted
    BY <1>6, GrantRechargeGrants DEF WalletInv
  <2>2. UNCHANGED <<tips, platform, req, now>> /\ paid' \subseteq Recharges
    BY <1>6 DEF GrantRecharge, WalletInv, Typed
  <2> QED BY <2>1, <2>2, GrantedKeeps
<1>7. ASSUME NEW r \in Requests, ExpireStart(r, "sweep", Nobody)  PROVE WalletInv'
  BY <1>7, StartsKeep
<1>8. ASSUME NEW r \in Requests, TipLock(r)  PROVE WalletInv'
  BY <1>8, TipLockKeeps
<1>9. ASSUME NEW r \in Requests, ExpireLock(r)  PROVE WalletInv'
  BY <1>9, ExpireLockKeeps
<1>10. ASSUME NEW r \in Requests, TipCommit(r)  PROVE WalletInv'
  BY <1>10, TipCommitKeeps
<1>11. ASSUME NEW r \in Requests, ExpireCommit(r)  PROVE WalletInv'
  BY <1>11, ExpireCommitKeeps
<1>12. ASSUME NEW r \in Requests, Rollback(r)  PROVE WalletInv'
  BY <1>12, StartsKeep
<1>13. CASE Tick
  <2>1. CoinsStay /\ UNCHANGED <<daily, paid, req>> /\ now' = now + 1
    BY <1>13 DEF Tick, CoinsStay
  <2>2. Typed'
    BY <2>1 DEF WalletInv, Typed, CoinsStay, LotsOK, LedgerOK, TipsOK, ReqOK
  <2>3. Plan'
    BY <2>1 DEF WalletInv, Plan, TipsNamed, PlansFit, Fits, Writing, PlansApart, TipPlans, Pays,
       ExpirePlans, CoinsStay
  <2>4. Book'
    BY <2>1, BookStays DEF WalletInv
  <2>5. Once'
    BY <2>1 DEF WalletInv, Once, TippersApart, NoRecentTip, Debounced, CoinsStay
  <2> QED BY <2>2, <2>3, <2>4, <2>5 DEF WalletInv
<1> QED
  BY <1>1, <1>2, <1>3, <1>4, <1>5, <1>6, <1>7, <1>8, <1>9, <1>10, <1>11, <1>12, <1>13
  DEF WalletNext

\* Locks, plans and books fit together in every reachable state.
THEOREM WalletInvariant == WalletSafety => []WalletInv
BY WalletStarts, WalletSteps, PTL DEF WalletSafety

\* Whatever tips, summaries, sweeps, grants and rollbacks run at the same
\* time, what remains of every lot is the sum of its ledger rows, and never
\* less than nothing.
THEOREM LotsExplained == WalletSafety => []LedgerExplains
<1>1. WalletInv => LedgerExplains
  BY DEF WalletInv, Book
<1> QED BY <1>1, WalletInvariant, PTL

\* Every tip takes from the tipper's lots exactly what its author and the
\* platform get.
THEOREM TipsBalance == WalletSafety => []TipBalances
<1>1. WalletInv => TipBalances
  BY DEF WalletInv, Book
<1> QED BY <1>1, WalletInvariant, PTL

\* Two tips of a viewer for one video are ten seconds apart.
THEOREM TipsDebounced == WalletSafety => []Debounced
<1>1. WalletInv => Debounced
  BY DEF WalletInv, Once
<1> QED BY <1>1, WalletInvariant, PTL
=============================================================================
