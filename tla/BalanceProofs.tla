---------------------------- MODULE BalanceProofs ----------------------------
(***************************************************************************)
(* Facts about natural numbers, division and sums over finite sets, and    *)
(* lemmas about the operators under the ledger, for every ONE: what the    *)
(* truncating arithmetic guarantees; that interest never makes a number    *)
(* negative, never lowers a share value and touches no share total; that   *)
(* each operation on a balance and its bank keeps the pair well-formed and *)
(* never gives the balance a share, or an emission, that the bank does not *)
(* account for; and what that means for all the balances of a bank.        *)
(***************************************************************************)
EXTENDS Balance, FiniteSets, Functions, FiniteSetTheorems, WellFoundedInduction, TLAPS

-----------------------------------------------------------------------------
(* Induction: every non-empty set of naturals has a least element.         *)

LEMMA LeastNatural ==
  ASSUME NEW T, T \subseteq Nat, T # {}
  PROVE  \E x \in T : \A y \in T : ~(y < x)
<1> DEFINE R == OpToRel(<, Nat)
<1>1. IsWellFoundedOn(R, Nat)  BY Zenon, NatLessThanWellFounded
<1>2. \E x \in T : \A y \in T : ~(<<y, x>> \in R)
  <2> HIDE DEF R
  <2> QED BY Zenon, <1>1, WFMin
<1>3. \A x, y \in Nat : (<<y, x>> \in R) <=> (y < x)  BY DEF OpToRel
<1> QED BY Zenon, <1>2, <1>3

\* Among the subsets of a finite set that belong to a collection there is a
\* smallest one: induction over the subsets of a finite set.
LEMMA SmallestSubset ==
  ASSUME NEW S, IsFiniteSet(S), NEW Bad \in SUBSET SUBSET S, Bad # {}
  PROVE  \E s \in Bad : \A t \in Bad : ~(Cardinality(t) < Cardinality(s))
<1> DEFINE T == {Cardinality(s) : s \in Bad}
<1>1. \A s \in Bad : Cardinality(s) \in Nat  BY FS_Subset, FS_CardinalityType
<1>2. T \subseteq Nat /\ T # {}  BY <1>1
<1>3. PICK n \in T : \A m \in T : ~(m < n)
  <2> HIDE DEF T
  <2> QED BY Zenon, <1>2, LeastNatural
<1> QED BY <1>3

\* Taking an element away makes a finite set smaller.
LEMMA RemoveSmaller ==
  ASSUME NEW S, IsFiniteSet(S), NEW s \in SUBSET S, NEW x \in s
  PROVE  /\ s \ {x} \in SUBSET S
         /\ IsFiniteSet(s)
         /\ Cardinality(s) \in Nat /\ Cardinality(s \ {x}) \in Nat
         /\ Cardinality(s \ {x}) = Cardinality(s) - 1
         /\ Cardinality(s \ {x}) < Cardinality(s)
<1>1. IsFiniteSet(s)  BY FS_Subset
<1>2. IsFiniteSet(s \ {x}) /\ Cardinality(s \ {x}) = Cardinality(s) - 1  BY <1>1, FS_RemoveElement
<1>3. Cardinality(s) \in Nat /\ Cardinality(s \ {x}) \in Nat  BY <1>1, <1>2, FS_CardinalityType
<1> QED BY <1>1, <1>2, <1>3

-----------------------------------------------------------------------------
(* Truncating division.                                                    *)

\* The defining bounds of truncation.
LEMMA DivBounds ==
  ASSUME NEW a \in Nat, NEW b \in Nat \ {0}
  PROVE  /\ a \div b \in Nat
         /\ b * (a \div b) <= a
         /\ a < b * (a \div b) + b
OBVIOUS

\* A number whose b-fold is at most a is at most the quotient.
LEMMA DivGreatest ==
  ASSUME NEW a \in Nat, NEW b \in Nat \ {0}, NEW q \in Nat, b * q <= a
  PROVE  q <= a \div b
<1> DEFINE d == a \div b
<1>1. d \in Nat /\ a < b * d + b  BY DivBounds
<1>2. SUFFICES ASSUME q >= d + 1 PROVE FALSE  BY <1>1
<1>3. b * q >= b * (d + 1)
  <2>1. PICK r \in Nat : q = (d + 1) + r
    <3>1. q - (d + 1) \in Nat /\ q = (d + 1) + (q - (d + 1))  BY <1>1, <1>2
    <3> QED BY <3>1
  <2>2. b * q = b * (d + 1) + b * r  BY <2>1, <1>1
  <2>3. b * r >= 0  OBVIOUS
  <2> QED BY <2>2, <2>3, <1>1
<1>4. b * (d + 1) = b * d + b  BY <1>1
<1> QED BY <1>1, <1>3, <1>4

\* A number whose b-fold is at least a is at least the quotient.
LEMMA DivLeast ==
  ASSUME NEW a \in Nat, NEW b \in Nat \ {0}, NEW q \in Nat, a <= b * q
  PROVE  a \div b <= q
<1> DEFINE d == a \div b
<1>1. d \in Nat /\ b * d <= a  BY DivBounds
<1>2. SUFFICES ASSUME d >= q + 1 PROVE FALSE  BY <1>1
<1>3. PICK r \in Nat : d = (q + 1) + r
  <2>1. d - (q + 1) \in Nat /\ d = (q + 1) + (d - (q + 1))  BY <1>1, <1>2
  <2> QED BY <2>1
<1> HIDE DEF d
<1>4. b * d = b * q + b + b * r  BY <1>3
<1>5. b * r >= 0 /\ b * q \in Nat /\ b * d \in Nat /\ b * r \in Nat  BY <1>1
<1> QED BY <1>1, <1>4, <1>5

\* Division keeps order.
LEMMA QuotientOrder ==
  ASSUME NEW a \in Nat, NEW c \in Nat, NEW b \in Nat \ {0}, a <= c
  PROVE  a \div b <= c \div b
<1> DEFINE d == a \div b
<1>1. d \in Nat /\ b * d <= a  BY DivBounds
<1>2. b * d \in Nat  BY <1>1
<1> HIDE DEF d
<1>3. b * d <= c  BY <1>1, <1>2
<1>4. d <= c \div b  BY <1>1, <1>3, DivGreatest
<1> QED BY <1>4 DEF d

\* The quotients of two parts are together at most the quotient of the whole.
LEMMA QuotientParts ==
  ASSUME NEW a \in Nat, NEW c \in Nat, NEW b \in Nat \ {0}
  PROVE  (a \div b) + (c \div b) <= (a + c) \div b
<1> DEFINE d == a \div b
           e == c \div b
<1>1. d \in Nat /\ b * d <= a /\ e \in Nat /\ b * e <= c  BY DivBounds
<1> HIDE DEF d, e
<1>2. b * (d + e) = b * d + b * e /\ b * d \in Nat /\ b * e \in Nat /\ d + e \in Nat  BY <1>1
<1>3. b * (d + e) <= a + c /\ a + c \in Nat  BY <1>1, <1>2
<1>4. d + e <= (a + c) \div b  BY <1>2, <1>3, DivGreatest
<1> QED BY <1>4 DEF d, e

\* The product under checked_mul: of natural numbers, a natural number.
LEMMA NatProduct ==
  ASSUME NEW x \in Nat, NEW y \in Nat
  PROVE  x * y \in Nat
OBVIOUS

\* Products keep the order of naturals.
LEMMA ProductOrder ==
  ASSUME NEW x \in Nat, NEW y \in Nat, NEW z \in Nat, x <= y
  PROVE  x * z <= y * z
<1>1. PICK r \in Nat : y = x + r
  <2>1. y - x \in Nat /\ y = x + (y - x)  OBVIOUS
  <2> QED BY <2>1
<1>2. y * z = x * z + r * z  BY <1>1
<1>3. r * z \in Nat /\ x * z \in Nat  BY NatProduct
<1> QED BY <1>2, <1>3

-----------------------------------------------------------------------------
(* Sums: SumFunction of module Functions adds the values of a function in   *)
(* an unspecified order.                                                    *)

\* c[s] is the sum of f over s, whatever element of s comes first.
IsSum(c, f, S) ==
  /\ c \in [SUBSET S -> Int]
  /\ c[{}] = 0
  /\ \A s \in SUBSET S : \A x \in s : c[s] = f[x] + c[s \ {x}]

\* The element that the fold takes first.
First(s) == CHOOSE x \in s : TRUE
Recurrence(c, f, S) ==
  c = [s \in SUBSET S |-> IF s = {} THEN 0 ELSE f[First(s)] + c[s \ {First(s)}]]

\* The fold's recursion has a solution.
LEMMA RecurrenceHasSolution ==
  ASSUME NEW S, IsFiniteSet(S), NEW f \in [S -> Int]
  PROVE  \E c : Recurrence(c, f, S)
<1> DEFINE Solves(c, n) == \A s \in SUBSET S : Cardinality(s) <= n =>
                             c[s] = IF s = {} THEN 0 ELSE f[First(s)] + c[s \ {First(s)}]
           Bad == {n \in Nat : ~ \E c \in [SUBSET S -> Int] : Solves(c, n)}
<1>1. \A s \in SUBSET S : s # {} => /\ First(s) \in s /\ f[First(s)] \in Int
  BY DEF First
<1>2. \A s \in SUBSET S : Cardinality(s) \in Nat  BY FS_Subset, FS_CardinalityType
<1>3. Bad = {}
  <2>1. SUFFICES ASSUME Bad # {} PROVE FALSE  BY Zenon
  <2>2. PICK n \in Bad : \A m \in Bad : ~(m < n)
    <3>1. Bad \subseteq Nat  OBVIOUS
    <3> HIDE DEF Bad
    <3> QED BY Zenon, <2>1, <3>1, LeastNatural
  <2>3. n \in Nat /\ ~ \E c \in [SUBSET S -> Int] : Solves(c, n)  BY Zenon
  <2>4. CASE n = 0
    <3> DEFINE z == [s \in SUBSET S |-> 0]
    <3>1. \A s \in SUBSET S : Cardinality(s) <= 0 => s = {}
      BY <1>2, FS_Subset, FS_EmptySet
    <3>2. z \in [SUBSET S -> Int] /\ Solves(z, 0)  BY <3>1
    <3> QED BY Zenon, <2>3, <2>4, <3>2
  <2>5. CASE n # 0
    <3>1. n - 1 \in Nat /\ n - 1 < n  BY <2>3, <2>5
    <3>2. PICK c \in [SUBSET S -> Int] : Solves(c, n - 1)  BY Zenon, <2>2, <3>1
    <3> DEFINE d == [s \in SUBSET S |-> IF Cardinality(s) <= n - 1 THEN c[s]
                                        ELSE f[First(s)] + c[s \ {First(s)}]]
    <3>3. \A s \in SUBSET S : ~(Cardinality(s) <= n - 1) => s # {}
      <4>1. SUFFICES ASSUME NEW s \in SUBSET S, s = {} PROVE Cardinality(s) <= n - 1  OBVIOUS
      <4>2. Cardinality(s) = 0  BY <4>1, FS_EmptySet
      <4> QED BY <3>1, <4>2
    <3>4. d \in [SUBSET S -> Int]
      <4>1. \A s \in SUBSET S : s # {} => f[First(s)] + c[s \ {First(s)}] \in Int
        BY <1>1
      <4> QED BY <3>3, <4>1
    <3>5. Solves(d, n)
      <4> SUFFICES ASSUME NEW s \in SUBSET S, Cardinality(s) <= n
                   PROVE  d[s] = IF s = {} THEN 0 ELSE f[First(s)] + d[s \ {First(s)}]
        BY Zenon
      <4>1. CASE s = {}
        <5>1. Cardinality(s) <= n - 1  BY <3>1, <4>1, FS_EmptySet
        <5>2. c[s] = 0  BY <3>2, <4>1, <5>1
        <5> QED BY <4>1, <5>1, <5>2
      <4>2. CASE s # {}
        <5> DEFINE r == s \ {First(s)}
        <5>1. /\ r \in SUBSET S /\ Cardinality(s) \in Nat /\ Cardinality(r) \in Nat
              /\ Cardinality(r) = Cardinality(s) - 1
          BY <1>1, <4>2, RemoveSmaller
        <5>2. Cardinality(r) <= n - 1  BY <2>3, <5>1
        <5>3. d[r] = c[r]  BY <5>1, <5>2
        <5>4. d[s] = f[First(s)] + c[r]
          <6>1. CASE Cardinality(s) <= n - 1
            <7>1. c[s] = f[First(s)] + c[r]  BY <3>2, <4>2, <6>1
            <7> QED BY <6>1, <7>1
          <6>2. CASE ~(Cardinality(s) <= n - 1)  BY <6>2
          <6> QED BY <6>1, <6>2
        <5> HIDE DEF d
        <5> QED BY <4>2, <5>3, <5>4
      <4> QED BY <4>1, <4>2
    <3> HIDE DEF d, Solves
    <3> QED BY <2>3, <3>4, <3>5
  <2> QED BY <2>4, <2>5
<1>4. Cardinality(S) \in Nat  BY FS_CardinalityType
<1>5. PICK c \in [SUBSET S -> Int] : Solves(c, Cardinality(S))  BY Zenon, <1>3, <1>4
<1>6. \A s \in SUBSET S : Cardinality(s) <= Cardinality(S)  BY FS_Subset
<1>7. \A s \in SUBSET S : c[s] = IF s = {} THEN 0 ELSE f[First(s)] + c[s \ {First(s)}]
  BY Zenon, <1>5, <1>6
<1>8. c = [s \in SUBSET S |-> c[s]]  OBVIOUS
<1>9. Recurrence(c, f, S)  BY Zenon, <1>7, <1>8 DEF Recurrence
<1> QED BY <1>9
\* A solution is the sum, whatever element comes first.
LEMMA SolutionIsSum ==
  ASSUME NEW S, IsFiniteSet(S), NEW f \in [S -> Int], NEW c, Recurrence(c, f, S)
  PROVE  IsSum(c, f, S)
<1>1. \A s \in SUBSET S : c[s] = IF s = {} THEN 0 ELSE f[First(s)] + c[s \ {First(s)}]
  BY Zenon DEF Recurrence
<1>2. \A s \in SUBSET S : s # {} => First(s) \in s  BY DEF First
<1>3. c[{}] = 0  BY Zenon, <1>1
<1>4. \A s \in SUBSET S : c[s] \in Int
  <2> DEFINE Bad == {s \in SUBSET S : c[s] \notin Int}
  <2>1. SUFFICES ASSUME Bad # {} PROVE FALSE  OBVIOUS
  <2>2. PICK s \in Bad : \A t \in Bad : ~(Cardinality(t) < Cardinality(s))
    <3>1. Bad \in SUBSET SUBSET S  OBVIOUS
    <3> HIDE DEF Bad
    <3> QED BY <2>1, <3>1, SmallestSubset
  <2>3. s \in SUBSET S /\ c[s] \notin Int  OBVIOUS
  <2>4. s # {}  BY <1>3, <2>3
  <2>5. s \ {First(s)} \notin Bad /\ s \ {First(s)} \in SUBSET S
    <3>1. First(s) \in s  BY <1>2, <2>3, <2>4
    <3>2. Cardinality(s \ {First(s)}) < Cardinality(s)  BY <2>3, <3>1, RemoveSmaller
    <3> HIDE DEF Bad
    <3> QED BY <2>2, <2>3, <3>2
  <2>6. c[s \ {First(s)}] \in Int  BY <2>5
  <2>7. f[First(s)] \in Int  BY <1>2, <2>3, <2>4
  <2> QED BY <1>1, <2>3, <2>4, <2>6, <2>7
<1>5. \A s \in SUBSET S : \A x \in s : c[s] = f[x] + c[s \ {x}]
  <2> DEFINE Bad == {s \in SUBSET S : ~ \A x \in s : c[s] = f[x] + c[s \ {x}]}
  <2>1. SUFFICES ASSUME Bad # {} PROVE FALSE  BY Zenon
  <2>2. PICK s \in Bad : \A t \in Bad : ~(Cardinality(t) < Cardinality(s))
    <3>1. Bad \in SUBSET SUBSET S  OBVIOUS
    <3> HIDE DEF Bad
    <3> QED BY <2>1, <3>1, SmallestSubset
  <2>3. s \in SUBSET S  OBVIOUS
  <2>4. PICK x \in s : c[s] # f[x] + c[s \ {x}]  OBVIOUS
  <2> DEFINE p == First(s)
  <2>5. p \in s  BY <1>2, <2>3, <2>4
  <2>6. c[s] = f[p] + c[s \ {p}]  BY <1>1, <2>3, <2>4
  <2>7. x # p  BY <2>4, <2>6
  <2>8. \A y \in s : /\ s \ {y} \in SUBSET S
                     /\ \A z \in s \ {y} : c[s \ {y}] = f[z] + c[(s \ {y}) \ {z}]
    <3> TAKE y \in s
    <3>1. s \ {y} \in SUBSET S /\ Cardinality(s \ {y}) < Cardinality(s)
      BY <2>3, RemoveSmaller
    <3>2. s \ {y} \notin Bad
      <4> HIDE DEF Bad
      <4> QED BY <2>2, <3>1
    <3> QED BY Zenon, <3>1, <3>2
  <2> HIDE DEF p
  <2>9. c[s \ {p}] = f[x] + c[(s \ {p}) \ {x}]  BY Zenon, <2>4, <2>5, <2>7, <2>8
  <2>10. c[s \ {x}] = f[p] + c[(s \ {x}) \ {p}]  BY <2>4, <2>5, <2>7, <2>8
  <2>11. (s \ {p}) \ {x} = (s \ {x}) \ {p}  OBVIOUS
  <2>12. f[x] \in Int /\ f[p] \in Int /\ c[(s \ {x}) \ {p}] \in Int
    BY <1>4, <2>3, <2>4, <2>5
  <2> DEFINE u == c[(s \ {x}) \ {p}]
  <2>13. c[s] = f[p] + (f[x] + u)  BY Zenon, <2>6, <2>9, <2>11
  <2>14. f[x] + c[s \ {x}] = f[x] + (f[p] + u)  BY <2>10
  <2>15. f[p] + (f[x] + u) = f[x] + (f[p] + u)
    <3> HIDE DEF u
    <3> QED BY <2>12 DEF u
  <2> QED BY <2>4, <2>13, <2>14, <2>15
<1>6. c \in [SUBSET S -> Int]  BY Zenon, <1>4 DEF Recurrence
<1> QED BY <1>3, <1>5, <1>6 DEF IsSum

\* SumFunction is the sum over the whole domain.
LEMMA SumFunctionIsSum ==
  ASSUME NEW S, IsFiniteSet(S), NEW f \in [S -> Int]
  PROVE  \E c : IsSum(c, f, S) /\ SumFunction(f) = c[S]
<1> DEFINE c == CHOOSE c : Recurrence(c, f, S)
<1>1. Recurrence(c, f, S)  BY RecurrenceHasSolution
<1>2. SumFunction(f) = c[S]
  BY DEF SumFunction, SumFunctionOnSet, FoldFunctionOnSet, MapThenFoldSet, Recurrence, First
<1> HIDE DEF c
<1> QED BY <1>1, <1>2, SolutionIsSum
\* Sums of functions that agree on a set agree on it.
LEMMA SumsAgree ==
  ASSUME NEW S, IsFiniteSet(S), NEW T, NEW f, NEW g, NEW c, NEW d,
         IsSum(c, f, S), IsSum(d, g, T),
         NEW r \in SUBSET S, r \in SUBSET T, \A x \in r : f[x] = g[x]
  PROVE  c[r] = d[r]
<1> DEFINE Bad == {s \in SUBSET r : c[s] # d[s]}
<1>1. SUFFICES ASSUME Bad # {} PROVE FALSE  OBVIOUS
<1>2. IsFiniteSet(r)  BY FS_Subset
<1>3. PICK s \in Bad : \A t \in Bad : ~(Cardinality(t) < Cardinality(s))
  <2>1. Bad \in SUBSET SUBSET r  OBVIOUS
  <2> HIDE DEF Bad
  <2> QED BY <1>1, <1>2, <2>1, SmallestSubset
<1>4. s \in SUBSET r /\ c[s] # d[s]  OBVIOUS
<1>5. s # {}  BY Zenon, <1>4 DEF IsSum
<1>6. PICK x \in s : TRUE  BY <1>5
<1>7. s \ {x} \in SUBSET r /\ Cardinality(s \ {x}) < Cardinality(s)
  BY <1>2, <1>4, RemoveSmaller
<1>8. c[s \ {x}] = d[s \ {x}]
  <2>1. s \ {x} \notin Bad
    <3> HIDE DEF Bad
    <3> QED BY <1>3, <1>7
  <2> QED BY <1>7, <2>1
<1>9. c[s] = f[x] + c[s \ {x}] /\ d[s] = g[x] + d[s \ {x}]  BY <1>4 DEF IsSum
<1>10. f[x] = g[x]  BY <1>4
<1> QED BY <1>4, <1>8, <1>9, <1>10

\* A sum is an integer.
LEMMA SumInt ==
  ASSUME NEW S, IsFiniteSet(S), NEW f \in [S -> Int]
  PROVE  SumFunction(f) \in Int
<1>1. PICK c : IsSum(c, f, S) /\ SumFunction(f) = c[S]  BY SumFunctionIsSum
<1>2. c \in [SUBSET S -> Int]  BY <1>1 DEF IsSum
<1> QED BY <1>1, <1>2

\* Nothing sums to zero.
LEMMA SumEmpty ==
  ASSUME NEW f \in [{} -> Int]
  PROVE  SumFunction(f) = 0
<1>1. IsFiniteSet({})  BY FS_EmptySet
<1> QED BY Zenon, <1>1, SumFunctionIsSum DEF IsSum

\* One summand can be taken out, whichever it is.
LEMMA SumRemove ==
  ASSUME NEW S, IsFiniteSet(S), NEW f \in [S -> Int], NEW x \in S
  PROVE  SumFunction(f) = f[x] + SumFunction(Restrict(f, S \ {x}))
<1> DEFINE R == S \ {x}
           g == Restrict(f, R)
<1>1. IsFiniteSet(R) /\ g \in [R -> Int]  BY FS_RemoveElement DEF Restrict
<1>2. PICK c : IsSum(c, f, S) /\ SumFunction(f) = c[S]  BY SumFunctionIsSum
<1>3. PICK d : IsSum(d, g, R) /\ SumFunction(g) = d[R]
  <2> HIDE DEF g, R
  <2> QED BY <1>1, SumFunctionIsSum
<1>4. c[R] = d[R]
  <2>1. R \in SUBSET S /\ R \in SUBSET R /\ \A y \in R : f[y] = g[y]  BY DEF Restrict
  <2> HIDE DEF g, R
  <2> QED BY <1>2, <1>3, <2>1, SumsAgree
<1>5. c[S] = f[x] + c[R]  BY <1>2 DEF IsSum
<1> QED BY <1>2, <1>3, <1>4, <1>5

\* One more summand.
LEMMA SumAdd ==
  ASSUME NEW S, IsFiniteSet(S), NEW x, x \notin S, NEW f \in [S \cup {x} -> Int]
  PROVE  SumFunction(f) = f[x] + SumFunction(Restrict(f, S))
<1>1. IsFiniteSet(S \cup {x})  BY FS_AddElement
<1>2. (S \cup {x}) \ {x} = S  OBVIOUS
<1>3. SumFunction(f) = f[x] + SumFunction(Restrict(f, (S \cup {x}) \ {x}))
  BY <1>1, SumRemove
<1> QED BY <1>2, <1>3

\* Larger summands make a larger sum.
LEMMA SumMonotone ==
  ASSUME NEW S, IsFiniteSet(S), NEW f \in [S -> Int], NEW g \in [S -> Int],
         \A x \in S : f[x] <= g[x]
  PROVE  SumFunction(f) <= SumFunction(g)
<1>1. PICK c : IsSum(c, f, S) /\ SumFunction(f) = c[S]  BY SumFunctionIsSum
<1>2. PICK d : IsSum(d, g, S) /\ SumFunction(g) = d[S]  BY SumFunctionIsSum
<1> DEFINE Bad == {s \in SUBSET S : ~(c[s] <= d[s])}
<1>3. SUFFICES ASSUME Bad # {} PROVE FALSE  BY <1>1, <1>2
<1>4. PICK s \in Bad : \A t \in Bad : ~(Cardinality(t) < Cardinality(s))
  <2>1. Bad \in SUBSET SUBSET S  OBVIOUS
  <2> HIDE DEF Bad
  <2> QED BY <1>3, <2>1, SmallestSubset
<1>5. s \in SUBSET S /\ ~(c[s] <= d[s])  OBVIOUS
<1>6. s # {}
  <2>1. c[{}] = 0 /\ d[{}] = 0  BY <1>1, <1>2 DEF IsSum
  <2>2. c[{}] <= d[{}]  BY <2>1
  <2> QED BY <1>5, <2>2
<1>7. PICK x \in s : TRUE  BY <1>6
<1>8. s \ {x} \in SUBSET S /\ Cardinality(s \ {x}) < Cardinality(s)
  BY <1>5, RemoveSmaller
<1>9. c[s \ {x}] <= d[s \ {x}]
  <2>1. s \ {x} \notin Bad
    <3> HIDE DEF Bad
    <3> QED BY <1>4, <1>8
  <2> QED BY <1>8, <2>1
<1>10. c[s] = f[x] + c[s \ {x}] /\ d[s] = g[x] + d[s \ {x}]  BY Zenon, <1>1, <1>2, <1>5 DEF IsSum
<1>11. f[x] \in Int /\ g[x] \in Int /\ f[x] <= g[x]  BY <1>5
<1>12. c[s \ {x}] \in Int /\ d[s \ {x}] \in Int  BY <1>1, <1>2, <1>8 DEF IsSum
<1>13. f[x] + c[s \ {x}] <= g[x] + d[s \ {x}]  BY <1>9, <1>11, <1>12
<1> QED BY <1>5, <1>10, <1>13

\* Zeros sum to zero.
LEMMA SumZero ==
  ASSUME NEW S, IsFiniteSet(S), NEW f \in [S -> Int], \A x \in S : f[x] = 0
  PROVE  SumFunction(f) = 0
<1>1. PICK c : IsSum(c, f, S) /\ SumFunction(f) = c[S]  BY SumFunctionIsSum
<1> DEFINE z == [s \in SUBSET S |-> 0]
<1>2. IsSum(z, f, S)
  <2>1. \A s \in SUBSET S : \A x \in s : f[x] = 0 /\ z[s] = 0 /\ z[s \ {x}] = 0  OBVIOUS
  <2>2. z \in [SUBSET S -> Int] /\ z[{}] = 0  OBVIOUS
  <2> HIDE DEF z
  <2> QED BY <2>1, <2>2 DEF IsSum
<1>3. z[S] = 0  OBVIOUS
<1> HIDE DEF z
<1>4. c[S] = z[S]  BY <1>1, <1>2, SumsAgree
<1> QED BY <1>1, <1>3, <1>4

\* A sum of naturals is a natural, at least each of them.
LEMMA SumNat ==
  ASSUME NEW S, IsFiniteSet(S), NEW f \in [S -> Nat]
  PROVE  SumFunction(f) \in Nat /\ \A x \in S : f[x] <= SumFunction(f)
<1>1. f \in [S -> Int]  OBVIOUS
<1>2. \A T : T \subseteq S => SumFunction(Restrict(f, T)) \in Nat
  <2> SUFFICES ASSUME NEW T, T \subseteq S PROVE SumFunction(Restrict(f, T)) \in Nat
    OBVIOUS
  <2> DEFINE g == Restrict(f, T)
             z == [x \in T |-> 0]
  <2>1. IsFiniteSet(T)  BY FS_Subset
  <2>2. g \in [T -> Int] /\ z \in [T -> Int] /\ \A x \in T : z[x] <= g[x] /\ z[x] = 0
    BY DEF Restrict
  <2> HIDE DEF g, z
  <2>3. SumFunction(z) = 0  BY <2>1, <2>2, SumZero
  <2>4. SumFunction(z) <= SumFunction(g)  BY <2>1, <2>2, SumMonotone
  <2>5. SumFunction(g) \in Int  BY <2>1, <2>2, SumInt
  <2> QED BY <2>3, <2>4, <2>5 DEF g
<1>3. SumFunction(f) \in Nat
  <2>1. f = Restrict(f, S)  BY DEF Restrict
  <2> QED BY <1>2, <2>1
<1>4. ASSUME NEW x \in S PROVE f[x] <= SumFunction(f)
  <2>1. SumFunction(f) = f[x] + SumFunction(Restrict(f, S \ {x}))  BY <1>1, SumRemove
  <2>2. SumFunction(Restrict(f, S \ {x})) \in Nat  BY <1>2
  <2>3. f[x] \in Nat  OBVIOUS
  <2> QED BY <2>1, <2>2, <2>3
<1> QED BY <1>3, <1>4

\* Changing one summand changes the sum by as much.
LEMMA SumChange ==
  ASSUME NEW S, IsFiniteSet(S), NEW f \in [S -> Int], NEW g \in [S -> Int], NEW x \in S,
         \A y \in S : y # x => g[y] = f[y]
  PROVE  SumFunction(g) = SumFunction(f) + g[x] - f[x]
<1> DEFINE R == S \ {x}
           h == Restrict(f, R)
<1>1. h = Restrict(g, R)  BY DEF Restrict
<1>2. SumFunction(f) = f[x] + SumFunction(h)  BY SumRemove
<1>3. SumFunction(g) = g[x] + SumFunction(h)
  <2>1. SumFunction(g) = g[x] + SumFunction(Restrict(g, R))  BY SumRemove
  <2> QED BY <1>1, <2>1
<1>4. SumFunction(h) \in Int
  <2>1. IsFiniteSet(R) /\ h \in [R -> Int]  BY FS_RemoveElement DEF Restrict
  <2> HIDE DEF h, R
  <2> QED BY <2>1, SumInt
<1>5. f[x] \in Int /\ g[x] \in Int  OBVIOUS
<1> HIDE DEF h
<1> QED BY <1>2, <1>3, <1>4, <1>5

-----------------------------------------------------------------------------
(* Fixed-point numbers: rounding.                                          *)

\* Products and quotients of non-negative numbers are non-negative.
LEMMA MulNat ==
  ASSUME NEW x \in Nat, NEW y \in Nat
  PROVE  Mul(x, y) \in Nat
BY NatProduct, DivBounds, OneAssumption DEF Mul

\* checked_div of non-negative numbers is non-negative.
LEMMA DivNat ==
  ASSUME NEW x \in Nat, NEW y \in Nat \ {0}
  PROVE  Div(x, y) \in Nat
BY NatProduct, DivBounds, OneAssumption DEF Div

\* A larger amount is worth at least as many shares.
LEMMA DivMonotone ==
  ASSUME NEW x \in Nat, NEW y \in Nat, NEW v \in Nat \ {0}, x <= y
  PROVE  Div(x, v) <= Div(y, v)
<1> DEFINE q == (x * ONE) \div v
<1>1. ONE \in Nat /\ x * ONE \in Nat /\ y * ONE \in Nat  BY NatProduct, OneAssumption
<1>2. x * ONE <= y * ONE
  <2>1. PICK r \in Nat : y = x + r
    <3>1. y - x \in Nat /\ y = x + (y - x)  OBVIOUS
    <3> QED BY <3>1
  <2>2. y * ONE = x * ONE + r * ONE  BY <2>1, <1>1
  <2>3. r * ONE \in Nat  BY <1>1, NatProduct
  <2> QED BY <2>2, <2>3, <1>1
<1>3. q \in Nat /\ v * q <= x * ONE  BY <1>1, DivBounds
<1>4. v * q <= y * ONE
  <2> HIDE DEF q
  <2>1. v * q \in Nat  BY <1>3, NatProduct
  <2> QED BY <2>1, <1>1, <1>2, <1>3
<1>5. q <= (y * ONE) \div v
  <2> HIDE DEF q
  <2> QED BY <1>1, <1>3, <1>4, DivGreatest
<1> QED BY <1>5 DEF Div

\* Converting shares to an amount and back never gains a share: what
\* get_asset_shares(get_asset_amount(shares)) relies on when a whole side of a
\* balance is used up.
LEMMA RoundTrip ==
  ASSUME NEW s \in Nat, NEW v \in Nat \ {0}
  PROVE  Div(Mul(s, v), v) <= s
<1> DEFINE m == (s * v) \div ONE
           d == (m * ONE) \div v
<1>1. s * v \in Nat /\ ONE \in Nat \ {0}  BY NatProduct, OneAssumption
<1>2. m \in Nat /\ ONE * m <= s * v  BY <1>1, DivBounds
<1>3. m * ONE \in Nat /\ m * ONE <= v * s
  <2> HIDE DEF m
  <2>1. m * ONE \in Nat /\ m * ONE = ONE * m /\ v * s = s * v  BY <1>1, <1>2, NatProduct
  <2> QED BY <2>1, <1>2
<1>4. d \in Nat /\ v * d <= m * ONE
  <2> HIDE DEF m
  <2> QED BY <1>3, DivBounds
<1>5. v * d <= v * s
  <2> HIDE DEF d, m
  <2>1. v * d \in Nat /\ v * s \in Nat  BY <1>4, NatProduct
  <2> QED BY <2>1, <1>3, <1>4
<1>6. d <= s
  <2> HIDE DEF d, m
  <2>1. SUFFICES ASSUME d >= s + 1 PROVE FALSE  BY <1>4
  <2>2. PICK r \in Nat : d = s + 1 + r
    <3>1. d - (s + 1) \in Nat /\ d = s + 1 + (d - (s + 1))  BY <2>1, <1>4
    <3> QED BY <3>1
  <2>3. v * d = v * s + v + v * r  BY <2>2
  <2>4. v * r \in Nat /\ v * s \in Nat  BY NatProduct
  <2> QED BY <2>3, <2>4, <1>5
<1> QED BY <1>6 DEF Div, Mul

\* The shares taken for an amount that the balance covers are covered too.
LEMMA ShareDecrease ==
  ASSUME NEW s \in Nat, NEW v \in Nat \ {0}, NEW delta \in Nat
  PROVE  /\ Div(Least(Mul(s, v), delta), v) \in Nat
         /\ Div(Least(Mul(s, v), delta), v) <= s
<1> DEFINE x == Least(Mul(s, v), delta)
<1>1. Mul(s, v) \in Nat  BY MulNat
<1>2. x \in Nat /\ x <= Mul(s, v)  BY <1>1 DEF Least
<1>3. Div(x, v) \in Nat /\ Div(x, v) <= Div(Mul(s, v), v) /\ Div(Mul(s, v), v) \in Nat
  <2> HIDE DEF x
  <2> QED BY <1>1, <1>2, DivNat, DivMonotone
<1>4. Div(Mul(s, v), v) <= s  BY RoundTrip
<1> QED BY <1>3, <1>4

\* Taking away the shares of a whole amount leaves less than one whole share,
\* whatever the share value.
LEMMA ResidueSmall ==
  ASSUME NEW s \in Nat, NEW v \in Nat \ {0}
  PROVE  s - Div(Mul(s, v), v) < ONE
<1> DEFINE m == (s * v) \div ONE
           d == (m * ONE) \div v
<1>0. ONE \in Nat \ {0} /\ s * v \in Nat  BY NatProduct, OneAssumption
<1>1. m \in Nat /\ s * v < ONE * m + ONE  BY <1>0, DivBounds
<1>2. d \in Nat /\ m * ONE < v * d + v
  <2> HIDE DEF m
  <2>1. m * ONE \in Nat  BY <1>0, <1>1, NatProduct
  <2> QED BY Zenon, <2>1, DivBounds
<1> HIDE DEF m, d
<1>3. m * ONE = ONE * m /\ m * ONE \in Nat /\ v * d \in Nat  BY <1>0, <1>1, <1>2, NatProduct
<1>4. SUFFICES ASSUME s - d >= ONE PROVE FALSE
  BY <1>0, <1>2 DEF Div, Mul, m, d
<1>5. PICK k \in Nat : s = d + 1 + k
  <2>1. s - d - 1 \in Nat /\ s = d + 1 + (s - d - 1)  BY <1>0, <1>2, <1>4
  <2> QED BY <2>1
<1>6. k >= ONE - 1  BY <1>0, <1>2, <1>4, <1>5
<1>7. s * v = v * d + v + k * v
  <2>1. s * v = (d + 1 + k) * v  BY <1>5
  <2> QED BY <1>2, <2>1
<1>8. k * v >= k
  <2>1. PICK j \in Nat : v = j + 1
    <3>1. v - 1 \in Nat /\ v = (v - 1) + 1  OBVIOUS
    <3> QED BY <3>1
  <2>2. k * v = k * j + k
    <3>1. k * v = k * (j + 1)  BY <2>1
    <3> QED BY <3>1
  <2>3. k * j \in Nat  BY NatProduct
  <2> QED BY <2>2, <2>3
<1>9. k * v \in Nat  BY NatProduct
<1> QED BY <1>0, <1>1, <1>2, <1>3, <1>6, <1>7, <1>8, <1>9

\* A share of at most the whole is at most the whole.
LEMMA ShareOfFee ==
  ASSUME NEW fee \in Nat, NEW rate \in Nat, rate <= ONE
  PROVE  Mul(fee, rate) \in Nat /\ Mul(fee, rate) <= fee
<1>0. ONE \in Nat \ {0}  BY OneAssumption
<1> DEFINE q == (fee * rate) \div ONE
<1>1. fee * rate \in Nat  BY NatProduct
<1>2. q \in Nat /\ ONE * q <= fee * rate  BY <1>0, <1>1, DivBounds
<1>3. PICK r \in Nat : ONE = rate + r
  <2>1. ONE - rate \in Nat /\ ONE = rate + (ONE - rate)  BY <1>0
  <2> QED BY Zenon, <2>1
<1>4. fee * r \in Nat  BY NatProduct
<1>5. ONE * fee = fee * rate + fee * r
  <2>1. ONE * fee = (rate + r) * fee  BY <1>3
  <2> QED BY <2>1
<1> HIDE DEF q
<1>6. SUFFICES ASSUME q > fee PROVE FALSE  BY <1>0, <1>2 DEF Mul, q
<1>7. PICK k \in Nat : q = fee + 1 + k
  <2>1. q - fee - 1 \in Nat /\ q = fee + 1 + (q - fee - 1)  BY <1>2, <1>6
  <2> QED BY <2>1
<1>8. ONE * q = ONE * fee + ONE + ONE * k
  <2>1. ONE * q = ONE * (fee + 1 + k)  BY <1>7
  <2> QED BY <1>0, <2>1
<1>9. ONE * k \in Nat /\ ONE * fee \in Nat /\ ONE * q \in Nat  BY <1>0, <1>2, NatProduct
<1> QED BY <1>0, <1>1, <1>2, <1>4, <1>5, <1>8, <1>9

-----------------------------------------------------------------------------
(* The bank: interest.                                                     *)

\* The two segments of the interest curve are non-negative.
LEMMA CurveNat ==
  ASSUME NEW ir \in InterestRateConfigs, NEW ur \in Nat
  PROVE  InterestRateCurve(ir, ur) \in Nat
<1> DEFINE opt == ir.optimal_utilization_rate
           plateau == ir.plateau_interest_rate
           max == ir.max_interest_rate
<1>1. /\ opt \in Nat \ {0} /\ plateau \in Nat /\ max \in Nat
      /\ opt < ONE /\ plateau < max
  BY DEF InterestRateConfigs
<1>2. ONE \in Nat \ {0}  BY OneAssumption
<1> HIDE DEF opt, plateau, max
<1>3. Mul(Div(ur, opt), plateau) \in Nat  BY Zenon, <1>1, DivNat, MulNat
<1>4. ASSUME ur > opt
      PROVE  Mul(Div(ur - opt, ONE - opt), max - plateau) + plateau \in Nat
  <2>1. ur - opt \in Nat /\ ONE - opt \in Nat \ {0} /\ max - plateau \in Nat  BY <1>1, <1>2, <1>4
  <2>2. Div(ur - opt, ONE - opt) \in Nat  BY <2>1, DivNat
  <2>3. Mul(Div(ur - opt, ONE - opt), max - plateau) \in Nat  BY <2>1, <2>2, MulNat
  <2> QED BY <1>1, <2>3
<1>5. InterestRateCurve(ir, ur) = IF ur <= opt THEN Mul(Div(ur, opt), plateau)
                                  ELSE Mul(Div(ur - opt, ONE - opt), max - plateau) + plateau
  BY DEF InterestRateCurve, opt, plateau, max
<1> QED BY <1>1, <1>3, <1>4, <1>5

\* calc_interest_rate's assertions hold: every rate is non-negative.
LEMMA RatesNat ==
  ASSUME NEW ir \in InterestRateConfigs, NEW g \in MarginfiGroups, NEW ur \in Nat
  PROVE  LendingRateApr(ir, ur) \in Nat /\ BorrowingRateApr(ir, g, ur) \in Nat
<1> DEFINE base == InterestRateCurve(ir, ur)
<1>1. base \in Nat  BY CurveNat
<1>2. /\ ir.insurance_ir_fee \in Nat /\ ir.protocol_ir_fee \in Nat
      /\ ir.insurance_fee_fixed_apr \in Nat /\ ir.protocol_fixed_fee_apr \in Nat
  BY DEF InterestRateConfigs
<1>3. ProgramFeeRate(g) \in Nat /\ ProgramFeeFixed(g) \in Nat
  BY DEF MarginfiGroups, ProgramFeeRate, ProgramFeeFixed
<1>4. LendingRateApr(ir, ur) \in Nat
  <2> HIDE DEF base
  <2>1. Mul(base, ur) \in Nat  BY <1>1, MulNat
  <2> QED BY <2>1 DEF base, LendingRateApr
<1>5. BorrowingRateApr(ir, g, ur) \in Nat
  <2> DEFINE rate == ONE + ir.insurance_ir_fee + ir.protocol_ir_fee + ProgramFeeRate(g)
  <2>1. rate \in Nat  BY <1>2, <1>3, OneAssumption
  <2>2. Mul(base, rate) \in Nat
    <3> HIDE DEF base, rate
    <3> QED BY <1>1, <2>1, MulNat
  <2> QED BY <2>2, <1>2, <1>3 DEF BorrowingRateApr
<1> QED BY <1>4, <1>5

\* calc_fee_rate never yields a negative rate.
LEMMA FeeRateNat ==
  ASSUME NEW base \in Nat, NEW rate \in Nat, NEW fixed \in Nat
  PROVE  CalcFeeRate(base, rate, fixed) \in Nat
BY MulNat DEF CalcFeeRate

\* Interest never lowers a principal.
LEMMA AccruedPrincipalGrows ==
  ASSUME NEW apr \in Nat, NEW time_delta \in Nat, NEW value \in Nat
  PROVE  /\ AccruedPrincipal(apr, time_delta, value) \in Nat
         /\ AccruedPrincipal(apr, time_delta, value) >= value
<1> DEFINE x == (apr * time_delta) \div SECONDS_PER_YEAR
<1>1. x \in Nat  BY NatProduct, DivBounds, BankAssumption
<1>2. ONE \in Nat \ {0}  BY OneAssumption
<1> HIDE DEF x
<1>3. ONE + x \in Nat  BY <1>1, <1>2
<1>4. value * (ONE + x) \in Nat /\ Mul(value, ONE + x) \in Nat  BY Zenon, <1>3, NatProduct, MulNat
<1>5. ONE * value <= value * (ONE + x)
  <2>1. value * (ONE + x) = ONE * value + value * x  BY <1>1, <1>2
  <2>2. value * x \in Nat /\ ONE * value \in Nat  BY <1>1, <1>2, NatProduct
  <2> QED BY <2>1, <2>2
<1>6. value <= (value * (ONE + x)) \div ONE  BY <1>2, <1>4, <1>5, DivGreatest
<1> QED BY <1>4, <1>6 DEF AccruedPrincipal, Mul, x

\* calc_interest_payment_for_period never yields a negative payment.
LEMMA InterestPaymentNat ==
  ASSUME NEW apr \in Nat, NEW time_delta \in Nat, NEW value \in Nat
  PROVE  InterestPayment(apr, time_delta, value) \in Nat
<1>1. Mul(value, apr) \in Nat  BY MulNat
<1>2. Mul(value, apr) * time_delta \in Nat  BY <1>1, NatProduct
<1> QED BY <1>2, DivBounds, BankAssumption DEF InterestPayment

\* What accrue_interest leaves alone and what it may only raise.
AccrualOK(b, c, t) ==
  /\ c \in BankRecords
  /\ c.last_update = t
  /\ c.total_asset_shares = b.total_asset_shares
  /\ c.total_liability_shares = b.total_liability_shares
  /\ c.emissions_remaining = b.emissions_remaining
  /\ c.config = b.config
  /\ c.asset_share_value >= b.asset_share_value
  /\ c.liability_share_value >= b.liability_share_value

\* Accruing interest keeps the bank well-formed, keeps every share and lowers
\* neither share value.
LEMMA AccrueInterestOK ==
  ASSUME NEW b \in BankRecords, NEW g \in MarginfiGroups, NEW t \in Nat, b.last_update <= t
  PROVE  AccrualOK(b, AccrueInterest(b, g, t), t)
<1> DEFINE dt == t - b.last_update
           assets == TotalAssets(b)
           liabs == TotalLiabilities(b)
           ir == b.config.interest_rate_config
           ur == Div(liabs, assets)
           base == InterestRateCurve(ir, ur)
           Fee(rate, fixed) == InterestPayment(CalcFeeRate(base, rate, fixed), dt, liabs)
           idle == [b EXCEPT !.last_update = t]
           asv == AccruedPrincipal(LendingRateApr(ir, ur), dt, b.asset_share_value)
           lsv == AccruedPrincipal(BorrowingRateApr(ir, g, ur), dt, b.liability_share_value)
           gfee == Fee(ir.protocol_ir_fee, ir.protocol_fixed_fee_apr)
           ifee == Fee(ir.insurance_ir_fee, ir.insurance_fee_fixed_apr)
           pfee == Fee(ProgramFeeRate(g), ProgramFeeFixed(g))
           busy == [b EXCEPT
              !.last_update = t, !.asset_share_value = asv, !.liability_share_value = lsv,
              !.collected_group_fees_outstanding = @ + gfee,
              !.collected_insurance_fees_outstanding = @ + ifee,
              !.collected_program_fees_outstanding = @ + pfee]
<1>1. /\ dt \in Nat /\ b.asset_share_value \in Nat \ {0} /\ b.liability_share_value \in Nat \ {0}
      /\ b.total_asset_shares \in Nat /\ b.total_liability_shares \in Nat
      /\ ir \in InterestRateConfigs
  BY DEF BankRecords, BankConfigs
<1>2. assets \in Nat /\ liabs \in Nat
  BY Zenon, <1>1, MulNat DEF TotalAssets, TotalLiabilities, GetAssetAmount, GetLiabilityAmount
<1>3. CASE dt = 0
  <2>1. t = b.last_update  BY <1>1, <1>3 DEF BankRecords
  <2>2. AccrueInterest(b, g, t) = b  BY <2>1 DEF AccrueInterest
  <2> QED BY <2>2, <1>1, <1>3 DEF AccrualOK, BankRecords
<1>4. CASE dt # 0 /\ (assets = 0 \/ liabs = 0)
  <2>1. AccrueInterest(b, g, t) = idle  BY <1>4 DEF AccrueInterest
  <2>2. AccrualOK(b, idle, t)  BY <1>1 DEF AccrualOK, BankRecords
  <2> QED BY <2>1, <2>2
<1>5. CASE dt # 0 /\ assets # 0 /\ liabs # 0
  <2>1. AccrueInterest(b, g, t) = busy  BY <1>5 DEF AccrueInterest, AccrualStateChanges
  <2>2. ur \in Nat  BY <1>2, <1>5, DivNat
  <2>3. base \in Nat  BY <1>1, <2>2, CurveNat
  <2>4. asv \in Nat \ {0} /\ asv >= b.asset_share_value
    <3>1. LendingRateApr(ir, ur) \in Nat  BY <1>1, <2>2, RatesNat
    <3> HIDE DEF dt, ir, ur
    <3>2. asv \in Nat /\ asv >= b.asset_share_value  BY Zenon, <1>1, <3>1, AccruedPrincipalGrows
    <3> HIDE DEF asv
    <3> QED BY <1>1, <3>2
  <2>5. lsv \in Nat \ {0} /\ lsv >= b.liability_share_value
    <3>1. BorrowingRateApr(ir, g, ur) \in Nat  BY <1>1, <2>2, RatesNat
    <3> HIDE DEF dt, ir, ur
    <3>2. lsv \in Nat /\ lsv >= b.liability_share_value  BY Zenon, <1>1, <3>1, AccruedPrincipalGrows
    <3> HIDE DEF lsv
    <3> QED BY <1>1, <3>2
  <2>6. \A rate, fixed \in Nat : Fee(rate, fixed) \in Nat
    <3> HIDE DEF base, dt, liabs
    <3> QED BY Zenon, <1>1, <1>2, <2>3, FeeRateNat, InterestPaymentNat
  <2>7. gfee \in Nat /\ ifee \in Nat /\ pfee \in Nat
    <3>1. /\ ir.insurance_ir_fee \in Nat /\ ir.protocol_ir_fee \in Nat
          /\ ir.insurance_fee_fixed_apr \in Nat /\ ir.protocol_fixed_fee_apr \in Nat
      BY <1>1 DEF InterestRateConfigs
    <3>2. ProgramFeeRate(g) \in Nat /\ ProgramFeeFixed(g) \in Nat
      BY DEF MarginfiGroups, ProgramFeeRate, ProgramFeeFixed
    <3> HIDE DEF Fee
    <3> QED BY Zenon, <2>6, <3>1, <3>2
  <2>8. AccrualOK(b, busy, t)
    <3> DEFINE g1 == b.collected_group_fees_outstanding + gfee
               i1 == b.collected_insurance_fees_outstanding + ifee
               p1 == b.collected_program_fees_outstanding + pfee
    <3>1. busy = [b EXCEPT !.last_update = t, !.asset_share_value = asv,
              !.liability_share_value = lsv, !.collected_group_fees_outstanding = g1,
              !.collected_insurance_fees_outstanding = i1,
              !.collected_program_fees_outstanding = p1]
      OBVIOUS
    <3>2. g1 \in Nat /\ i1 \in Nat /\ p1 \in Nat
      <4> HIDE DEF gfee, ifee, pfee
      <4> QED BY <2>7 DEF BankRecords
    <3> HIDE DEF asv, lsv, gfee, ifee, pfee, g1, i1, p1, busy
    <3>3. busy \in BankRecords  BY Zenon, <2>4, <2>5, <3>1, <3>2 DEF BankRecords
    <3>4. /\ busy.last_update = t
          /\ busy.total_asset_shares = b.total_asset_shares
          /\ busy.total_liability_shares = b.total_liability_shares
          /\ busy.emissions_remaining = b.emissions_remaining /\ busy.config = b.config
          /\ busy.asset_share_value = asv
          /\ busy.liability_share_value = lsv
      BY <3>1 DEF BankRecords
    <3> QED BY <2>4, <2>5, <3>3, <3>4 DEF AccrualOK
  <2> HIDE DEF busy
  <2> QED BY <2>1, <2>8
<1> HIDE DEF dt, assets, liabs
<1> QED BY <1>3, <1>4, <1>5

-----------------------------------------------------------------------------
(* A balance and its bank.                                                 *)

\* A balance and its bank at time t, the balance holding no more shares than
\* the bank counts, and a whole share on one side at most.
WrapperOK(w, t) ==
  /\ w = [bank |-> w.bank, balance |-> w.balance]
  /\ w.bank \in BankRecords
  /\ w.balance \in BalanceRecords
  /\ w.bank.last_update <= t
  /\ w.balance.last_update <= t
  /\ w.balance.asset_shares <= w.bank.total_asset_shares
  /\ w.balance.liability_shares <= w.bank.total_liability_shares
  /\ SideAsserted(w.balance)

\* From w to v: what the bank counts beyond this balance does not shrink,
\* promised emissions do not grow, the share values stay.
Conserves(w, v) ==
  /\ v.bank.total_asset_shares - v.balance.asset_shares
       >= w.bank.total_asset_shares - w.balance.asset_shares
  /\ v.bank.total_liability_shares - v.balance.liability_shares
       >= w.bank.total_liability_shares - w.balance.liability_shares
  /\ v.bank.emissions_remaining + v.balance.emissions_outstanding
       <= w.bank.emissions_remaining + w.balance.emissions_outstanding
  /\ v.bank.asset_share_value = w.bank.asset_share_value
  /\ v.bank.liability_share_value = w.bank.liability_share_value

\* The token amounts of a balance, get_asset_amount and get_liability_amount,
\* are not negative.
LEMMA AmountsNat ==
  ASSUME NEW t \in Nat, NEW w, WrapperOK(w, t)
  PROVE  AssetAmount(w) \in Nat /\ LiabilityAmount(w) \in Nat
<1>1. /\ w.balance.asset_shares \in Nat /\ w.balance.liability_shares \in Nat
      /\ w.bank.asset_share_value \in Nat /\ w.bank.liability_share_value \in Nat
  BY DEF WrapperOK, BankRecords, BalanceRecords
<1> QED BY Zenon, <1>1, MulNat DEF AssetAmount, LiabilityAmount, GetAssetAmount, GetLiabilityAmount

\* A claim is never negative and never more than the bank has left.
LEMMA EmissionsNat ==
  ASSUME NEW t \in Nat, NEW w, WrapperOK(w, t)
  PROVE  /\ EmissionsReal(w, t) \in Nat
         /\ EmissionsReal(w, t) <= w.bank.emissions_remaining
<1>1. AssetAmount(w) \in Nat /\ LiabilityAmount(w) \in Nat  BY AmountsNat
<1>2. EarningAmount(w) \in Nat  BY <1>1 DEF EarningAmount
<1>3. EarningPeriod(w.balance, t) \in Nat
  BY DEF EarningPeriod, WrapperOK, BalanceRecords
<1>4. w.bank.emissions_rate \in Nat /\ w.bank.emissions_remaining \in Nat
  BY DEF WrapperOK, BankRecords
<1> DEFINE amount == EarningAmount(w) \div EXP10
           p == EarningPeriod(w.balance, t)
           q == (p * amount) \div SECONDS_PER_YEAR
<1>5. amount \in Nat  BY <1>2, DivBounds, BalanceAssumption
<1>6. q \in Nat
  <2> HIDE DEF amount, p
  <2>1. p * amount \in Nat  BY <1>3, <1>5, NatProduct DEF p
  <2> QED BY <2>1, DivBounds, BankAssumption
<1>7. q * w.bank.emissions_rate \in Nat
  <2> HIDE DEF q
  <2> QED BY <1>4, <1>6, NatProduct
<1>8. CalcEmissions(EarningPeriod(w.balance, t), EarningAmount(w), w.bank.emissions_rate) \in Nat
  BY <1>7 DEF CalcEmissions
<1> QED BY <1>4, <1>8 DEF EmissionsReal, Least

\* claim_emissions.
LEMMA ClaimEmissionsOK ==
  ASSUME NEW t \in Nat, NEW w, WrapperOK(w, t)
  PROVE  /\ WrapperOK(ClaimEmissions(w, t), t)
         /\ Conserves(w, ClaimEmissions(w, t))
         /\ ClaimEmissions(w, t).bank.total_asset_shares = w.bank.total_asset_shares
         /\ ClaimEmissions(w, t).bank.total_liability_shares = w.bank.total_liability_shares
         /\ ClaimEmissions(w, t).balance.asset_shares = w.balance.asset_shares
         /\ ClaimEmissions(w, t).balance.liability_shares = w.balance.liability_shares
<1> DEFINE e == EmissionsReal(w, t)
           b == w.bank
           a == w.balance
           c == [b EXCEPT !.emissions_remaining = b.emissions_remaining - e]
           d == [a EXCEPT !.emissions_outstanding = a.emissions_outstanding + e,
                          !.last_update = t]
<1>1. e \in Nat /\ e <= b.emissions_remaining  BY EmissionsNat
<1>2. b \in BankRecords /\ a \in BalanceRecords  BY DEF WrapperOK
<1>3. ClaimEmissions(w, t) = [bank |-> c, balance |-> d]  BY DEF ClaimEmissions
<1> HIDE DEF e
<1>4. c \in BankRecords /\ d \in BalanceRecords
  <2>1. c \in BankRecords  BY <1>1, <1>2 DEF BankRecords
  <2>2. d \in BalanceRecords
    <3> DEFINE x == a.emissions_outstanding + e
    <3>1. x \in Nat  BY <1>1, <1>2 DEF BalanceRecords
    <3> HIDE DEF x
    <3>2. [a EXCEPT !.emissions_outstanding = x, !.last_update = t] \in BalanceRecords
      BY Zenon, <1>2, <3>1 DEF BalanceRecords
    <3> QED BY <3>2 DEF x
  <2> QED BY <2>1, <2>2
<1>5. /\ c.total_asset_shares = b.total_asset_shares
      /\ c.total_liability_shares = b.total_liability_shares
      /\ c.last_update = b.last_update
      /\ c.asset_share_value = b.asset_share_value
      /\ c.liability_share_value = b.liability_share_value
      /\ c.emissions_remaining = b.emissions_remaining - e
      /\ b.total_asset_shares \in Nat /\ b.total_liability_shares \in Nat
      /\ b.emissions_remaining \in Nat
  BY <1>2 DEF BankRecords
<1>6. /\ d.asset_shares = a.asset_shares /\ d.liability_shares = a.liability_shares
      /\ d.last_update = t /\ d.emissions_outstanding = a.emissions_outstanding + e
      /\ a.asset_shares \in Nat /\ a.liability_shares \in Nat /\ a.emissions_outstanding \in Nat
  BY <1>2 DEF BalanceRecords
<1> HIDE DEF c, d
<1> QED BY <1>1, <1>3, <1>4, <1>5, <1>6 DEF WrapperOK, Conserves, SideAsserted

\* Conserves is transitive.
LEMMA ConservesTrans ==
  ASSUME NEW t \in Nat, NEW u, NEW v, NEW w, WrapperOK(u, t), WrapperOK(v, t), WrapperOK(w, t),
         Conserves(u, v), Conserves(v, w)
  PROVE  Conserves(u, w)
<1> DEFINE Nats(x) == /\ x.bank.total_asset_shares \in Nat /\ x.balance.asset_shares \in Nat
                      /\ x.bank.total_liability_shares \in Nat /\ x.balance.liability_shares \in Nat
                      /\ x.bank.emissions_remaining \in Nat /\ x.balance.emissions_outstanding \in Nat
<1>1. Nats(u) /\ Nats(v) /\ Nats(w)  BY DEF WrapperOK, BankRecords, BalanceRecords
<1> QED BY <1>1 DEF Conserves

\* The same shares are added to the balance and to the totals.
LEMMA ChangeSharesOK ==
  ASSUME NEW t \in Nat, NEW w, WrapperOK(w, t), NEW x \in Int, NEW y \in Int,
         w.balance.asset_shares + x >= 0, w.balance.liability_shares + y >= 0,
         \/ w.balance.asset_shares + x < EMPTY_BALANCE_THRESHOLD
         \/ w.balance.liability_shares + y < EMPTY_BALANCE_THRESHOLD
  PROVE  /\ WrapperOK(ChangeShares(w, x, y), t)
         /\ Conserves(w, ChangeShares(w, x, y))
<1> DEFINE b == w.bank
           a == w.balance
           tas == b.total_asset_shares + x
           tls == b.total_liability_shares + y
           bas == a.asset_shares + x
           bls == a.liability_shares + y
           c == [b EXCEPT !.total_asset_shares = tas, !.total_liability_shares = tls]
           d == [a EXCEPT !.asset_shares = bas, !.liability_shares = bls]
<1>1. b \in BankRecords /\ a \in BalanceRecords  BY DEF WrapperOK
<1>2. /\ b.total_asset_shares \in Nat /\ b.total_liability_shares \in Nat
      /\ a.asset_shares \in Nat /\ a.liability_shares \in Nat
      /\ a.asset_shares <= b.total_asset_shares /\ a.liability_shares <= b.total_liability_shares
  BY DEF WrapperOK, BankRecords, BalanceRecords
<1>3. ChangeShares(w, x, y) = [bank |-> c, balance |-> d]
  BY <1>1 DEF ChangeShares, ChangeAssetShares, ChangeLiabilityShares, BankRecords
<1>4. tas \in Nat /\ tls \in Nat /\ bas \in Nat /\ bls \in Nat /\ bas <= tas /\ bls <= tls
      /\ tas - bas = b.total_asset_shares - a.asset_shares
      /\ tls - bls = b.total_liability_shares - a.liability_shares
  BY <1>2
<1>a. bas < EMPTY_BALANCE_THRESHOLD \/ bls < EMPTY_BALANCE_THRESHOLD  OBVIOUS
<1> HIDE DEF tas, tls, bas, bls
<1>5. c \in BankRecords /\ d \in BalanceRecords
  BY Zenon, <1>1, <1>4 DEF BankRecords, BalanceRecords
<1>6. /\ c.total_asset_shares = tas /\ c.total_liability_shares = tls
      /\ c.last_update = b.last_update /\ c.emissions_remaining = b.emissions_remaining
      /\ c.asset_share_value = b.asset_share_value
      /\ c.liability_share_value = b.liability_share_value
      /\ b.emissions_remaining \in Nat
  BY <1>1 DEF BankRecords
<1>7. /\ d.asset_shares = bas /\ d.liability_shares = bls
      /\ d.last_update = a.last_update /\ d.emissions_outstanding = a.emissions_outstanding
      /\ a.emissions_outstanding \in Nat
  BY <1>1 DEF BalanceRecords
<1>8. b.last_update <= t /\ a.last_update <= t  BY DEF WrapperOK
<1> HIDE DEF c, d
<1> DEFINE v == [bank |-> c, balance |-> d]
<1>9. v.bank = c /\ v.balance = d /\ v = [bank |-> v.bank, balance |-> v.balance]  OBVIOUS
<1> HIDE DEF v
<1>b. SideAsserted(v.balance)  BY <1>a, <1>7, <1>9 DEF SideAsserted
<1>10. WrapperOK(v, t)  BY <1>b, <1>4, <1>5, <1>6, <1>7, <1>8, <1>9 DEF WrapperOK
<1>11. Conserves(w, v)
  <2>1. /\ v.bank.total_asset_shares - v.balance.asset_shares = tas - bas
        /\ v.bank.total_liability_shares - v.balance.liability_shares = tls - bls
        /\ v.bank.emissions_remaining + v.balance.emissions_outstanding
             = b.emissions_remaining + a.emissions_outstanding
    BY <1>6, <1>7, <1>9
  <2>2. /\ v.bank.asset_share_value = b.asset_share_value
        /\ v.bank.liability_share_value = b.liability_share_value
    BY <1>6, <1>9
  <2>3. tas - bas >= b.total_asset_shares - a.asset_shares
    BY <1>2, <1>4
  <2>4. tls - bls >= b.total_liability_shares - a.liability_shares
    BY <1>2, <1>4
  <2>5. b.emissions_remaining + a.emissions_outstanding
          <= b.emissions_remaining + a.emissions_outstanding
    BY <1>6, <1>7
  <2> QED BY <2>1, <2>2, <2>3, <2>4, <2>5 DEF Conserves
<1> QED BY <1>3, <1>10, <1>11 DEF v

\* increase_balance_internal: the liability shares it removes are there.
LEMMA IncreaseBalanceOK ==
  ASSUME NEW t \in Nat, NEW w, WrapperOK(w, t), NEW delta \in Nat
  PROVE  /\ WrapperOK(IncreaseBalance(w, delta, t), t)
         /\ Conserves(w, IncreaseBalance(w, delta, t))
<1> DEFINE v == ClaimEmissions(w, t)
           x == GetAssetShares(w.bank, AssetIncrease(w, delta))
           y == GetLiabilityShares(w.bank, LiabilityDecrease(w, delta))
<1>1. /\ w.bank.asset_share_value \in Nat \ {0} /\ w.bank.liability_share_value \in Nat \ {0}
      /\ w.balance.asset_shares \in Nat /\ w.balance.liability_shares \in Nat
  BY DEF WrapperOK, BankRecords, BalanceRecords
<1>2. x \in Nat
  <2>1. AssetIncrease(w, delta) \in Nat  BY AmountsNat DEF AssetIncrease, Greatest
  <2> QED BY <1>1, <2>1, DivNat DEF GetAssetShares
<1>3. y \in Nat /\ y <= w.balance.liability_shares
  BY Zenon, <1>1, ShareDecrease DEF GetLiabilityShares, LiabilityDecrease, LiabilityAmount,
     GetLiabilityAmount
<1>s. \/ w.balance.asset_shares + x < EMPTY_BALANCE_THRESHOLD
      \/ w.balance.liability_shares - y < EMPTY_BALANCE_THRESHOLD
  <2>1. AssetAmount(w) \in Nat /\ LiabilityAmount(w) \in Nat  BY AmountsNat
  <2>2. CASE delta > LiabilityAmount(w)
    <3>1. LiabilityDecrease(w, delta) = LiabilityAmount(w)  BY <2>1, <2>2 DEF LiabilityDecrease, Least
    <3>2. w.balance.liability_shares - y < ONE
      BY <1>1, <3>1, ResidueSmall DEF GetLiabilityShares, LiabilityAmount, GetLiabilityAmount
    <3> QED BY <3>2 DEF EMPTY_BALANCE_THRESHOLD
  <2>3. CASE ~(delta > LiabilityAmount(w))
    <3>1. AssetIncrease(w, delta) = 0  BY <2>1, <2>3 DEF AssetIncrease, Greatest
    <3>2. x = 0
      <4>1. x = (0 * ONE) \div w.bank.asset_share_value  BY <3>1 DEF GetAssetShares, Div
      <4>2. 0 * ONE = 0  BY OneAssumption
      <4> QED BY <1>1, <4>1, <4>2
    <3>3. SideAsserted(w.balance)  BY DEF WrapperOK
    <3> HIDE DEF x, y
    <3> QED BY <1>1, <1>3, <3>2, <3>3, OneAssumption DEF SideAsserted, EMPTY_BALANCE_THRESHOLD
  <2> QED BY <2>2, <2>3
<1>4. /\ WrapperOK(v, t) /\ Conserves(w, v)
      /\ v.balance.asset_shares = w.balance.asset_shares
      /\ v.balance.liability_shares = w.balance.liability_shares
  BY ClaimEmissionsOK
<1>5. IncreaseBalance(w, delta, t) = ChangeShares(v, x, -y)  BY DEF IncreaseBalance
<1> HIDE DEF v, x, y
<1>6. x \in Int /\ -y \in Int /\ v.balance.asset_shares + x >= 0 /\ v.balance.liability_shares + (-y) >= 0
      /\ \/ v.balance.asset_shares + x < EMPTY_BALANCE_THRESHOLD
         \/ v.balance.liability_shares + (-y) < EMPTY_BALANCE_THRESHOLD
  BY <1>1, <1>2, <1>3, <1>s, <1>4, OneAssumption DEF EMPTY_BALANCE_THRESHOLD
<1>7. WrapperOK(ChangeShares(v, x, -y), t) /\ Conserves(v, ChangeShares(v, x, -y))
  BY <1>4, <1>6, ChangeSharesOK
<1>8. Conserves(w, ChangeShares(v, x, -y))  BY <1>4, <1>7, ConservesTrans
<1> QED BY <1>5, <1>7, <1>8

\* decrease_balance_internal: the asset shares it removes are there.
LEMMA DecreaseBalanceOK ==
  ASSUME NEW t \in Nat, NEW w, WrapperOK(w, t), NEW delta \in Nat
  PROVE  /\ WrapperOK(DecreaseBalance(w, delta, t), t)
         /\ Conserves(w, DecreaseBalance(w, delta, t))
<1> DEFINE v == ClaimEmissions(w, t)
           x == GetAssetShares(w.bank, AssetDecrease(w, delta))
           y == GetLiabilityShares(w.bank, LiabilityIncrease(w, delta))
<1>1. /\ w.bank.asset_share_value \in Nat \ {0} /\ w.bank.liability_share_value \in Nat \ {0}
      /\ w.balance.asset_shares \in Nat /\ w.balance.liability_shares \in Nat
  BY DEF WrapperOK, BankRecords, BalanceRecords
<1>2. y \in Nat
  <2>1. LiabilityIncrease(w, delta) \in Nat  BY AmountsNat DEF LiabilityIncrease, Greatest
  <2> QED BY <1>1, <2>1, DivNat DEF GetLiabilityShares
<1>3. x \in Nat /\ x <= w.balance.asset_shares
  BY Zenon, <1>1, ShareDecrease DEF GetAssetShares, AssetDecrease, AssetAmount, GetAssetAmount
<1>s. \/ w.balance.asset_shares - x < EMPTY_BALANCE_THRESHOLD
      \/ w.balance.liability_shares + y < EMPTY_BALANCE_THRESHOLD
  <2>1. AssetAmount(w) \in Nat /\ LiabilityAmount(w) \in Nat  BY AmountsNat
  <2>2. CASE delta > AssetAmount(w)
    <3>1. AssetDecrease(w, delta) = AssetAmount(w)  BY <2>1, <2>2 DEF AssetDecrease, Least
    <3>2. w.balance.asset_shares - x < ONE
      BY <1>1, <3>1, ResidueSmall DEF GetAssetShares, AssetAmount, GetAssetAmount
    <3> QED BY <3>2 DEF EMPTY_BALANCE_THRESHOLD
  <2>3. CASE ~(delta > AssetAmount(w))
    <3>1. LiabilityIncrease(w, delta) = 0  BY <2>1, <2>3 DEF LiabilityIncrease, Greatest
    <3>2. y = 0
      <4>1. y = (0 * ONE) \div w.bank.liability_share_value  BY <3>1 DEF GetLiabilityShares, Div
      <4>2. 0 * ONE = 0  BY OneAssumption
      <4> QED BY <1>1, <4>1, <4>2
    <3>3. SideAsserted(w.balance)  BY DEF WrapperOK
    <3> HIDE DEF x, y
    <3> QED BY <1>1, <1>3, <3>2, <3>3, OneAssumption DEF SideAsserted, EMPTY_BALANCE_THRESHOLD
  <2> QED BY <2>2, <2>3
<1>4. /\ WrapperOK(v, t) /\ Conserves(w, v)
      /\ v.balance.asset_shares = w.balance.asset_shares
      /\ v.balance.liability_shares = w.balance.liability_shares
  BY ClaimEmissionsOK
<1>5. DecreaseBalance(w, delta, t) = ChangeShares(v, -x, y)  BY DEF DecreaseBalance
<1> HIDE DEF v, x, y
<1>6. -x \in Int /\ y \in Int /\ v.balance.asset_shares + (-x) >= 0 /\ v.balance.liability_shares + y >= 0
      /\ \/ v.balance.asset_shares + (-x) < EMPTY_BALANCE_THRESHOLD
         \/ v.balance.liability_shares + y < EMPTY_BALANCE_THRESHOLD
  BY <1>1, <1>2, <1>3, <1>s, <1>4, OneAssumption DEF EMPTY_BALANCE_THRESHOLD
<1>7. WrapperOK(ChangeShares(v, -x, y), t) /\ Conserves(v, ChangeShares(v, -x, y))
  BY <1>4, <1>6, ChangeSharesOK
<1>8. Conserves(w, ChangeShares(v, -x, y))  BY <1>4, <1>7, ConservesTrans
<1> QED BY <1>5, <1>7, <1>8

\* BankAccountWrapper::find_or_create.
LEMMA FindOrCreateOK ==
  ASSUME NEW t \in Nat, NEW w, WrapperOK(w, t)
  PROVE  /\ WrapperOK(FindOrCreate(w.bank, w.balance, t), t)
         /\ Conserves(w, FindOrCreate(w.bank, w.balance, t))
<1> DEFINE d == IF w.balance.active THEN w.balance
                ELSE [EmptyDeactivated EXCEPT !.active = TRUE, !.last_update = t]
           v == [bank |-> w.bank, balance |-> d]
<1>1. d \in BalanceRecords /\ d.last_update <= t
      /\ d.asset_shares <= w.balance.asset_shares
      /\ d.liability_shares <= w.balance.liability_shares
      /\ d.emissions_outstanding <= w.balance.emissions_outstanding
  <2>1. w.balance \in BalanceRecords /\ w.balance.last_update <= t  BY DEF WrapperOK
  <2>2. CASE w.balance.active
    <3>1. d = w.balance  BY <2>2
    <3> HIDE DEF d
    <3> QED BY <2>1, <3>1 DEF BalanceRecords
  <2>3. CASE ~w.balance.active
    <3>1. d = [active |-> TRUE, asset_shares |-> 0, liability_shares |-> 0,
               emissions_outstanding |-> 0, last_update |-> t]
      BY Zenon, <2>3 DEF EmptyDeactivated
    <3> HIDE DEF d
    <3> QED BY <2>1, <3>1 DEF BalanceRecords
  <2> QED BY <2>2, <2>3
<1>2. /\ v.bank = w.bank /\ v.balance = d /\ v = [bank |-> v.bank, balance |-> v.balance]
      /\ FindOrCreate(w.bank, w.balance, t) = v
  BY DEF FindOrCreate
<1>3. /\ w.bank.total_asset_shares \in Nat /\ w.bank.total_liability_shares \in Nat
      /\ w.bank.emissions_remaining \in Nat /\ w.balance.emissions_outstanding \in Nat
      /\ w.balance.asset_shares \in Nat /\ w.balance.liability_shares \in Nat
  BY DEF WrapperOK, BankRecords, BalanceRecords
<1>4. /\ d.asset_shares \in Nat /\ d.liability_shares \in Nat /\ d.emissions_outstanding \in Nat
  BY Zenon, <1>1 DEF BalanceRecords
<1> HIDE DEF d, v
<1>a. SideAsserted(v.balance)
  BY <1>1, <1>2, <1>3, <1>4, OneAssumption DEF WrapperOK, SideAsserted, EMPTY_BALANCE_THRESHOLD
<1>5. WrapperOK(v, t)  BY <1>a, <1>1, <1>2, <1>3, <1>4 DEF WrapperOK
<1>6. Conserves(w, v)  BY <1>1, <1>2, <1>3, <1>4 DEF Conserves
<1> QED BY <1>2, <1>5, <1>6

\* A closed balance: the shares of the side being closed leave the totals.
LEMMA CloseOK ==
  ASSUME NEW t \in Nat, NEW w, WrapperOK(w, t), NEW c \in BankRecords,
         c.last_update <= t, c.emissions_remaining <= w.bank.emissions_remaining
                                                        + w.balance.emissions_outstanding,
         c.asset_share_value = w.bank.asset_share_value,
         c.liability_share_value = w.bank.liability_share_value,
         c.total_asset_shares >= w.bank.total_asset_shares - w.balance.asset_shares,
         c.total_liability_shares >= w.bank.total_liability_shares - w.balance.liability_shares
  PROVE  /\ WrapperOK([bank |-> c, balance |-> EmptyDeactivated], t)
         /\ Conserves(w, [bank |-> c, balance |-> EmptyDeactivated])
<1> DEFINE v == [bank |-> c, balance |-> EmptyDeactivated]
<1>1. v.bank = c /\ v.balance = EmptyDeactivated /\ v = [bank |-> v.bank, balance |-> v.balance]
  OBVIOUS
<1>2. /\ EmptyDeactivated \in BalanceRecords /\ EmptyDeactivated.asset_shares = 0
      /\ EmptyDeactivated.liability_shares = 0 /\ EmptyDeactivated.emissions_outstanding = 0
      /\ EmptyDeactivated.last_update = 0
  BY DEF BalanceRecords, EmptyDeactivated
<1>3. /\ c.total_asset_shares \in Nat /\ c.total_liability_shares \in Nat
      /\ c.emissions_remaining \in Nat
  BY DEF BankRecords
<1> HIDE DEF v
<1>a. SideAsserted(v.balance)
  BY <1>1, <1>2, OneAssumption DEF SideAsserted, EMPTY_BALANCE_THRESHOLD
<1>4. WrapperOK(v, t)  BY <1>a, <1>1, <1>2, <1>3 DEF WrapperOK
<1>5. Conserves(w, v)  BY <1>1, <1>2, <1>3 DEF Conserves
<1> QED BY <1>4, <1>5 DEF v

\* The fraction of a token between an amount and its rounding is non-negative.
LEMMA RoundingNat ==
  ASSUME NEW x \in Nat
  PROVE  /\ FloorTokens(x) \in Nat /\ x - FloorTokens(x) * ONE \in Nat
         /\ CeilTokens(x) \in Nat /\ CeilTokens(x) * ONE - x \in Nat
<1>0. ONE \in Nat \ {0}  BY OneAssumption
<1> DEFINE f == x \div ONE
           c == (x + ONE - 1) \div ONE
<1>1. f \in Nat /\ ONE * f <= x  BY <1>0, DivBounds
<1>2. c \in Nat /\ x + ONE - 1 < ONE * c + ONE
  <2>1. x + ONE - 1 \in Nat  BY <1>0
  <2> QED BY <1>0, <2>1, DivBounds
<1> HIDE DEF f, c
<1>3. f * ONE = ONE * f /\ ONE * f \in Nat  BY <1>0, <1>1, NatProduct
<1>4. c * ONE = ONE * c /\ ONE * c \in Nat  BY <1>0, <1>2, NatProduct
<1>5. x - f * ONE \in Nat  BY <1>1, <1>3
<1>6. c * ONE - x \in Nat  BY <1>0, <1>2, <1>4
<1> QED BY <1>1, <1>2, <1>5, <1>6 DEF FloorTokens, CeilTokens, f, c

\* What a claim leaves in the pool was there or is owed.
LEMMA ClaimedPool ==
  ASSUME NEW t \in Nat, NEW w, WrapperOK(w, t)
  PROVE  ClaimEmissions(w, t).bank.emissions_remaining
           <= w.bank.emissions_remaining + w.balance.emissions_outstanding
<1> DEFINE b == ClaimEmissions(w, t).bank
           d == ClaimEmissions(w, t).balance
<1>1. WrapperOK(ClaimEmissions(w, t), t) /\ Conserves(w, ClaimEmissions(w, t))
  BY ClaimEmissionsOK
<1>2. b.emissions_remaining + d.emissions_outstanding
        <= w.bank.emissions_remaining + w.balance.emissions_outstanding
  BY <1>1 DEF Conserves
<1>3. b.emissions_remaining \in Nat /\ d.emissions_outstanding \in Nat
      /\ w.bank.emissions_remaining \in Nat /\ w.balance.emissions_outstanding \in Nat
  BY <1>1 DEF WrapperOK, BankRecords, BalanceRecords
<1> HIDE DEF b, d
<1>4. b.emissions_remaining <= w.bank.emissions_remaining + w.balance.emissions_outstanding
  BY <1>2, <1>3
<1> QED BY <1>4 DEF b

\* withdraw_all.
LEMMA WithdrawAllOK ==
  ASSUME NEW t \in Nat, NEW w, WrapperOK(w, t)
  PROVE  WrapperOK(WithdrawAll(w, t), t) /\ Conserves(w, WithdrawAll(w, t))
<1> DEFINE b == ClaimEmissions(w, t).bank
           fee == AssetAmount(w) - WithdrawAllTokens(w) * ONE
           tas == b.total_asset_shares + (-w.balance.asset_shares)
           fees == b.collected_insurance_fees_outstanding + AssetAmount(w) - WithdrawAllTokens(w) * ONE
           c == [b EXCEPT !.total_asset_shares = tas,
                          !.collected_insurance_fees_outstanding = fees]
<1>1. /\ WrapperOK(ClaimEmissions(w, t), t) /\ Conserves(w, ClaimEmissions(w, t))
      /\ b.total_asset_shares = w.bank.total_asset_shares
      /\ b.total_liability_shares = w.bank.total_liability_shares
  BY ClaimEmissionsOK
<1>2. /\ b \in BankRecords /\ b.last_update <= t
      /\ b.asset_share_value = w.bank.asset_share_value
      /\ b.liability_share_value = w.bank.liability_share_value
  BY <1>1 DEF WrapperOK, Conserves
<1>3. /\ w.bank.total_asset_shares \in Nat /\ w.bank.total_liability_shares \in Nat
      /\ w.balance.asset_shares \in Nat /\ w.balance.liability_shares \in Nat
      /\ w.balance.asset_shares <= w.bank.total_asset_shares
  BY DEF WrapperOK, BankRecords, BalanceRecords
<1>4. b.emissions_remaining <= w.bank.emissions_remaining + w.balance.emissions_outstanding
  BY ClaimedPool
<1>5. WithdrawAll(w, t) = [bank |-> c, balance |-> EmptyDeactivated]
  BY <1>2 DEF WithdrawAll, ChangeAssetShares, BankRecords
<1>6. fee \in Nat  BY AmountsNat, RoundingNat DEF WithdrawAllTokens
<1>7. AssetAmount(w) \in Nat /\ WithdrawAllTokens(w) * ONE \in Nat
  <2>1. AssetAmount(w) \in Nat  BY AmountsNat
  <2>2. WithdrawAllTokens(w) \in Nat  BY <2>1, RoundingNat DEF WithdrawAllTokens
  <2> QED BY <2>1, <2>2, NatProduct, OneAssumption
<1> HIDE DEF b
<1>8. tas \in Nat /\ tas = w.bank.total_asset_shares - w.balance.asset_shares  BY <1>1, <1>3
<1>9. fees \in Nat
  <2>1. b.collected_insurance_fees_outstanding \in Nat  BY <1>2 DEF BankRecords
  <2> QED BY <2>1, <1>6, <1>7
<1> HIDE DEF tas, fees
<1>10. c \in BankRecords  BY Zenon, <1>2, <1>8, <1>9 DEF BankRecords
<1>11. /\ c.total_asset_shares = tas /\ c.total_liability_shares = b.total_liability_shares
       /\ c.last_update = b.last_update /\ c.emissions_remaining = b.emissions_remaining
       /\ c.asset_share_value = b.asset_share_value
       /\ c.liability_share_value = b.liability_share_value
  BY <1>2 DEF BankRecords
<1> HIDE DEF c
<1>12. /\ c.total_asset_shares >= w.bank.total_asset_shares - w.balance.asset_shares
       /\ c.total_liability_shares >= w.bank.total_liability_shares - w.balance.liability_shares
  BY <1>1, <1>3, <1>8, <1>11
<1> QED BY <1>2, <1>4, <1>5, <1>10, <1>11, <1>12, CloseOK

\* repay_all.
LEMMA RepayAllOK ==
  ASSUME NEW t \in Nat, NEW w, WrapperOK(w, t)
  PROVE  WrapperOK(RepayAll(w, t), t) /\ Conserves(w, RepayAll(w, t))
<1> DEFINE b == ClaimEmissions(w, t).bank
           fee == RepayAllTokens(w) * ONE - LiabilityAmount(w)
           tls == b.total_liability_shares + (-w.balance.liability_shares)
           fees == b.collected_insurance_fees_outstanding + RepayAllTokens(w) * ONE - LiabilityAmount(w)
           c == [b EXCEPT !.total_liability_shares = tls,
                          !.collected_insurance_fees_outstanding = fees]
<1>1. /\ WrapperOK(ClaimEmissions(w, t), t) /\ Conserves(w, ClaimEmissions(w, t))
      /\ b.total_asset_shares = w.bank.total_asset_shares
      /\ b.total_liability_shares = w.bank.total_liability_shares
  BY ClaimEmissionsOK
<1>2. /\ b \in BankRecords /\ b.last_update <= t
      /\ b.asset_share_value = w.bank.asset_share_value
      /\ b.liability_share_value = w.bank.liability_share_value
  BY <1>1 DEF WrapperOK, Conserves
<1>3. /\ w.bank.total_asset_shares \in Nat /\ w.bank.total_liability_shares \in Nat
      /\ w.balance.asset_shares \in Nat /\ w.balance.liability_shares \in Nat
      /\ w.balance.liability_shares <= w.bank.total_liability_shares
  BY DEF WrapperOK, BankRecords, BalanceRecords
<1>4. b.emissions_remaining <= w.bank.emissions_remaining + w.balance.emissions_outstanding
  BY ClaimedPool
<1>5. RepayAll(w, t) = [bank |-> c, balance |-> EmptyDeactivated]
  BY <1>2 DEF RepayAll, ChangeLiabilityShares, BankRecords
<1>6. fee \in Nat  BY AmountsNat, RoundingNat DEF RepayAllTokens
<1>7. LiabilityAmount(w) \in Nat /\ RepayAllTokens(w) * ONE \in Nat
  <2>1. LiabilityAmount(w) \in Nat  BY AmountsNat
  <2>2. RepayAllTokens(w) \in Nat  BY <2>1, RoundingNat DEF RepayAllTokens
  <2> QED BY <2>1, <2>2, NatProduct, OneAssumption
<1> HIDE DEF b
<1>8. tls \in Nat /\ tls = w.bank.total_liability_shares - w.balance.liability_shares  BY <1>1, <1>3
<1>9. fees \in Nat
  <2>1. b.collected_insurance_fees_outstanding \in Nat  BY <1>2 DEF BankRecords
  <2> QED BY <2>1, <1>6, <1>7
<1> HIDE DEF tls, fees
<1>10. c \in BankRecords  BY Zenon, <1>2, <1>8, <1>9 DEF BankRecords
<1>11. /\ c.total_liability_shares = tls /\ c.total_asset_shares = b.total_asset_shares
       /\ c.last_update = b.last_update /\ c.emissions_remaining = b.emissions_remaining
       /\ c.asset_share_value = b.asset_share_value
       /\ c.liability_share_value = b.liability_share_value
  BY <1>2 DEF BankRecords
<1> HIDE DEF c
<1>12. /\ c.total_asset_shares >= w.bank.total_asset_shares - w.balance.asset_shares
       /\ c.total_liability_shares >= w.bank.total_liability_shares - w.balance.liability_shares
  BY <1>1, <1>3, <1>8, <1>11
<1> QED BY <1>2, <1>4, <1>5, <1>10, <1>11, <1>12, CloseOK

\* close_balance.
LEMMA CloseBalanceOK ==
  ASSUME NEW t \in Nat, NEW w, WrapperOK(w, t)
  PROVE  WrapperOK(CloseBalance(w, t), t) /\ Conserves(w, CloseBalance(w, t))
<1> DEFINE b == ClaimEmissions(w, t).bank
<1>1. /\ WrapperOK(ClaimEmissions(w, t), t) /\ Conserves(w, ClaimEmissions(w, t))
      /\ b.total_asset_shares = w.bank.total_asset_shares
      /\ b.total_liability_shares = w.bank.total_liability_shares
  BY ClaimEmissionsOK
<1>2. /\ b \in BankRecords /\ b.last_update <= t
      /\ b.asset_share_value = w.bank.asset_share_value
      /\ b.liability_share_value = w.bank.liability_share_value
  BY <1>1 DEF WrapperOK, Conserves
<1>3. /\ w.bank.total_asset_shares \in Nat /\ w.bank.total_liability_shares \in Nat
      /\ w.balance.asset_shares \in Nat /\ w.balance.liability_shares \in Nat
  BY DEF WrapperOK, BankRecords, BalanceRecords
<1>4. b.emissions_remaining <= w.bank.emissions_remaining + w.balance.emissions_outstanding
  BY ClaimedPool
<1>5. CloseBalance(w, t) = [bank |-> b, balance |-> EmptyDeactivated]  BY DEF CloseBalance
<1> HIDE DEF b
<1>6. /\ b.total_asset_shares >= w.bank.total_asset_shares - w.balance.asset_shares
      /\ b.total_liability_shares >= w.bank.total_liability_shares - w.balance.liability_shares
  BY <1>1, <1>3
<1> QED BY <1>2, <1>4, <1>5, <1>6, CloseOK

\* A wrapper that does not change conserves shares and emissions.
LEMMA ConservesRefl ==
  ASSUME NEW t \in Nat, NEW w, WrapperOK(w, t)
  PROVE  Conserves(w, w)
<1>1. /\ w.bank.total_asset_shares \in Nat /\ w.balance.asset_shares \in Nat
      /\ w.bank.total_liability_shares \in Nat /\ w.balance.liability_shares \in Nat
      /\ w.bank.emissions_remaining \in Nat /\ w.balance.emissions_outstanding \in Nat
  BY DEF WrapperOK, BankRecords, BalanceRecords
<1> QED BY <1>1 DEF Conserves

\* Changing only the fee counters of the bank.
SameShares(b, c) ==
  /\ c.total_asset_shares = b.total_asset_shares
  /\ c.total_liability_shares = b.total_liability_shares
  /\ c.asset_share_value = b.asset_share_value
  /\ c.liability_share_value = b.liability_share_value
  /\ c.emissions_remaining = b.emissions_remaining
  /\ c.last_update = b.last_update

\* Booking a fee in the bank leaves its shares and share values alone.
LEMMA FeesOK ==
  ASSUME NEW t \in Nat, NEW w, WrapperOK(w, t), NEW c \in BankRecords, SameShares(w.bank, c)
  PROVE  /\ WrapperOK([bank |-> c, balance |-> w.balance], t)
         /\ Conserves(w, [bank |-> c, balance |-> w.balance])
<1> DEFINE v == [bank |-> c, balance |-> w.balance]
<1>1. v.bank = c /\ v.balance = w.balance /\ v = [bank |-> v.bank, balance |-> v.balance]
  OBVIOUS
<1> HIDE DEF v
<1>2. WrapperOK(v, t)  BY <1>1 DEF WrapperOK, SameShares
<1>3. /\ w.bank.total_asset_shares \in Nat /\ w.balance.asset_shares \in Nat
      /\ w.bank.total_liability_shares \in Nat /\ w.balance.liability_shares \in Nat
      /\ w.bank.emissions_remaining \in Nat /\ w.balance.emissions_outstanding \in Nat
  BY DEF WrapperOK, BankRecords, BalanceRecords
<1>4. Conserves(w, v)  BY <1>1, <1>3 DEF Conserves, SameShares
<1> QED BY <1>2, <1>4 DEF v

-----------------------------------------------------------------------------
(* The exact effect of an operation that moves shares.                     *)

\* From w to v: x asset shares and y liability shares are added, to the balance
\* and to the totals alike, and emissions are earned for time that has passed.
Moved(w, v, x, y, t) ==
  /\ v.bank.total_asset_shares = w.bank.total_asset_shares + x
  /\ v.bank.total_liability_shares = w.bank.total_liability_shares + y
  /\ v.balance.asset_shares = w.balance.asset_shares + x
  /\ v.balance.liability_shares = w.balance.liability_shares + y
  /\ v.bank.asset_share_value = w.bank.asset_share_value
  /\ v.bank.liability_share_value = w.bank.liability_share_value
  /\ v.bank.config = w.bank.config
  /\ v.balance.active = w.balance.active
  /\ v.balance.last_update = t
  /\ v.balance.emissions_outstanding > w.balance.emissions_outstanding => w.balance.last_update < t

\* Nothing is earned within one tick of the clock.
LEMMA NothingEarned ==
  ASSUME NEW t \in Nat, NEW w, WrapperOK(w, t), w.balance.last_update = t
  PROVE  EmissionsReal(w, t) = 0
<1>1. AssetAmount(w) \in Nat /\ LiabilityAmount(w) \in Nat  BY AmountsNat
<1>2. EarningAmount(w) \in Nat  BY <1>1 DEF EarningAmount
<1>3. EarningPeriod(w.balance, t) = 0  BY DEF EarningPeriod
<1>4. w.bank.emissions_rate \in Nat /\ w.bank.emissions_remaining \in Nat
  BY DEF WrapperOK, BankRecords
<1> DEFINE amount == EarningAmount(w) \div EXP10
<1>5. amount \in Nat  BY <1>2, DivBounds, BalanceAssumption
<1>6. 0 * amount = 0 /\ 0 \div SECONDS_PER_YEAR = 0 /\ 0 * w.bank.emissions_rate = 0
  <2> HIDE DEF amount
  <2> QED BY <1>4, <1>5, BankAssumption
<1>7. CalcEmissions(EarningPeriod(w.balance, t), EarningAmount(w), w.bank.emissions_rate) = 0
  BY <1>3, <1>6 DEF CalcEmissions
<1> QED BY <1>4, <1>7 DEF EmissionsReal, Least

\* claim_emissions moves no shares.
LEMMA ClaimEmissionsMoves ==
  ASSUME NEW t \in Nat, NEW w, WrapperOK(w, t)
  PROVE  Moved(w, ClaimEmissions(w, t), 0, 0, t)
<1> DEFINE e == EmissionsReal(w, t)
           v == ClaimEmissions(w, t)
<1>1. e \in Nat /\ w.bank \in BankRecords /\ w.balance \in BalanceRecords
      /\ w.balance.last_update <= t
  BY EmissionsNat DEF WrapperOK
<1>2. w.balance.last_update = t => e = 0  BY NothingEarned
<1>3. v = [bank    |-> [w.bank EXCEPT !.emissions_remaining = @ - e],
           balance |-> [w.balance EXCEPT !.emissions_outstanding = @ + e, !.last_update = t]]
  BY DEF ClaimEmissions
<1>4. /\ w.bank.total_asset_shares \in Nat /\ w.bank.total_liability_shares \in Nat
      /\ w.balance.asset_shares \in Nat /\ w.balance.liability_shares \in Nat
      /\ w.balance.emissions_outstanding \in Nat /\ w.balance.last_update \in Nat
  BY <1>1 DEF BankRecords, BalanceRecords
<1> HIDE DEF e, v
<1>5. /\ v.bank.total_asset_shares = w.bank.total_asset_shares
      /\ v.bank.total_liability_shares = w.bank.total_liability_shares
      /\ v.bank.asset_share_value = w.bank.asset_share_value
      /\ v.bank.liability_share_value = w.bank.liability_share_value
      /\ v.bank.config = w.bank.config
  BY <1>1, <1>3 DEF BankRecords
<1>6. /\ v.balance.asset_shares = w.balance.asset_shares
      /\ v.balance.liability_shares = w.balance.liability_shares
      /\ v.balance.active = w.balance.active /\ v.balance.last_update = t
      /\ v.balance.emissions_outstanding = w.balance.emissions_outstanding + e
  BY Zenon, <1>1, <1>3 DEF BalanceRecords
<1>7. v.balance.emissions_outstanding > w.balance.emissions_outstanding => w.balance.last_update < t
  BY <1>1, <1>2, <1>4, <1>6
<1> QED BY <1>4, <1>5, <1>6, <1>7 DEF Moved, v

\* Claiming emissions and then changing shares.
LEMMA ChangeSharesMoves ==
  ASSUME NEW t \in Nat, NEW w, WrapperOK(w, t), NEW x \in Int, NEW y \in Int
  PROVE  Moved(w, ChangeShares(ClaimEmissions(w, t), x, y), x, y, t)
<1> DEFINE u == ClaimEmissions(w, t)
           v == ChangeShares(u, x, y)
<1>1. Moved(w, u, 0, 0, t) /\ u.bank \in BankRecords /\ u.balance \in BalanceRecords
  BY ClaimEmissionsMoves, ClaimEmissionsOK DEF WrapperOK
<1> HIDE DEF u
<1>2. /\ w.bank.total_asset_shares \in Nat /\ w.bank.total_liability_shares \in Nat
      /\ w.balance.asset_shares \in Nat /\ w.balance.liability_shares \in Nat
  BY DEF WrapperOK, BankRecords, BalanceRecords
<1>3. v = [bank    |-> [u.bank EXCEPT !.total_asset_shares = @ + x, !.total_liability_shares = @ + y],
           balance |-> [u.balance EXCEPT !.asset_shares = @ + x, !.liability_shares = @ + y]]
  BY <1>1 DEF ChangeShares, ChangeAssetShares, ChangeLiabilityShares, BankRecords
<1> HIDE DEF v
<1>4. /\ v.bank.total_asset_shares = u.bank.total_asset_shares + x
      /\ v.bank.total_liability_shares = u.bank.total_liability_shares + y
      /\ v.bank.asset_share_value = u.bank.asset_share_value
      /\ v.bank.liability_share_value = u.bank.liability_share_value
      /\ v.bank.config = u.bank.config
  BY Zenon, <1>1, <1>3 DEF BankRecords
<1>5. /\ v.balance.asset_shares = u.balance.asset_shares + x
      /\ v.balance.liability_shares = u.balance.liability_shares + y
      /\ v.balance.active = u.balance.active /\ v.balance.last_update = u.balance.last_update
      /\ v.balance.emissions_outstanding = u.balance.emissions_outstanding
  BY Zenon, <1>1, <1>3 DEF BalanceRecords
<1>6. Moved(w, v, x, y, t)  BY <1>1, <1>2, <1>4, <1>5 DEF Moved
<1> QED BY <1>6 DEF u, v

\* The shares that increase_balance_internal and decrease_balance_internal move.
LEMMA MovedSharesNat ==
  ASSUME NEW t \in Nat, NEW w, WrapperOK(w, t), NEW delta \in Nat
  PROVE  /\ AssetIncrease(w, delta) \in Nat /\ LiabilityDecrease(w, delta) \in Nat
         /\ AssetDecrease(w, delta) \in Nat /\ LiabilityIncrease(w, delta) \in Nat
         /\ GetAssetShares(w.bank, AssetIncrease(w, delta)) \in Nat
         /\ GetLiabilityShares(w.bank, LiabilityDecrease(w, delta)) \in Nat
         /\ GetAssetShares(w.bank, AssetDecrease(w, delta)) \in Nat
         /\ GetLiabilityShares(w.bank, LiabilityIncrease(w, delta)) \in Nat
<1>1. AssetAmount(w) \in Nat /\ LiabilityAmount(w) \in Nat  BY AmountsNat
<1>2. /\ AssetIncrease(w, delta) \in Nat /\ LiabilityDecrease(w, delta) \in Nat
      /\ AssetDecrease(w, delta) \in Nat /\ LiabilityIncrease(w, delta) \in Nat
  BY <1>1 DEF AssetIncrease, LiabilityDecrease, AssetDecrease, LiabilityIncrease, Least, Greatest
<1>3. w.bank.asset_share_value \in Nat \ {0} /\ w.bank.liability_share_value \in Nat \ {0}
  BY DEF WrapperOK, BankRecords
<1> QED BY <1>2, <1>3, DivNat DEF GetAssetShares, GetLiabilityShares

\* increase_balance_internal and decrease_balance_internal.
LEMMA BalanceMoves ==
  ASSUME NEW t \in Nat, NEW w, WrapperOK(w, t), NEW delta \in Nat
  PROVE  /\ Moved(w, IncreaseBalance(w, delta, t), GetAssetShares(w.bank, AssetIncrease(w, delta)),
                  -GetLiabilityShares(w.bank, LiabilityDecrease(w, delta)), t)
         /\ Moved(w, DecreaseBalance(w, delta, t), -GetAssetShares(w.bank, AssetDecrease(w, delta)),
                  GetLiabilityShares(w.bank, LiabilityIncrease(w, delta)), t)
<1> DEFINE x == GetAssetShares(w.bank, AssetIncrease(w, delta))
           y == GetLiabilityShares(w.bank, LiabilityDecrease(w, delta))
           p == GetAssetShares(w.bank, AssetDecrease(w, delta))
           q == GetLiabilityShares(w.bank, LiabilityIncrease(w, delta))
<1>1. x \in Nat /\ y \in Nat /\ p \in Nat /\ q \in Nat  BY MovedSharesNat
<1>2. /\ IncreaseBalance(w, delta, t) = ChangeShares(ClaimEmissions(w, t), x, -y)
      /\ DecreaseBalance(w, delta, t) = ChangeShares(ClaimEmissions(w, t), -p, q)
  BY DEF IncreaseBalance, DecreaseBalance
<1> HIDE DEF x, y, p, q
<1>3. -y \in Int /\ -p \in Int /\ x \in Int /\ q \in Int  BY <1>1
<1>4. /\ Moved(w, ChangeShares(ClaimEmissions(w, t), x, -y), x, -y, t)
      /\ Moved(w, ChangeShares(ClaimEmissions(w, t), -p, q), -p, q, t)
  BY Zenon, <1>3, ChangeSharesMoves
<1> QED BY <1>2, <1>4 DEF x, y, p, q

-----------------------------------------------------------------------------
(* A bank and all its balances: bank b, the balances bs of accounts A, e   *)
(* units of emissions in the vault, time t.                                *)

AssetsOf(bs) == [a \in DOMAIN bs |-> bs[a].asset_shares]
LiabilitiesOf(bs) == [a \in DOMAIN bs |-> bs[a].liability_shares]
EmissionsOf(bs) == [a \in DOMAIN bs |-> bs[a].emissions_outstanding]

LedgerOK(A, b, bs, e, t) ==
  /\ b \in BankRecords
  /\ bs \in [A -> BalanceRecords]
  /\ SumFunction(AssetsOf(bs)) <= b.total_asset_shares
  /\ SumFunction(LiabilitiesOf(bs)) <= b.total_liability_shares
  /\ SumFunction(EmissionsOf(bs)) + b.emissions_remaining <= e
  /\ b.last_update <= t
  /\ \A a \in A : bs[a].last_update <= t
  /\ \A a \in A : SideAsserted(bs[a])

\* The shares and emissions of each Balance are natural numbers.
LEMMA SummandsNat ==
  ASSUME NEW A, IsFiniteSet(A), NEW bs \in [A -> BalanceRecords]
  PROVE  /\ AssetsOf(bs) \in [A -> Nat]
         /\ LiabilitiesOf(bs) \in [A -> Nat]
         /\ EmissionsOf(bs) \in [A -> Nat]
BY DEF AssetsOf, LiabilitiesOf, EmissionsOf, BalanceRecords

\* So are their sums over all accounts.
LEMMA SumsNat ==
  ASSUME NEW A, IsFiniteSet(A), NEW bs \in [A -> BalanceRecords]
  PROVE  /\ SumFunction(AssetsOf(bs)) \in Nat
         /\ SumFunction(LiabilitiesOf(bs)) \in Nat
         /\ SumFunction(EmissionsOf(bs)) \in Nat
BY SummandsNat, SumNat

\* Every balance can be wrapped with the bank.
LEMMA WrapOK ==
  ASSUME NEW A, IsFiniteSet(A), NEW b, NEW bs, NEW e, NEW t, LedgerOK(A, b, bs, e, t), NEW a \in A
  PROVE  WrapperOK([bank |-> b, balance |-> bs[a]], t)
<1> DEFINE w == [bank |-> b, balance |-> bs[a]]
<1>1. bs \in [A -> BalanceRecords] /\ b \in BankRecords  BY DEF LedgerOK
<1>2. /\ AssetsOf(bs)[a] <= SumFunction(AssetsOf(bs)) /\ LiabilitiesOf(bs)[a] <= SumFunction(LiabilitiesOf(bs))
      /\ SumFunction(AssetsOf(bs)) \in Nat /\ SumFunction(LiabilitiesOf(bs)) \in Nat
  BY <1>1, SummandsNat, SumNat
<1>3. AssetsOf(bs)[a] = bs[a].asset_shares /\ LiabilitiesOf(bs)[a] = bs[a].liability_shares
  BY <1>1 DEF AssetsOf, LiabilitiesOf
<1>4. bs[a] \in BalanceRecords /\ bs[a].asset_shares \in Nat /\ bs[a].liability_shares \in Nat
      /\ b.total_asset_shares \in Nat /\ b.total_liability_shares \in Nat
  BY <1>1 DEF BalanceRecords, BankRecords
<1>5. bs[a].asset_shares <= b.total_asset_shares /\ bs[a].liability_shares <= b.total_liability_shares
  BY <1>2, <1>3, <1>4 DEF LedgerOK
<1>6. w.bank = b /\ w.balance = bs[a] /\ w = [bank |-> w.bank, balance |-> w.balance]  OBVIOUS
<1> HIDE DEF w
<1>7. WrapperOK(w, t)  BY <1>1, <1>4, <1>5, <1>6 DEF WrapperOK, LedgerOK
<1> QED BY <1>7 DEF w

\* The sums over balances cs are those over bs but for account a, which now
\* has balance d.
SumsMove(bs, cs, a, d) ==
  /\ SumFunction(AssetsOf(cs)) = SumFunction(AssetsOf(bs)) + d.asset_shares - bs[a].asset_shares
  /\ SumFunction(LiabilitiesOf(cs))
       = SumFunction(LiabilitiesOf(bs)) + d.liability_shares - bs[a].liability_shares
  /\ SumFunction(EmissionsOf(cs))
       = SumFunction(EmissionsOf(bs)) + d.emissions_outstanding - bs[a].emissions_outstanding

\* Changing one balance changes a sum by the change of that balance.
LEMMA SumsChange ==
  ASSUME NEW A, IsFiniteSet(A), NEW bs \in [A -> BalanceRecords], NEW a \in A,
         NEW cs \in [A -> BalanceRecords], NEW d, d = cs[a],
         \A x \in A : x # a => cs[x] = bs[x]
  PROVE  SumsMove(bs, cs, a, d)
<1>1. /\ AssetsOf(bs) \in [A -> Nat] /\ LiabilitiesOf(bs) \in [A -> Nat]
      /\ EmissionsOf(bs) \in [A -> Nat]
      /\ AssetsOf(cs) \in [A -> Nat] /\ LiabilitiesOf(cs) \in [A -> Nat]
      /\ EmissionsOf(cs) \in [A -> Nat]
  BY SummandsNat
<1>2. /\ \A x \in A : x # a => AssetsOf(cs)[x] = AssetsOf(bs)[x]
      /\ AssetsOf(cs)[a] = d.asset_shares /\ AssetsOf(bs)[a] = bs[a].asset_shares
  BY DEF AssetsOf
<1>3. /\ \A x \in A : x # a => LiabilitiesOf(cs)[x] = LiabilitiesOf(bs)[x]
      /\ LiabilitiesOf(cs)[a] = d.liability_shares /\ LiabilitiesOf(bs)[a] = bs[a].liability_shares
  BY DEF LiabilitiesOf
<1>4. /\ \A x \in A : x # a => EmissionsOf(cs)[x] = EmissionsOf(bs)[x]
      /\ EmissionsOf(cs)[a] = d.emissions_outstanding
      /\ EmissionsOf(bs)[a] = bs[a].emissions_outstanding
  BY DEF EmissionsOf
<1>5. SumFunction(AssetsOf(cs)) = SumFunction(AssetsOf(bs)) + d.asset_shares - bs[a].asset_shares
  BY <1>1, <1>2, SumChange
<1>6. SumFunction(LiabilitiesOf(cs)) = SumFunction(LiabilitiesOf(bs)) + d.liability_shares - bs[a].liability_shares
  BY <1>1, <1>3, SumChange
<1>7. SumFunction(EmissionsOf(cs))
        = SumFunction(EmissionsOf(bs)) + d.emissions_outstanding - bs[a].emissions_outstanding
  BY <1>1, <1>4, SumChange
<1> QED BY Zenon, <1>5, <1>6, <1>7 DEF SumsMove

\* Storing a wrapper that keeps every share and owes no emissions the vault
\* does not cover.
LEMMA StoreOK ==
  ASSUME NEW A, IsFiniteSet(A), NEW b, NEW bs, NEW e \in Nat, NEW f \in Nat, NEW t \in Nat, LedgerOK(A, b, bs, e, t),
         NEW a \in A, NEW v, WrapperOK(v, t),
         Conserves([bank |-> b, balance |-> bs[a]], v),
         v.bank.emissions_remaining + v.balance.emissions_outstanding + e
           <= b.emissions_remaining + bs[a].emissions_outstanding + f
  PROVE  LedgerOK(A, v.bank, [bs EXCEPT ![a] = v.balance], f, t)
<1> DEFINE cs == [bs EXCEPT ![a] = v.balance]
           w == [bank |-> b, balance |-> bs[a]]
<1>1. /\ b \in BankRecords /\ bs \in [A -> BalanceRecords]
      /\ v.bank \in BankRecords /\ v.balance \in BalanceRecords
  BY DEF LedgerOK, WrapperOK
<1>2. /\ cs \in [A -> BalanceRecords]
      /\ SumFunction(AssetsOf(cs)) = SumFunction(AssetsOf(bs)) + v.balance.asset_shares - bs[a].asset_shares
      /\ SumFunction(LiabilitiesOf(cs))
           = SumFunction(LiabilitiesOf(bs)) + v.balance.liability_shares - bs[a].liability_shares
      /\ SumFunction(EmissionsOf(cs))
           = SumFunction(EmissionsOf(bs)) + v.balance.emissions_outstanding - bs[a].emissions_outstanding
  <2>1. cs \in [A -> BalanceRecords] /\ cs[a] = v.balance /\ \A x \in A : x # a => cs[x] = bs[x]
    BY <1>1
  <2> HIDE DEF cs
  <2>2. SumsMove(bs, cs, a, v.balance)  BY Zenon, <1>1, <2>1, SumsChange
  <2> QED BY Zenon, <2>1, <2>2 DEF SumsMove
<1>3. /\ SumFunction(AssetsOf(bs)) \in Nat /\ SumFunction(LiabilitiesOf(bs)) \in Nat
      /\ SumFunction(EmissionsOf(bs)) \in Nat
  BY <1>1, SumsNat
<1>4. bs[a] \in BalanceRecords  BY <1>1
<1>5. /\ bs[a].asset_shares \in Nat /\ bs[a].liability_shares \in Nat
      /\ bs[a].emissions_outstanding \in Nat
      /\ v.balance.asset_shares \in Nat /\ v.balance.liability_shares \in Nat
      /\ v.balance.emissions_outstanding \in Nat
  BY <1>1, <1>4 DEF BalanceRecords
<1>6. /\ b.total_asset_shares \in Nat /\ b.total_liability_shares \in Nat
      /\ b.emissions_remaining \in Nat
      /\ v.bank.total_asset_shares \in Nat /\ v.bank.total_liability_shares \in Nat
      /\ v.bank.emissions_remaining \in Nat
  BY <1>1 DEF BankRecords
<1>7. w.bank = b /\ w.balance = bs[a]  OBVIOUS
<1>8. /\ v.bank.total_asset_shares - v.balance.asset_shares
           >= b.total_asset_shares - bs[a].asset_shares
      /\ v.bank.total_liability_shares - v.balance.liability_shares
           >= b.total_liability_shares - bs[a].liability_shares
  <2> HIDE DEF w
  <2>1. Conserves(w, v)  BY DEF w
  <2> QED BY <1>7, <2>1 DEF Conserves
<1>9. /\ SumFunction(AssetsOf(bs)) <= b.total_asset_shares
      /\ SumFunction(LiabilitiesOf(bs)) <= b.total_liability_shares
      /\ SumFunction(EmissionsOf(bs)) + b.emissions_remaining <= e
  BY DEF LedgerOK
<1> HIDE DEF cs
<1>10. SumFunction(AssetsOf(cs)) <= v.bank.total_asset_shares
  BY <1>2, <1>3, <1>5, <1>6, <1>8, <1>9
<1>11. SumFunction(LiabilitiesOf(cs)) <= v.bank.total_liability_shares
  BY <1>2, <1>3, <1>5, <1>6, <1>8, <1>9
<1>12. SumFunction(EmissionsOf(cs)) + v.bank.emissions_remaining <= f
  BY <1>2, <1>3, <1>5, <1>6, <1>9
<1>13. v.bank.last_update <= t /\ \A x \in A : cs[x].last_update <= t
  <2>1. v.bank.last_update <= t /\ v.balance.last_update <= t  BY DEF WrapperOK
  <2>2. \A x \in A : bs[x].last_update <= t  BY DEF LedgerOK
  <2>3. \A x \in A : cs[x] = IF x = a THEN v.balance ELSE bs[x]  BY <1>1 DEF cs
  <2> QED BY <2>1, <2>2, <2>3
<1>a. \A x \in A : SideAsserted(cs[x])
  <2>1. \A x \in A : cs[x] = IF x = a THEN v.balance ELSE bs[x]  BY <1>1 DEF cs
  <2> QED BY <2>1 DEF WrapperOK, LedgerOK
<1>14. LedgerOK(A, v.bank, cs, f, t)  BY <1>a, <1>1, <1>2, <1>10, <1>11, <1>12, <1>13 DEF LedgerOK
<1> QED BY <1>14 DEF cs

\* The usual case: the emissions vault is not touched.
LEMMA StoreSame ==
  ASSUME NEW A, IsFiniteSet(A), NEW b, NEW bs, NEW e \in Nat, NEW t \in Nat, LedgerOK(A, b, bs, e, t),
         NEW a \in A, NEW v, WrapperOK(v, t),
         Conserves([bank |-> b, balance |-> bs[a]], v)
  PROVE  LedgerOK(A, v.bank, [bs EXCEPT ![a] = v.balance], e, t)
<1> DEFINE w == [bank |-> b, balance |-> bs[a]]
<1>1. w.bank = b /\ w.balance = bs[a]  OBVIOUS
<1>2. Conserves(w, v)  OBVIOUS
<1> HIDE DEF w
<1>3. v.bank.emissions_remaining + v.balance.emissions_outstanding
        <= b.emissions_remaining + bs[a].emissions_outstanding
  BY <1>1, <1>2 DEF Conserves
<1>4. /\ b \in BankRecords /\ bs[a] \in BalanceRecords
      /\ v.bank \in BankRecords /\ v.balance \in BalanceRecords
  BY DEF LedgerOK, WrapperOK
<1>5. /\ b.emissions_remaining \in Nat /\ bs[a].emissions_outstanding \in Nat
      /\ v.bank.emissions_remaining \in Nat /\ v.balance.emissions_outstanding \in Nat
  BY <1>4 DEF BankRecords, BalanceRecords
<1>6. v.bank.emissions_remaining + v.balance.emissions_outstanding + e
        <= b.emissions_remaining + bs[a].emissions_outstanding + e
  BY <1>3, <1>5
<1> QED BY <1>6, StoreOK

\* Changing only the bank.
LEMMA ChangeBankOK ==
  ASSUME NEW A, IsFiniteSet(A), NEW b, NEW bs, NEW e \in Nat, NEW f \in Nat, NEW t \in Nat, NEW u \in Nat,
         LedgerOK(A, b, bs, e, t), NEW c \in BankRecords,
         c.total_asset_shares = b.total_asset_shares,
         c.total_liability_shares = b.total_liability_shares,
         c.emissions_remaining + e <= b.emissions_remaining + f,
         c.last_update <= u, t <= u
  PROVE  LedgerOK(A, c, bs, f, u)
<1>1. b \in BankRecords /\ bs \in [A -> BalanceRecords]  BY DEF LedgerOK
<1>2. SumFunction(EmissionsOf(bs)) \in Nat  BY <1>1, SumsNat
<1>3. b.emissions_remaining \in Nat /\ c.emissions_remaining \in Nat  BY <1>1 DEF BankRecords
<1>4. SumFunction(EmissionsOf(bs)) + c.emissions_remaining <= f  BY <1>2, <1>3 DEF LedgerOK
<1>5. \A a \in A : bs[a].last_update <= u
  <2>1. \A a \in A : bs[a].last_update \in Nat  BY <1>1 DEF BalanceRecords
  <2> QED BY <2>1 DEF LedgerOK
<1> QED BY <1>1, <1>4, <1>5 DEF LedgerOK

\* The wrapper of a second balance, after the first one was stored.
LEMMA SecondWrapper ==
  ASSUME NEW A, IsFiniteSet(A), NEW e \in Nat, NEW t \in Nat, NEW b, NEW bs, LedgerOK(A, b, bs, e, t),
         NEW x \in A, NEW y \in A, x # y,
         NEW u, WrapperOK(u, t), Conserves([bank |-> b, balance |-> bs[x]], u)
  PROVE  WrapperOK([bank |-> u.bank, balance |-> bs[y]], t)
<1> DEFINE cs == [bs EXCEPT ![x] = u.balance]
<1>1. LedgerOK(A, u.bank, cs, e, t)  BY StoreSame
<1>2. cs[y] = bs[y]  BY DEF LedgerOK
<1> HIDE DEF cs
<1> QED BY <1>1, <1>2, WrapOK

\* The two balances that a liquidation changes in one bank.
LEMMA TwoStored ==
  ASSUME NEW A, IsFiniteSet(A), NEW b, NEW bs, NEW e \in Nat, NEW t \in Nat, LedgerOK(A, b, bs, e, t),
         NEW x \in A, NEW y \in A, x # y,
         NEW u, WrapperOK(u, t), Conserves([bank |-> b, balance |-> bs[x]], u),
         NEW v, WrapperOK(v, t), Conserves([bank |-> u.bank, balance |-> bs[y]], v)
  PROVE  /\ LedgerOK(A, v.bank, [bs EXCEPT ![x] = u.balance, ![y] = v.balance], e, t)
         /\ v.bank.liability_share_value = b.liability_share_value
<1> DEFINE cs == [bs EXCEPT ![x] = u.balance]
           w == [bank |-> b, balance |-> bs[x]]
           z == [bank |-> u.bank, balance |-> bs[y]]
<1>1. LedgerOK(A, u.bank, cs, e, t)  BY StoreSame
<1>2. bs \in [A -> BalanceRecords]  BY DEF LedgerOK
<1>3. /\ cs[y] = bs[y]
      /\ [cs EXCEPT ![y] = v.balance] = [bs EXCEPT ![x] = u.balance, ![y] = v.balance]
  BY <1>2
<1> HIDE DEF cs
<1>4. Conserves([bank |-> u.bank, balance |-> cs[y]], v)  BY <1>3
<1>5. LedgerOK(A, v.bank, [cs EXCEPT ![y] = v.balance], e, t)  BY <1>1, <1>4, StoreSame
<1>6. v.bank.liability_share_value = b.liability_share_value
  <2>1. w.bank = b /\ z.bank = u.bank  OBVIOUS
  <2>2. Conserves(w, u) /\ Conserves(z, v)  OBVIOUS
  <2> HIDE DEF w, z
  <2> QED BY <2>1, <2>2 DEF Conserves
<1> QED BY <1>3, <1>5, <1>6

\* The wrappers of a liquidation in which y takes n of the collateral of x,
\* and pays q for x to be relieved of r of its debt.
Seized(b, bs, x, n, t) == DecreaseBalance([bank |-> b, balance |-> bs[x]], n, t)
Bought(b, bs, x, y, n, t) == IncreaseBalance(FindOrCreate(Seized(b, bs, x, n, t).bank, bs[y], t), n, t)
Paid(b, bs, y, q, t) == DecreaseBalance(FindOrCreate(b, bs[y], t), q, t)
Relieved(b, bs, x, y, q, r, t) ==
  IncreaseBalance([bank |-> Paid(b, bs, y, q, t).bank, balance |-> bs[x]], r, t)

\* What it leaves in the bank of the collateral and in the bank of the debt,
\* where the dust of the insurance fee is booked.
SeizedBalances(b, bs, x, y, n, t) ==
  [bs EXCEPT ![x] = Seized(b, bs, x, n, t).balance, ![y] = Bought(b, bs, x, y, n, t).balance]
RelievedBank(b, bs, x, y, q, r, dust, t) ==
  [Relieved(b, bs, x, y, q, r, t).bank EXCEPT !.collected_insurance_fees_outstanding = @ + dust]
RelievedBalances(b, bs, x, y, q, r, t) ==
  [bs EXCEPT ![y] = Paid(b, bs, y, q, t).balance, ![x] = Relieved(b, bs, x, y, q, r, t).balance]

\* find_or_create on a bank and a balance of it.
LEMMA CreatedOK ==
  ASSUME NEW w, NEW t \in Nat, WrapperOK(w, t), NEW b, NEW balance, w = [bank |-> b, balance |-> balance]
  PROVE  /\ WrapperOK(FindOrCreate(b, balance, t), t)
         /\ Conserves(w, FindOrCreate(b, balance, t))
<1>1. w.bank = b /\ w.balance = balance  OBVIOUS
<1> QED BY <1>1, FindOrCreateOK

\* The bank of the collateral.
LEMMA SeizedLedger ==
  ASSUME NEW A, IsFiniteSet(A), NEW b, NEW bs, NEW e \in Nat, NEW t \in Nat, LedgerOK(A, b, bs, e, t),
         NEW x \in A, NEW y \in A, x # y, NEW n \in Nat
  PROVE  /\ LedgerOK(A, Bought(b, bs, x, y, n, t).bank, SeizedBalances(b, bs, x, y, n, t), e, t)
         /\ Bought(b, bs, x, y, n, t).bank.liability_share_value = b.liability_share_value
<1> DEFINE w == [bank |-> b, balance |-> bs[x]]
           seized == Seized(b, bs, x, n, t)
           second == [bank |-> seized.bank, balance |-> bs[y]]
           credited == FindOrCreate(seized.bank, bs[y], t)
           bought == Bought(b, bs, x, y, n, t)
<1>1. WrapperOK(w, t)  BY WrapOK
<1>2. WrapperOK(seized, t) /\ Conserves(w, seized)
  <2>1. seized = DecreaseBalance(w, n, t)  BY DEF Seized
  <2> HIDE DEF w, seized
  <2> QED BY <1>1, <2>1, DecreaseBalanceOK
<1> HIDE DEF seized
<1>3. WrapperOK(second, t)  BY <1>2, SecondWrapper
<1>4. WrapperOK(credited, t) /\ Conserves(second, credited)  BY <1>3, CreatedOK
<1>5. bought = IncreaseBalance(credited, n, t)  BY DEF Bought, seized
<1> HIDE DEF credited, bought
<1>6. WrapperOK(bought, t) /\ Conserves(credited, bought)  BY <1>4, <1>5, IncreaseBalanceOK
<1>7. Conserves(second, bought)
  <2> HIDE DEF second
  <2> QED BY <1>3, <1>4, <1>6, ConservesTrans
<1>8. /\ LedgerOK(A, bought.bank, [bs EXCEPT ![x] = seized.balance, ![y] = bought.balance], e, t)
      /\ bought.bank.liability_share_value = b.liability_share_value
  BY <1>2, <1>6, <1>7, TwoStored
<1> QED BY <1>8 DEF seized, bought, SeizedBalances

\* The bank of the debt.
LEMMA RelievedLedger ==
  ASSUME NEW A, IsFiniteSet(A), NEW b, NEW bs, NEW e \in Nat, NEW t \in Nat, LedgerOK(A, b, bs, e, t),
         NEW x \in A, NEW y \in A, x # y, NEW q \in Nat, NEW r \in Nat, NEW dust \in Nat
  PROVE  /\ LedgerOK(A, RelievedBank(b, bs, x, y, q, r, dust, t),
                     RelievedBalances(b, bs, x, y, q, r, t), e, t)
         /\ RelievedBank(b, bs, x, y, q, r, dust, t).liability_share_value = b.liability_share_value
<1> DEFINE w == [bank |-> b, balance |-> bs[y]]
           created == FindOrCreate(b, bs[y], t)
           paid == Paid(b, bs, y, q, t)
           indebted == [bank |-> paid.bank, balance |-> bs[x]]
           relieved == Relieved(b, bs, x, y, q, r, t)
           d == relieved.bank
           i1 == d.collected_insurance_fees_outstanding + dust
           c == RelievedBank(b, bs, x, y, q, r, dust, t)
           v == [bank |-> c, balance |-> relieved.balance]
<1>1. WrapperOK(w, t)  BY WrapOK
<1>2. WrapperOK(created, t) /\ Conserves(w, created)  BY <1>1, CreatedOK
<1>3. paid = DecreaseBalance(created, q, t)  BY DEF Paid
<1> HIDE DEF created, paid
<1>4. WrapperOK(paid, t) /\ Conserves(created, paid)  BY <1>2, <1>3, DecreaseBalanceOK
<1>5. Conserves(w, paid)
  <2> HIDE DEF w
  <2> QED BY <1>1, <1>2, <1>4, ConservesTrans
<1>6. WrapperOK(indebted, t)  BY <1>4, <1>5, SecondWrapper
<1>7. relieved = IncreaseBalance(indebted, r, t)  BY DEF Relieved, paid
<1> HIDE DEF relieved
<1>8. WrapperOK(relieved, t) /\ Conserves(indebted, relieved)
  <2> HIDE DEF indebted
  <2> QED BY <1>6, <1>7, IncreaseBalanceOK
<1>9. d \in BankRecords /\ d.collected_insurance_fees_outstanding \in Nat
  BY <1>8 DEF WrapperOK, BankRecords
<1>10. i1 \in Nat /\ c = [d EXCEPT !.collected_insurance_fees_outstanding = i1]
  BY <1>9 DEF relieved, RelievedBank
<1> HIDE DEF i1, c
<1>11. c \in BankRecords /\ SameShares(d, c)  BY <1>9, <1>10 DEF BankRecords, SameShares
<1>12. WrapperOK(v, t) /\ Conserves(relieved, v)  BY <1>8, <1>11, FeesOK
<1>13. v.bank = c /\ v.balance = relieved.balance  OBVIOUS
<1>14. Conserves(indebted, v)
  <2> HIDE DEF indebted, v
  <2> QED BY <1>6, <1>8, <1>12, ConservesTrans
<1> HIDE DEF v
<1>15. /\ LedgerOK(A, v.bank, [bs EXCEPT ![y] = paid.balance, ![x] = v.balance], e, t)
       /\ v.bank.liability_share_value = b.liability_share_value
  BY <1>4, <1>5, <1>12, <1>14, TwoStored
<1> QED BY <1>13, <1>15 DEF paid, relieved, c, RelievedBalances

\* After the accrual every handler starts with.
LEMMA AccruedLedger ==
  ASSUME NEW A, IsFiniteSet(A), NEW b, NEW bs, NEW e \in Nat, NEW t \in Nat, NEW g \in MarginfiGroups,
         LedgerOK(A, b, bs, e, t)
  PROVE  /\ LedgerOK(A, AccrueInterest(b, g, t), bs, e, t)
         /\ AccrualOK(b, AccrueInterest(b, g, t), t)
<1> DEFINE c == AccrueInterest(b, g, t)
<1>1. b \in BankRecords /\ b.last_update <= t /\ b.emissions_remaining \in Nat
  BY DEF LedgerOK, BankRecords
<1>2. AccrualOK(b, c, t)  BY <1>1, AccrueInterestOK
<1> HIDE DEF c
<1>3. /\ c \in BankRecords /\ c.total_asset_shares = b.total_asset_shares
      /\ c.total_liability_shares = b.total_liability_shares
      /\ c.emissions_remaining = b.emissions_remaining /\ c.last_update = t
  BY <1>1, <1>2 DEF AccrualOK
<1>4. c.emissions_remaining + e <= b.emissions_remaining + e /\ c.last_update <= t /\ t <= t
  BY <1>1, <1>3
<1>5. LedgerOK(A, c, bs, e, t)  BY <1>3, <1>4, ChangeBankOK
<1> QED BY <1>2, <1>5 DEF c

\* Spreading a loss that the deposits can bear over the depositors.
LEMMA SocializedLedger ==
  ASSUME NEW A, IsFiniteSet(A), NEW b, NEW bs, NEW e \in Nat, NEW t \in Nat,
         LedgerOK(A, b, bs, e, t), NEW loss \in Nat, b.total_asset_shares > 0,
         loss <= TotalAssets(b), SocializeLoss(b, loss).asset_share_value > 0
  PROVE  /\ LedgerOK(A, SocializeLoss(b, loss), bs, e, t)
         /\ SocializeLoss(b, loss).total_asset_shares = b.total_asset_shares
         /\ SocializeLoss(b, loss).total_liability_shares = b.total_liability_shares
         /\ SocializeLoss(b, loss).liability_share_value = b.liability_share_value
         /\ SocializeLoss(b, loss).config = b.config
         /\ SocializeLoss(b, loss).asset_share_value = Div(TotalAssets(b) - loss, b.total_asset_shares)
<1> DEFINE c == SocializeLoss(b, loss)
           asv == Div(TotalAssets(b) - loss, b.total_asset_shares)
<1>1. /\ b \in BankRecords /\ b.total_asset_shares \in Nat \ {0} /\ b.asset_share_value \in Nat
      /\ b.emissions_remaining \in Nat /\ b.last_update <= t
  BY DEF LedgerOK, BankRecords
<1>2. asv \in Nat
  <2>1. TotalAssets(b) \in Nat  BY Zenon, <1>1, MulNat DEF TotalAssets, GetAssetAmount
  <2>2. TotalAssets(b) - loss \in Nat  BY <2>1
  <2> QED BY <1>1, <2>2, DivNat
<1>3. c = [b EXCEPT !.asset_share_value = asv] /\ c.asset_share_value > 0  BY DEF SocializeLoss
<1> HIDE DEF asv, c
<1>4. c.asset_share_value = asv  BY <1>1, <1>3 DEF BankRecords
<1>5. asv \in Nat \ {0}  BY <1>2, <1>3, <1>4
<1>6. /\ c \in BankRecords /\ c.total_asset_shares = b.total_asset_shares
      /\ c.total_liability_shares = b.total_liability_shares
      /\ c.emissions_remaining = b.emissions_remaining
      /\ c.liability_share_value = b.liability_share_value
      /\ c.last_update = b.last_update /\ c.config = b.config
  BY <1>1, <1>3, <1>5 DEF BankRecords
<1>7. c.emissions_remaining + e <= b.emissions_remaining + e /\ c.last_update <= t /\ t <= t
  BY <1>1, <1>6
<1>8. LedgerOK(A, c, bs, e, t)  BY <1>6, <1>7, ChangeBankOK
<1> QED BY <1>4, <1>6, <1>8 DEF c, asv

\* A bank that was just created, with no balance in it.
LEMMA EmptyLedger ==
  ASSUME NEW A, IsFiniteSet(A), NEW config \in BankConfigs, NEW bs, NEW e \in Nat,
         bs = [a \in A |-> EmptyDeactivated]
  PROVE  LedgerOK(A, BankNew(config, 0), bs, e, 0)
<1> DEFINE b == BankNew(config, 0)
<1>0. ONE \in Nat \ {0}  BY OneAssumption
<1>1. /\ b \in BankRecords /\ b.total_asset_shares = 0 /\ b.total_liability_shares = 0
      /\ b.emissions_remaining = 0 /\ b.last_update = 0
  BY <1>0 DEF BankNew, BankRecords
<1>2. bs \in [A -> BalanceRecords] /\ \A a \in A : bs[a] = EmptyDeactivated
  BY DEF EmptyDeactivated, BalanceRecords
<1>3. /\ EmptyDeactivated.asset_shares = 0 /\ EmptyDeactivated.liability_shares = 0
      /\ EmptyDeactivated.emissions_outstanding = 0 /\ EmptyDeactivated.last_update = 0
  BY DEF EmptyDeactivated
<1>4. /\ \A a \in A : AssetsOf(bs)[a] = 0
      /\ \A a \in A : LiabilitiesOf(bs)[a] = 0
      /\ \A a \in A : EmissionsOf(bs)[a] = 0
  BY <1>2, <1>3 DEF AssetsOf, LiabilitiesOf, EmissionsOf
<1>5. /\ SumFunction(AssetsOf(bs)) = 0 /\ SumFunction(LiabilitiesOf(bs)) = 0
      /\ SumFunction(EmissionsOf(bs)) = 0
  BY <1>2, <1>4, SummandsNat, SumZero
<1>6. \A a \in A : SideAsserted(bs[a])
  BY <1>0, <1>2, <1>3 DEF SideAsserted, EMPTY_BALANCE_THRESHOLD
<1> HIDE DEF b
<1>7. LedgerOK(A, b, bs, e, 0)  BY <1>1, <1>2, <1>3, <1>5, <1>6 DEF LedgerOK
<1> QED BY <1>7 DEF b

\* A balance that close_account drops is still in the totals.
LEMMA DroppedLedger ==
  ASSUME NEW A, IsFiniteSet(A), NEW b, NEW bs, NEW e \in Nat, NEW t \in Nat,
         LedgerOK(A, b, bs, e, t), NEW a \in A
  PROVE  LedgerOK(A, b, [bs EXCEPT ![a] = EmptyDeactivated], e, t)
<1> DEFINE w == [bank |-> b, balance |-> bs[a]]
           v == [bank |-> b, balance |-> EmptyDeactivated]
<1>1. WrapperOK(w, t)  BY WrapOK
<1>2. w.bank = b /\ w.balance = bs[a] /\ v.bank = b /\ v.balance = EmptyDeactivated
  OBVIOUS
<1> HIDE DEF w
<1>3. /\ b \in BankRecords /\ b.last_update <= t
      /\ b.total_asset_shares \in Nat /\ b.total_liability_shares \in Nat
      /\ b.emissions_remaining \in Nat /\ bs[a].asset_shares \in Nat
      /\ bs[a].liability_shares \in Nat /\ bs[a].emissions_outstanding \in Nat
      /\ b.liability_share_value \in Nat
  BY <1>1, <1>2 DEF LedgerOK, WrapperOK, BankRecords, BalanceRecords
<1>4. /\ b.last_update <= t
      /\ b.emissions_remaining <= w.bank.emissions_remaining + w.balance.emissions_outstanding
      /\ b.asset_share_value = w.bank.asset_share_value
      /\ b.liability_share_value = w.bank.liability_share_value
      /\ b.total_asset_shares >= w.bank.total_asset_shares - w.balance.asset_shares
      /\ b.total_liability_shares >= w.bank.total_liability_shares - w.balance.liability_shares
  BY <1>2, <1>3
<1>5. b \in BankRecords  BY <1>3
<1>6. WrapperOK(v, t) /\ Conserves(w, v)  BY <1>1, <1>4, <1>5, CloseOK
<1> HIDE DEF v
<1>7. LedgerOK(A, v.bank, [bs EXCEPT ![a] = v.balance], e, t)  BY <1>6, StoreSame DEF w
<1> QED BY <1>2, <1>7

\* configure_bank changes no share.
LEMMA ConfigureOK ==
  ASSUME NEW b \in BankRecords, NEW config \in BankConfigs, NEW permissionless \in BOOLEAN
  PROVE  Configure(b, config, permissionless) \in BankRecords
         /\ SameShares(b, Configure(b, config, permissionless))
<1> DEFINE c == Configure(b, config, permissionless)
           ir == config.interest_rate_config
           fee == b.config.interest_rate_config.protocol_origination_fee
           ir1 == [ir EXCEPT !.protocol_origination_fee = fee]
           config1 == [config EXCEPT !.interest_rate_config = ir1]
           flags1 == IF permissionless THEN b.flags \cup {"PERMISSIONLESS_BAD_DEBT_SETTLEMENT"}
                     ELSE b.flags \ {"PERMISSIONLESS_BAD_DEBT_SETTLEMENT"}
<1>1. fee \in Nat /\ ir \in InterestRateConfigs
  BY DEF BankRecords, BankConfigs, InterestRateConfigs
<1>2. c = [b EXCEPT !.config = config1, !.flags = flags1]  BY DEF Configure, UpdateRates
<1> HIDE DEF c, fee, ir
<1>3. ir1 \in InterestRateConfigs  BY <1>1 DEF InterestRateConfigs
<1> HIDE DEF ir1
<1>4. config1 \in BankConfigs  BY <1>3 DEF BankConfigs
<1>5. flags1 \in SUBSET BankFlags
  <2>1. b.flags \in SUBSET BankFlags  BY DEF BankRecords
  <2> QED BY <2>1 DEF BankFlags
<1> HIDE DEF config1, flags1
<1>6. c \in BankRecords /\ SameShares(b, c)  BY Zenon, <1>2, <1>4, <1>5 DEF BankRecords, SameShares
<1> QED BY <1>6 DEF c

=============================================================================
