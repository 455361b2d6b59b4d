-------------------------- MODULE CatalogBomsProofs --------------------------
(***************************************************************************)
(* Proofs about bills of materials: the expansion of inventory.py ends     *)
(* with an error exactly where it should (BomFailsOnCycles), and counts    *)
(* each part as often as it is contained (BomCountsCopies).                *)
(*                                                                         *)
(* expand calls itself.  A call for an owner that is in its own path makes *)
(* no further call, so each call has one owner less that is not in its     *)
(* path (Weight) than the one that made it; by induction over that number  *)
(* the recursive function Expansion is defined on every call, and each of  *)
(* its values is what one body of expand makes of the calls below it       *)
(* (ExpansionIs).  The rest follows by the same induction (CallsInduct):   *)
(*                                                                         *)
(*   - Below is the least set closed under what owners contain (BelowLeast)*)
(*     and the owners of the calls without an error are such a set, as are *)
(*     those reached with an owner in their path: so no error means that   *)
(*     nothing leads to itself and that what has no inventory was skipped; *)
(*     and an error comes up from a call that has the cause of it;         *)
(*   - what a call found is its multiplier times what its owner has, level *)
(*     by level (FoundIs), and the sum over the owners of their copies,    *)
(*     which CopiesOf counts from the root down, times what they have is   *)
(*     the same (CopiesMakeTotals), by exchanging the sums of each level.  *)
(***************************************************************************)
EXTENDS CatalogQueriesProofs

------------------------------------------------------------------------------
(* Induction over the subsets of a finite set. *)
LEMMA Subsets ==
  ASSUME NEW S, IsFiniteSet(S), NEW T, {} \in T,
         \A s \in SUBSET S : \A x \in S \ s : s \in T => s \cup {x} \in T
  PROVE  S \in T
<1> DEFINE K == {k \in Nat : \A s \in SUBSET S : Cardinality(s) = k => s \in T}
<1>0. \A s \in SUBSET S : IsFiniteSet(s)
  BY FS_Subset
<1>1. 0 \in K
  BY <1>0, FS_EmptySet
<1>2. ASSUME NEW k \in Nat, k \in K PROVE k + 1 \in K
  <2> SUFFICES ASSUME NEW s \in SUBSET S, Cardinality(s) = k + 1 PROVE s \in T
    OBVIOUS
  <2>1. s # {}
    BY <1>0, FS_EmptySet
  <2> PICK x \in s : TRUE
    BY <2>1
  <2> PICK r : r = s \ {x}
    OBVIOUS
  <2>2. Cardinality(r) = k
    <3>1. Cardinality(r) = Cardinality(s) - 1
      BY <1>0, FS_RemoveElement
    <3> QED
      BY <3>1
  <2>3. r \in SUBSET S /\ x \in S \ r /\ s = r \cup {x}
    OBVIOUS
  <2>4. r \in T
    BY <1>2, <2>2, <2>3
  <2> QED
    BY <2>3, <2>4
<1> HIDE DEF K
<1>3. Cardinality(S) \in Nat
  BY FS_CardinalityType
<1>4. Cardinality(S) \in K
  BY <1>1, <1>2, <1>3, Induct
<1> QED
  BY <1>4 DEF K

(* What the sums over the subsets of a set are. *)
Adds(f, S, sum) ==
  /\ sum \in [SUBSET S -> Int] /\ sum[{}] = 0
  /\ \A s \in SUBSET S : \A x \in s : sum[s] = f[x] + sum[s \ {x}]

LEMMA AddsExist ==
  ASSUME NEW S, IsFiniteSet(S), NEW f, \A x \in S : f[x] \in Int
  PROVE  \E sum : Adds(f, S, sum)
<1> PICK n \in Nat : ExistsBijection(1 .. n, S)
  BY FS_NatBijection
<1> PICK b : b \in Bijection(1 .. n, S)
  BY DEF ExistsBijection
<1>0. /\ b \in [1 .. n -> S]
      /\ \A i, j \in 1 .. n : b[i] = b[j] => i = j
      /\ \A x \in S : \E i \in 1 .. n : b[i] = x
  BY DEF Bijection, Injection, Surjection, IsInjective
<1> DEFINE Only(s) == [i \in 1 .. n |-> IF b[i] \in s THEN f[b[i]] ELSE 0]
           Total(s) == CHOOSE t : Sums(t, Only(s), n)
<1>1. ASSUME NEW s \in SUBSET S PROVE Sums(Total(s), Only(s), n)
  <2>1. Only(s) \in [1 .. n -> Int]
    BY <1>0
  <2> HIDE DEF Only
  <2> QED
    BY <2>1, SumsExist
<1> PICK sum : sum = [s \in SUBSET S |-> Total(s)[n]]
  OBVIOUS
<1> HIDE DEF Total
<1>2. ASSUME NEW s \in SUBSET S PROVE sum[s] \in Int /\ sum[s] = Total(s)[n]
  <2>1. Total(s) \in [0 .. n -> Int]
    BY <1>1 DEF Sums
  <2> QED
    BY <2>1
<1>3. sum \in [SUBSET S -> Int]
  BY <1>2
<1>4. sum[{}] = 0
  <2> PICK s : s = {}
    OBVIOUS
  <2> PICK o : o = Only(s)
    OBVIOUS
  <2>1. \A i \in 1 .. n : o[i] = 0
    OBVIOUS
  <2>2. s \in SUBSET S /\ Sums(Total(s), o, n)
    BY <1>1
  <2>3. Total(s)[n] = 0
    BY <2>1, <2>2, SumOfZeros
  <2> QED
    BY <1>2, <2>2, <2>3
<1>5. ASSUME NEW s \in SUBSET S, NEW x \in s PROVE sum[s] = f[x] + sum[s \ {x}]
  <2> PICK r : r = s \ {x}
    OBVIOUS
  <2> PICK j \in 1 .. n : b[j] = x
    BY <1>0
  <2>o. PICK o : o = Only(r)
    OBVIOUS
  <2>p. PICK p : p = Only(s)
    OBVIOUS
  <2>1. \A i \in 1 .. n : o[i] \in Int
    BY <1>0, <2>o
  <2>q. PICK q : q = f[x]
    OBVIOUS
  <2>2. p[j] = o[j] + q /\ q \in Int
    BY <2>o, <2>p, <2>q
  <2>3. \A i \in 1 .. n : i # j => p[i] = o[i]
    BY <1>0, <2>o, <2>p
  <2>n. n \in Nat /\ j \in 1 .. n
    OBVIOUS
  <2>4. r \in SUBSET S /\ Sums(Total(r), o, n) /\ Sums(Total(s), p, n)
    BY <1>1, <2>o, <2>p
  <2> HIDE DEF Only
  <2>v. PICK u : u = Total(r)
    OBVIOUS
  <2>w. PICK v : v = Total(s)
    OBVIOUS
  <2>u. Sums(u, o, n) /\ Sums(v, p, n)
    BY <2>4, <2>v, <2>w
  <2>5. v[n] = u[n] + q
    BY <2>1, <2>2, <2>3, <2>n, <2>u, SumGrows
  <2>6. sum[s] = Total(s)[n] /\ sum[r] = Total(r)[n] /\ sum[r] \in Int
    BY <1>2, <2>4
  <2> QED
    BY <2>2, <2>5, <2>6, <2>q, <2>v, <2>w
<1>6. Adds(f, S, sum)
  BY <1>3, <1>4, <1>5 DEF Adds
<1> QED
  BY <1>6

SumOver(f, S) == SumFunctionOnSet(f, S)

LEMMA SumIs ==
  ASSUME NEW S, IsFiniteSet(S), NEW f, NEW sum, Adds(f, S, sum), NEW s \in SUBSET S
  PROVE  SumOver(f, s) = sum[s]
<1> DEFINE Equation(iter) ==
             iter = [t \in SUBSET s |->
                       IF t = {} THEN 0
                       ELSE f[CHOOSE x \in t : TRUE] + iter[t \ {CHOOSE x \in t : TRUE}]]
<1>0. /\ sum \in [SUBSET S -> Int] /\ sum[{}] = 0
      /\ \A t \in SUBSET S : \A x \in t : sum[t] = f[x] + sum[t \ {x}]
  BY DEF Adds
<1>1. Equation([t \in SUBSET s |-> sum[t]])
  <2> PICK g : g = [t \in SUBSET s |-> sum[t]]
    OBVIOUS
  <2>1. ASSUME NEW t \in SUBSET s, t # {}
        PROVE  g[t] = f[CHOOSE x \in t : TRUE] + g[t \ {CHOOSE x \in t : TRUE}]
    <3> PICK x : x = CHOOSE y \in t : TRUE
      OBVIOUS
    <3>1. x \in t
      BY <2>1
    <3>2. g[t] = sum[t] /\ g[t \ {x}] = sum[t \ {x}]
      OBVIOUS
    <3>3. sum[t] = f[x] + sum[t \ {x}]
      BY <1>0, <3>1
    <3> QED
      BY <3>2, <3>3
  <2>2. g[{}] = 0
    BY <1>0
  <2> QED
    BY <2>1, <2>2
<1>i. PICK iter : iter = CHOOSE g : Equation(g)
  OBVIOUS
<1>2. Equation(iter)
  <2> PICK g : g = [t \in SUBSET s |-> sum[t]]
    OBVIOUS
  <2>1. Equation(g)
    BY <1>1
  <2> HIDE DEF Equation
  <2> QED
    BY <1>i, <2>1
<1>3. SumOver(f, s) = iter[s]
  BY <1>i DEF SumOver, SumFunctionOnSet, FoldFunctionOnSet, MapThenFoldSet
<1>4. iter[{}] = 0
  BY <1>2
<1>5. ASSUME NEW t \in SUBSET s, t # {}
      PROVE  iter[t] = f[CHOOSE x \in t : TRUE] + iter[t \ {CHOOSE x \in t : TRUE}]
  BY <1>2, <1>5
<1> HIDE DEF Equation
<1> DEFINE K == {k \in Nat : \A t \in SUBSET s : Cardinality(t) = k => iter[t] = sum[t]}
<1>6. \A t \in SUBSET s : IsFiniteSet(t)
  BY FS_Subset
<1>7. 0 \in K
  <2>1. \A t \in SUBSET s : Cardinality(t) = 0 => t = {}
    BY <1>6, FS_EmptySet
  <2> QED
    BY <1>0, <1>4, <2>1
<1>8. ASSUME NEW k \in Nat, k \in K PROVE k + 1 \in K
  <2> SUFFICES ASSUME NEW t \in SUBSET s, Cardinality(t) = k + 1 PROVE iter[t] = sum[t]
    OBVIOUS
  <2>1. t # {}
    BY <1>6, FS_EmptySet
  <2> PICK x : x = CHOOSE y \in t : TRUE
    OBVIOUS
  <2>2. x \in t
    BY <2>1
  <2> PICK r : r = t \ {x}
    OBVIOUS
  <2>3. Cardinality(r) = k
    <3>1. Cardinality(r) = Cardinality(t) - 1
      BY <1>6, <2>2, FS_RemoveElement
    <3> QED
      BY <3>1
  <2>4. iter[r] = sum[r]
    BY <1>8, <2>3
  <2>5. iter[t] = f[x] + iter[r]
    BY <1>5, <2>1
  <2>6. sum[t] = f[x] + sum[r]
    BY <1>0, <2>2
  <2> QED
    BY <2>4, <2>5, <2>6
<1> HIDE DEF K
<1>9. Cardinality(s) \in Nat
  BY <1>6, FS_CardinalityType
<1>10. Cardinality(s) \in K
  BY <1>7, <1>8, <1>9, Induct
<1>11. iter[s] = sum[s]
  BY <1>10 DEF K
<1> QED
  BY <1>3, <1>11

(* Sums over finite sets. *)
Numbers(f, S) == IsFiniteSet(S) /\ \A x \in S : f[x] \in Int

LEMMA SumType ==
  ASSUME NEW S, NEW f, Numbers(f, S)
  PROVE  SumOver(f, S) \in Int
<1>0. IsFiniteSet(S) /\ \A x \in S : f[x] \in Int
  BY DEF Numbers
<1> PICK sum : Adds(f, S, sum)
  BY <1>0, AddsExist
<1>1. SumOver(f, S) = sum[S]
  BY <1>0, SumIs
<1> QED
  BY <1>1 DEF Adds

LEMMA SumEmpty ==
  ASSUME NEW f
  PROVE  SumOver(f, {}) = 0
<1>0. IsFiniteSet({}) /\ \A x \in {} : f[x] \in Int
  BY FS_EmptySet
<1> PICK sum : Adds(f, {}, sum)
  BY <1>0, AddsExist
<1>1. SumOver(f, {}) = sum[{}]
  BY <1>0, SumIs
<1> QED
  BY <1>1 DEF Adds

LEMMA SumWithout ==
  ASSUME NEW S, NEW f, Numbers(f, S), NEW x \in S
  PROVE  SumOver(f, S) = f[x] + SumOver(f, S \ {x})
<1>0. IsFiniteSet(S) /\ \A y \in S : f[y] \in Int
  BY DEF Numbers
<1> PICK sum : Adds(f, S, sum)
  BY <1>0, AddsExist
<1> PICK r : r = S \ {x}
  OBVIOUS
<1>1. SumOver(f, S) = sum[S] /\ SumOver(f, r) = sum[r]
  BY <1>0, SumIs
<1> QED
  BY <1>1 DEF Adds

(* A set with one element more. *)
IsWith(t, s, x) == x \in t /\ s = t \ {x}

LEMMA SumAdd ==
  ASSUME NEW f, NEW t, NEW s, NEW x, Numbers(f, t), IsWith(t, s, x)
  PROVE  SumOver(f, t) = f[x] + SumOver(f, s)
BY SumWithout DEF IsWith

LEMMA SumWith ==
  ASSUME NEW S, NEW f, Numbers(f, S), NEW s \in SUBSET S, NEW x \in S \ s
  PROVE  SumOver(f, s \cup {x}) = f[x] + SumOver(f, s)
<1> PICK t : t = s \cup {x}
  OBVIOUS
<1>1. x \in t /\ s = t \ {x} /\ t \in SUBSET S
  OBVIOUS
<1>2. Numbers(f, t)
  BY <1>1, FS_Subset DEF Numbers
<1> QED
  BY <1>1, <1>2, SumWithout

LEMMA SumPart ==
  ASSUME NEW S, NEW f, Numbers(f, S), NEW s \in SUBSET S
  PROVE  Numbers(f, s) /\ SumOver(f, s) \in Int
<1>1. Numbers(f, s)
  BY FS_Subset DEF Numbers
<1> QED
  BY <1>1, SumType

LEMMA SumSame ==
  ASSUME NEW S, NEW f, Numbers(f, S), NEW g, \A x \in S : g[x] = f[x]
  PROVE  SumOver(g, S) = SumOver(f, S)
<1> DEFINE T == {s \in SUBSET S : SumOver(g, s) = SumOver(f, s)}
<1>0. Numbers(g, S) /\ IsFiniteSet(S)
  BY DEF Numbers
<1>1. {} \in T
  BY SumEmpty
<1>2. ASSUME NEW s \in SUBSET S, NEW x \in S \ s, s \in T PROVE s \cup {x} \in T
  <2>1. SumOver(f, s \cup {x}) = f[x] + SumOver(f, s)
    BY SumWith
  <2>2. SumOver(g, s \cup {x}) = g[x] + SumOver(g, s)
    BY <1>0, SumWith
  <2> QED
    BY <1>2, <2>1, <2>2
<1> HIDE DEF T
<1>3. S \in T
  BY <1>0, <1>1, <1>2, Subsets
<1> QED
  BY <1>3 DEF T

LEMMA SumZero ==
  ASSUME NEW S, IsFiniteSet(S), NEW f, \A x \in S : f[x] = 0
  PROVE  SumOver(f, S) = 0
<1> DEFINE T == {s \in SUBSET S : SumOver(f, s) = 0}
<1>0. Numbers(f, S)
  BY DEF Numbers
<1>1. {} \in T
  BY SumEmpty
<1>2. ASSUME NEW s \in SUBSET S, NEW x \in S \ s, s \in T PROVE s \cup {x} \in T
  <2>1. SumOver(f, s \cup {x}) = f[x] + SumOver(f, s)
    BY <1>0, SumWith
  <2> QED
    BY <1>2, <2>1
<1> HIDE DEF T
<1>3. S \in T
  BY <1>1, <1>2, Subsets
<1> QED
  BY <1>3 DEF T

LEMMA SumPlus ==
  ASSUME NEW S, NEW f, Numbers(f, S), NEW g, Numbers(g, S),
         NEW h, \A x \in S : h[x] = f[x] + g[x]
  PROVE  SumOver(h, S) = SumOver(f, S) + SumOver(g, S)
<1> DEFINE T == {s \in SUBSET S : SumOver(h, s) = SumOver(f, s) + SumOver(g, s)}
<1>0. Numbers(h, S) /\ IsFiniteSet(S) /\ \A x \in S : f[x] \in Int /\ g[x] \in Int
  BY DEF Numbers
<1>1. {} \in T
  BY SumEmpty
<1>2. ASSUME NEW s \in SUBSET S, NEW x \in S \ s, s \in T PROVE s \cup {x} \in T
  <2>1. SumOver(f, s \cup {x}) = f[x] + SumOver(f, s)
    BY SumWith
  <2>2. SumOver(g, s \cup {x}) = g[x] + SumOver(g, s)
    BY SumWith
  <2>3. SumOver(h, s \cup {x}) = h[x] + SumOver(h, s)
    BY <1>0, SumWith
  <2>4. SumOver(f, s) \in Int /\ SumOver(g, s) \in Int
    BY SumPart
  <2>5. h[x] = f[x] + g[x] /\ f[x] \in Int /\ g[x] \in Int
    BY <1>0
  <2>6. SumOver(h, s) = SumOver(f, s) + SumOver(g, s)
    BY <1>2
  <2> QED
    BY <2>1, <2>2, <2>3, <2>4, <2>5, <2>6
<1> HIDE DEF T
<1>3. S \in T
  BY <1>0, <1>1, <1>2, Subsets
<1> QED
  BY <1>3 DEF T

LEMMA Distributes ==
  ASSUME NEW c \in Int, NEW a \in Int, NEW b \in Int
  PROVE  c * (a + b) = c * a + c * b /\ c * a \in Int
OBVIOUS

LEMMA SumTimes ==
  ASSUME NEW S, NEW f, Numbers(f, S), NEW c \in Int,
         NEW h, \A x \in S : h[x] = c * f[x]
  PROVE  SumOver(h, S) = c * SumOver(f, S)
<1> DEFINE T == {s \in SUBSET S : SumOver(h, s) = c * SumOver(f, s)}
<1>0. Numbers(h, S) /\ IsFiniteSet(S) /\ \A x \in S : f[x] \in Int
  BY DEF Numbers
<1>1. {} \in T
  <2>1. c * 0 = 0
    OBVIOUS
  <2> QED
    BY <2>1, SumEmpty
<1>2. ASSUME NEW s \in SUBSET S, NEW x \in S \ s, s \in T PROVE s \cup {x} \in T
  <2>1. SumOver(f, s \cup {x}) = f[x] + SumOver(f, s)
    BY SumWith
  <2>2. SumOver(h, s \cup {x}) = c * f[x] + c * SumOver(f, s)
    BY <1>0, <1>2, SumWith
  <2>3. SumOver(f, s) \in Int /\ f[x] \in Int
    BY <1>0, SumPart
  <2>4. c * (f[x] + SumOver(f, s)) = c * f[x] + c * SumOver(f, s)
    BY <2>3, Distributes
  <2> QED
    BY <2>1, <2>2, <2>4
<1> HIDE DEF T
<1>3. S \in T
  BY <1>0, <1>1, <1>2, Subsets
<1> QED
  BY <1>3 DEF T

(* A sum over some is one over all with zeros for the others. *)
LEMMA SumSome ==
  ASSUME NEW S, NEW R \in SUBSET S, NEW f, Numbers(f, S),
         NEW h, \A x \in S : h[x] = IF x \in R THEN f[x] ELSE 0
  PROVE  SumOver(f, R) = SumOver(h, S)
<1> DEFINE T == {s \in SUBSET S : SumOver(f, s \cap R) = SumOver(h, s)}
<1>0. Numbers(h, S) /\ IsFiniteSet(S)
  BY DEF Numbers
<1>1. {} \in T
  <2>1. {} \cap R = {}
    OBVIOUS
  <2> QED
    BY <2>1, SumEmpty
<1>2. ASSUME NEW s \in SUBSET S, NEW x \in S \ s, s \in T PROVE s \cup {x} \in T
  <2>1. SumOver(h, s \cup {x}) = h[x] + SumOver(h, s)
    BY <1>0, SumWith
  <2>2. SumOver(h, s) \in Int
    BY <1>0, SumPart
  <2>3. CASE x \in R
    <3>1. (s \cup {x}) \cap R = (s \cap R) \cup {x}
      BY <2>3
    <3> PICK r : r = s \cap R
      OBVIOUS
    <3>r. r \in SUBSET S /\ x \in S \ r
      OBVIOUS
    <3>2. SumOver(f, r \cup {x}) = f[x] + SumOver(f, r)
      BY <3>r, SumWith
    <3> QED
      BY <1>2, <2>1, <2>3, <3>1, <3>2
  <2>4. CASE x \notin R
    <3>1. (s \cup {x}) \cap R = s \cap R
      BY <2>4
    <3>2. SumOver(h, s \cup {x}) = SumOver(h, s)
      BY <2>1, <2>2, <2>4
    <3>3. SumOver(f, s \cap R) = SumOver(h, s)
      BY <1>2
    <3> QED
      BY <3>1, <3>2, <3>3
  <2> QED
    BY <2>3, <2>4
<1> HIDE DEF T
<1>3. S \in T
  BY <1>0, <1>1, <1>2, Subsets
<1>4. S \cap R = R
  OBVIOUS
<1> QED
  BY <1>3, <1>4 DEF T

(* Sums over two sets in either order. *)
Swaps(S, R, a, b, f, g) ==
  /\ IsFiniteSet(S) /\ IsFiniteSet(R)
  /\ a \in [S -> [R -> Int]] /\ b \in [R -> [S -> Int]]
  /\ \A x \in S, y \in R : b[y][x] = a[x][y]
  /\ \A x \in S : f[x] = SumOver(a[x], R)
  /\ \A y \in R : g[y] = SumOver(b[y], S)

LEMMA SumSwap ==
  ASSUME NEW S, NEW R, NEW a, NEW b, NEW f, NEW g, Swaps(S, R, a, b, f, g)
  PROVE  SumOver(f, S) = SumOver(g, R)
<1> /\ IsFiniteSet(S) /\ IsFiniteSet(R)
    /\ a \in [S -> [R -> Int]] /\ b \in [R -> [S -> Int]]
    /\ \A x \in S, y \in R : b[y][x] = a[x][y]
    /\ \A x \in S : f[x] = SumOver(a[x], R)
    /\ \A y \in R : g[y] = SumOver(b[y], S)
  BY DEF Swaps
<1> DEFINE Row(s) == [y \in R |-> SumOver(b[y], s)]
           T == {s \in SUBSET S : SumOver(f, s) = SumOver(Row(s), R)}
<1>0. Numbers(f, S)
  <2>1. ASSUME NEW x \in S PROVE f[x] \in Int
    <3>1. Numbers(a[x], R)
      BY DEF Numbers
    <3> QED
      BY <3>1, SumType
  <2> QED
    BY <2>1 DEF Numbers
<1>1. \A y \in R : Numbers(b[y], S)
  BY DEF Numbers
<1>2. ASSUME NEW s \in SUBSET S PROVE Numbers(Row(s), R)
  <2>1. \A y \in R : SumOver(b[y], s) \in Int
    BY <1>1, SumPart
  <2> QED
    BY <2>1 DEF Numbers
<1>3. {} \in T
  <2>1. \A y \in R : Row({})[y] = 0
    BY SumEmpty
  <2>2. SumOver(Row({}), R) = 0
    BY <2>1, SumZero
  <2> QED
    BY <2>2, SumEmpty
<1>4. ASSUME NEW s \in SUBSET S, NEW x \in S \ s, s \in T PROVE s \cup {x} \in T
  <2>1. SumOver(f, s \cup {x}) = f[x] + SumOver(f, s)
    BY <1>0, SumWith
  <2>p. PICK p : p = Row(s)
    OBVIOUS
  <2>q. PICK q : q = Row(s \cup {x})
    OBVIOUS
  <2>2. ASSUME NEW y \in R PROVE q[y] = a[x][y] + p[y]
    <3>1. SumOver(b[y], s \cup {x}) = b[y][x] + SumOver(b[y], s)
      BY <1>1, SumWith
    <3>2. q[y] = SumOver(b[y], s \cup {x}) /\ p[y] = SumOver(b[y], s)
      BY <2>p, <2>q
    <3> QED
      BY <3>1, <3>2
  <2>3. Numbers(p, R) /\ Numbers(a[x], R)
    BY <1>2, <2>p DEF Numbers
  <2>r. PICK r : r = a[x]
    OBVIOUS
  <2>c. Numbers(p, R) /\ Numbers(r, R) /\ \A y \in R : q[y] = r[y] + p[y]
    BY <2>2, <2>3, <2>r
  <2> HIDE DEF Row
  <2>4. SumOver(q, R) = SumOver(r, R) + SumOver(p, R)
    BY <2>c, SumPlus
  <2>5. SumOver(f, s) = SumOver(p, R)
    BY <1>4, <2>p
  <2>6. f[x] = SumOver(r, R)
    BY <2>r
  <2>7. SumOver(f, s \cup {x}) = SumOver(q, R)
    BY <2>1, <2>4, <2>5, <2>6
  <2> QED
    BY <2>7, <2>q
<1> HIDE DEF T
<1>5. S \in T
  BY <1>3, <1>4, Subsets
<1>6. SumOver(f, S) = SumOver(Row(S), R)
  BY <1>5 DEF T
<1>7. \A y \in R : Row(S)[y] = g[y]
  OBVIOUS
<1>8. Numbers(Row(S), R)
  BY <1>2
<1> HIDE DEF Row
<1>9. SumOver(g, R) = SumOver(Row(S), R)
  BY <1>7, <1>8, SumSame
<1> QED
  BY <1>6, <1>9

-----------------------------------------------------------------------------
LEMMA SumOne ==
  ASSUME NEW S, NEW f, Numbers(f, S), NEW x \in S, \A y \in S \ {x} : f[y] = 0
  PROVE  SumOver(f, S) = f[x]
<1>1. SumOver(f, S) = f[x] + SumOver(f, S \ {x})
  BY SumWithout
<1>2. IsFiniteSet(S \ {x}) /\ f[x] \in Int
  BY FS_Subset DEF Numbers
<1>3. SumOver(f, S \ {x}) = 0
  BY <1>2, SumZero
<1> QED
  BY <1>1, <1>2, <1>3

LEMMA SumApart ==
  ASSUME NEW S, NEW f, Numbers(f, S), NEW P \in SUBSET S, NEW Q \in SUBSET S, P \cap Q = {}
  PROVE  SumOver(f, P \cup Q) = SumOver(f, P) + SumOver(f, Q)
<1> DEFINE In(R) == [x \in S |-> IF x \in R THEN f[x] ELSE 0]
<1>0. \A x \in S : f[x] \in Int
  BY DEF Numbers
<1>1. ASSUME NEW R \in SUBSET S PROVE Numbers(In(R), S) /\ SumOver(f, R) = SumOver(In(R), S)
  <2> PICK h : h = In(R)
    OBVIOUS
  <2>1. \A x \in S : h[x] = IF x \in R THEN f[x] ELSE 0
    OBVIOUS
  <2>2. Numbers(h, S)
    BY <1>0, <2>1 DEF Numbers
  <2> HIDE DEF In
  <2> QED
    BY <2>1, <2>2, SumSome
<1>2. \A x \in S : In(P \cup Q)[x] = In(P)[x] + In(Q)[x]
  BY <1>0
<1> HIDE DEF In
<1>3. SumOver(In(P \cup Q), S) = SumOver(In(P), S) + SumOver(In(Q), S)
  BY <1>1, <1>2, SumPlus
<1> QED
  BY <1>1, <1>3

LEMMA StockSums == \A f, S : Stock!SumFunctionOnSet(f, S) = SumOver(f, S)
BY DEF SumOver, Stock!SumFunctionOnSet, Stock!FoldFunctionOnSet, Stock!MapThenFoldSet,
       SumFunctionOnSet, FoldFunctionOnSet, MapThenFoldSet

(* The quantities of lines, and those at some of their places. *)
Quantities(lines) == [i \in DOMAIN lines |-> lines[i].quantity]

PlacesOf(lines, part) == {i \in DOMAIN lines : lines[i].part = part}

PartTotal(lines, part) == Stock!Total(lines, LAMBDA f : f.part = part)

LEMMA PartTotalIs ==
  ASSUME NEW lines, NEW part
  PROVE  PartTotal(lines, part) = SumOver(Quantities(lines), PlacesOf(lines, part))
BY StockSums DEF PartTotal, Quantities, PlacesOf, Stock!Total

IsLines(lines) ==
  /\ Len(lines) \in Nat /\ DOMAIN lines = 1 .. Len(lines)
  /\ \A i \in DOMAIN lines : lines[i].quantity \in Int

LEMMA LinesNumbers ==
  ASSUME NEW lines, IsLines(lines)
  PROVE  Numbers(Quantities(lines), DOMAIN lines)
<1>1. IsFiniteSet(1 .. Len(lines))
  BY FS_Interval DEF IsLines
<1> QED
  BY <1>1 DEF IsLines, Numbers, Quantities

LEMMA PartTotalType ==
  ASSUME NEW lines, IsLines(lines), NEW part
  PROVE  PartTotal(lines, part) \in Int
<1>1. PlacesOf(lines, part) \in SUBSET (DOMAIN lines)
  BY DEF PlacesOf
<1> QED
  BY <1>1, LinesNumbers, PartTotalIs, SumPart

LEMMA PartTotalEmpty ==
  ASSUME NEW part
  PROVE  PartTotal(<<>>, part) = 0
<1>1. PlacesOf(<<>>, part) = {}
  BY DEF PlacesOf
<1> QED
  BY <1>1, PartTotalIs, SumEmpty

(* Lines that are the same as others and one more. *)
OneLineMore(lines, more) ==
  /\ IsLines(lines) /\ IsLines(more) /\ Len(more) = Len(lines) + 1
  /\ \A i \in 1 .. Len(lines) : more[i] = lines[i]

LEMMA PartTotalGrows ==
  ASSUME NEW lines, NEW more, OneLineMore(lines, more), NEW part
  PROVE  PartTotal(more, part) =
           PartTotal(lines, part)
             + (IF more[Len(more)].part = part THEN more[Len(more)].quantity ELSE 0)
<1> PICK n \in Nat : n = Len(lines)
  BY DEF OneLineMore, IsLines
<1>1. /\ DOMAIN lines = 1 .. n /\ DOMAIN more = 1 .. n + 1 /\ Len(more) = n + 1
      /\ \A i \in 1 .. n : more[i] = lines[i]
      /\ IsLines(lines) /\ IsLines(more)
  BY DEF OneLineMore, IsLines
<1> PICK f : f = Quantities(lines)
  OBVIOUS
<1> PICK g : g = Quantities(more)
  OBVIOUS
<1> PICK s : s = PlacesOf(lines, part)
  OBVIOUS
<1>2. s \in SUBSET (1 .. n) /\ s \in SUBSET (1 .. n + 1) /\ n + 1 \in (1 .. n + 1) \ s
  BY <1>1 DEF PlacesOf
<1>3. PlacesOf(more, part) = IF more[n + 1].part = part THEN s \cup {n + 1} ELSE s
  <2>1. ASSUME NEW i \in 1 .. n + 1
        PROVE  i \in PlacesOf(more, part) <=> i \in s \/ (i = n + 1 /\ more[n + 1].part = part)
    <3>1. CASE i = n + 1
      BY <1>1, <1>2, <3>1 DEF PlacesOf
    <3>2. CASE i # n + 1
      <4>1. i \in 1 .. n
        BY <3>2
      <4> QED
        BY <1>1, <3>2, <4>1 DEF PlacesOf
    <3> QED
      BY <3>1, <3>2
  <2>2. PlacesOf(more, part) \subseteq 1 .. n + 1
    BY <1>1 DEF PlacesOf
  <2> QED
    BY <1>2, <2>1, <2>2
<1>4. Numbers(f, 1 .. n) /\ Numbers(g, 1 .. n + 1)
  BY <1>1, LinesNumbers
<1>5. Numbers(f, s) /\ SumOver(f, s) \in Int
  BY <1>2, <1>4, SumPart
<1>6. \A i \in s : g[i] = f[i]
  BY <1>1, <1>2 DEF Quantities
<1>7. SumOver(g, s) = SumOver(f, s)
  BY <1>5, <1>6, SumSame
<1>8. SumOver(g, s \cup {n + 1}) = g[n + 1] + SumOver(g, s)
  BY <1>2, <1>4, SumWith
<1>9. g[n + 1] = more[n + 1].quantity /\ g[n + 1] \in Int
  BY <1>1 DEF Quantities, IsLines
<1>10. PartTotal(lines, part) = SumOver(f, s)
  BY PartTotalIs
<1>11. PartTotal(more, part) = SumOver(g, PlacesOf(more, part))
  BY PartTotalIs
<1>12. CASE more[n + 1].part = part
  BY <1>1, <1>3, <1>5, <1>7, <1>8, <1>9, <1>10, <1>11, <1>12
<1>13. CASE more[n + 1].part # part
  BY <1>1, <1>3, <1>5, <1>7, <1>10, <1>11, <1>13
<1> QED
  BY <1>12, <1>13, SMTT(30)

(* Lines after other lines. *)
LinesAfter(first, second, both) ==
  /\ IsLines(first) /\ IsLines(second) /\ IsLines(both)
  /\ Len(both) = Len(first) + Len(second)
  /\ \A i \in 1 .. Len(first) : both[i] = first[i]
  /\ \A i \in 1 .. Len(second) : both[Len(first) + i] = second[i]

LEMMA PartTotalAfter ==
  ASSUME NEW first, NEW second, NEW both, LinesAfter(first, second, both), NEW part
  PROVE  PartTotal(both, part) = PartTotal(first, part) + PartTotal(second, part)
<1> PICK m \in Nat : m = Len(first)
  BY DEF LinesAfter, IsLines
<1> PICK n \in Nat : n = Len(second)
  BY DEF LinesAfter, IsLines
<1>0. /\ IsLines(first) /\ IsLines(second) /\ IsLines(both)
      /\ DOMAIN first = 1 .. m /\ DOMAIN second = 1 .. n
      /\ Len(both) = m + n /\ DOMAIN both = 1 .. m + n
      /\ \A i \in 1 .. m : both[i] = first[i]
      /\ \A i \in 1 .. n : both[m + i] = second[i]
  BY DEF LinesAfter, IsLines
<1> PICK f : f = Quantities(first)
  OBVIOUS
<1> PICK g : g = Quantities(second)
  OBVIOUS
<1> PICK h : h = Quantities(both)
  OBVIOUS
<1>1. Numbers(f, 1 .. m) /\ Numbers(g, 1 .. n) /\ Numbers(h, 1 .. m + n)
  BY <1>0, LinesNumbers
<1> PICK p : p = PlacesOf(first, part)
  OBVIOUS
<1> DEFINE Until(k) == {i \in 1 .. k : second[i].part = part}
           Moved(k) == {m + i : i \in Until(k)}
           Both(k) == p \cup Moved(k)
           T == {k \in Nat : k <= n => SumOver(h, Both(k))
                                         = SumOver(f, p) + SumOver(g, Until(k))}
<1>2. p \in SUBSET (1 .. m) /\ p \in SUBSET (1 .. m + n)
  BY <1>0 DEF PlacesOf
<1>3. Numbers(f, p) /\ SumOver(f, p) \in Int
  BY <1>1, <1>2, SumPart
<1>4. SumOver(h, p) = SumOver(f, p)
  <2>1. \A i \in p : h[i] = f[i]
    BY <1>0, <1>2 DEF Quantities
  <2> QED
    BY <1>3, <2>1, SumSame
<1>5. 0 \in T
  <2>u. PICK u : u = Until(0)
    OBVIOUS
  <2>w. PICK w : w = Both(0)
    OBVIOUS
  <2>1. u = {}
    BY <2>u
  <2>2. w = p
    BY <2>w
  <2>3. SumOver(h, w) = SumOver(f, p) + SumOver(g, u)
    BY <1>3, <1>4, <2>1, <2>2, SumEmpty
  <2> QED
    BY <2>3, <2>u, <2>w
<1>6. ASSUME NEW k \in Nat, k \in T PROVE k + 1 \in T
  <2> SUFFICES ASSUME k + 1 <= n
               PROVE  SumOver(h, Both(k + 1)) = SumOver(f, p) + SumOver(g, Until(k + 1))
    OBVIOUS
  <2>j. PICK j : j = k + 1
    OBVIOUS
  <2>s. PICK s : s = Both(k)
    OBVIOUS
  <2>u. PICK u : u = Until(k)
    OBVIOUS
  <2>v. PICK v : v = Until(k + 1)
    OBVIOUS
  <2>w. PICK w : w = Both(k + 1)
    OBVIOUS
  <2>1. SumOver(h, s) = SumOver(f, p) + SumOver(g, u)
    <3>1. SumOver(h, Both(k)) = SumOver(f, p) + SumOver(g, Until(k))
      BY <1>6
    <3> HIDE DEF Until, Both
    <3> QED
      BY <2>s, <2>u, <3>1
  <2>2. j \in 1 .. n /\ u \in SUBSET (1 .. n) /\ j \notin u /\ v \in SUBSET (1 .. n)
    BY <2>j, <2>u, <2>v
  <2>3. m + j \in 1 .. m + n /\ s \in SUBSET (1 .. m + n) /\ m + j \notin s
    BY <1>2, <2>2, <2>j, <2>s
  <2>w1. w \in SUBSET (1 .. m + n)
    BY <1>2, <2>w
  <2>n. Numbers(g, v) /\ Numbers(h, w)
    BY <1>1, <2>2, <2>w1, SumPart
  <2>4. SumOver(g, u) \in Int /\ SumOver(h, s) \in Int
    BY <1>1, <2>2, <2>3, SumPart
  <2>5. CASE second[j].part = part
    <3>1. IsWith(v, u, j)
      BY <2>2, <2>5, <2>j, <2>u, <2>v DEF IsWith
    <3>2. Moved(k + 1) = Moved(k) \cup {m + j}
      BY <2>u, <2>v, <3>1 DEF IsWith
    <3>3. IsWith(w, s, m + j)
      BY <2>3, <2>s, <2>w, <3>2 DEF IsWith
    <3>4. SumOver(g, v) = g[j] + SumOver(g, u)
      BY <2>n, <3>1, SumAdd
    <3>5. SumOver(h, w) = h[m + j] + SumOver(h, s)
      BY <2>n, <3>3, SumAdd
    <3>6. h[m + j] = g[j] /\ g[j] \in Int
      BY <1>0, <2>2, <2>3 DEF Quantities, IsLines
    <3>7. SumOver(h, w) = SumOver(f, p) + SumOver(g, v)
      BY <1>3, <2>1, <2>4, <3>4, <3>5, <3>6
    <3> QED
      BY <2>v, <2>w, <3>7
  <2>6. CASE second[j].part # part
    <3>1. v = u
      BY <2>6, <2>j, <2>u, <2>v
    <3>2. w = s
      BY <2>s, <2>u, <2>v, <2>w, <3>1
    <3>3. SumOver(h, w) = SumOver(f, p) + SumOver(g, v)
      BY <2>1, <3>1, <3>2
    <3> QED
      BY <2>v, <2>w, <3>3
  <2> QED
    BY <2>5, <2>6
<1> HIDE DEF T
<1>7. n \in T
  BY <1>5, <1>6, Induct
<1>8. SumOver(h, Both(n)) = SumOver(f, p) + SumOver(g, Until(n))
  BY <1>7 DEF T
<1>9. Until(n) = PlacesOf(second, part)
  BY <1>0 DEF PlacesOf
<1>10. Both(n) = PlacesOf(both, part)
  <2>1. ASSUME NEW x \in PlacesOf(both, part) PROVE x \in Both(n)
    <3>1. x \in 1 .. m + n /\ both[x].part = part
      BY <1>0, <2>1 DEF PlacesOf
    <3>2. CASE x <= m
      BY <1>0, <3>1, <3>2 DEF PlacesOf
    <3>3. CASE x > m
      <4> PICK i : i = x - m
        OBVIOUS
      <4>1. i \in 1 .. n /\ x = m + i
        BY <3>1, <3>3
      <4>2. i \in Until(n)
        BY <1>0, <3>1, <4>1
      <4> QED
        BY <4>1, <4>2
    <3> QED
      BY <3>1, <3>2, <3>3
  <2>2. ASSUME NEW x \in p PROVE x \in PlacesOf(both, part)
    BY <1>0, <1>2 DEF PlacesOf
  <2>3. ASSUME NEW i \in Until(n) PROVE m + i \in PlacesOf(both, part)
    <3>1. m + i \in 1 .. m + n
      OBVIOUS
    <3> QED
      BY <1>0, <3>1 DEF PlacesOf
  <2> QED
    BY <2>1, <2>2, <2>3
<1> HIDE DEF Until, Both
<1>11. PartTotal(first, part) = SumOver(f, p)
  BY PartTotalIs
<1>12. PartTotal(second, part) = SumOver(g, PlacesOf(second, part))
  BY PartTotalIs
<1>13. PartTotal(both, part) = SumOver(h, PlacesOf(both, part))
  BY PartTotalIs
<1> QED
  BY <1>8, <1>9, <1>10, <1>11, <1>12, <1>13

-----------------------------------------------------------------------------
(* The lines of an inventory, as an expansion contributes them. *)
(* Stock's operators are those of this module. *)
StockMax == \A S : Stock!Max(S) = Max(S)

LEMMA StockMaxIs == StockMax
BY DEF StockMax, Stock!Max, Max

Line == [part : Nat, quantity : Nat, spare : BOOLEAN]
Item == [owner : Nat, quantity : Nat]

Found(O) == [part : Nat, quantity : Nat, path : Seq(O)]

Contribution(line, n, path) ==
  [part |-> line.part, quantity |-> n * line.quantity, path |-> path]

(* The contributions after each of the lines. *)
Contributed(lines, n, path, spares, O, run) ==
  /\ run \in [0 .. Len(lines) -> Seq(Found(O))] /\ run[0] = <<>>
  /\ \A k \in 1 .. Len(lines) :
       run[k] = IF lines[k].spare /\ ~spares THEN run[k - 1]
                ELSE Append(run[k - 1], Contribution(lines[k], n, path))
  /\ Stock!Contributions(lines, n, path, spares) = run[Len(lines)]

LEMMA ContributionIs ==
  ASSUME NEW line \in Line, NEW n \in Nat, NEW O, NEW path \in Seq(O)
  PROVE  Contribution(line, n, path) \in Found(O)
<1>1. n * line.quantity \in Nat
  BY DEF Line
<1> QED
  BY <1>1 DEF Contribution, Found, Line

LEMMA ContributionsAre ==
  ASSUME NEW lines \in Seq(Line), NEW n \in Nat, NEW O, NEW path \in Seq(O),
         NEW spares \in BOOLEAN
  PROVE  \E run : Contributed(lines, n, path, spares, O, run)
<1> PICK m : m = Len(lines)
  OBVIOUS
<1>0. m \in Nat /\ DOMAIN lines = 1 .. m /\ \A k \in 1 .. m : lines[k] \in Line
  BY LenProperties
<1>D. PICK D : D = Seq(Found(O))
  OBVIOUS
<1> DEFINE Step(k, x) == IF lines[k].spare /\ ~spares THEN x
                         ELSE Append(x, [part |-> lines[k].part,
                                         quantity |-> n * lines[k].quantity, path |-> path])
           step == [k \in 1 .. m |-> [x \in D |-> Step(k, x)]]
           Equation(iter) ==
             iter = [s \in SUBSET (DOMAIN lines) |->
                       IF s = {} THEN <<>>
                       ELSE Step(Stock!Max(s), iter[s \ {Stock!Max(s)}])]
<1>s. ASSUME NEW k \in 1 .. m, NEW x \in D PROVE Step(k, x) \in D
  <2> PICK e : e = Contribution(lines[k], n, path)
    OBVIOUS
  <2>1. e \in Found(O)
    BY <1>0, ContributionIs
  <2>2. Append(x, e) \in D
    BY <1>D, <2>1
  <2>3. Step(k, x) \in {x, Append(x, e)}
    BY DEF Contribution
  <2> QED
    BY <2>2, <2>3
<1>d. <<>> \in D
  BY <1>D
<1>1. step \in [1 .. m -> [D -> D]]
  BY <1>s
<1>2. ASSUME NEW k \in 1 .. m, NEW x \in D PROVE step[k][x] = Step(k, x)
  OBVIOUS
<1> HIDE DEF step
<1> PICK g \in [SUBSET (1 .. m) -> D] : Folds(D, <<>>, step, m, g)
  BY <1>0, <1>1, <1>d, FoldExists
<1>3. Equation(g)
  <2>1. ASSUME NEW s \in SUBSET (1 .. m), s # {}
        PROVE  g[s] = Step(Stock!Max(s), g[s \ {Stock!Max(s)}])
    <3> PICK x : x = Max(s)
      OBVIOUS
    <3>1. x \in 1 .. m
      BY <1>0, <2>1, MaxIs
    <3>2. g[s] = step[x][g[s \ {x}]] /\ g[s \ {x}] \in D
      BY <2>1 DEF Folds
    <3>3. Stock!Max(s) = x
      BY StockMaxIs DEF StockMax
    <3> HIDE DEF Step
    <3> QED
      BY <1>2, <3>1, <3>2, <3>3
  <2>2. g[{}] = <<>> /\ g = [s \in SUBSET (1 .. m) |-> g[s]]
    BY DEF Folds
  <2> HIDE DEF Step
  <2> QED
    BY <1>0, <2>1, <2>2
<1>i. PICK iter : iter = CHOOSE f : Equation(f)
  OBVIOUS
<1>4. Equation(iter)
  <2> HIDE DEF Equation
  <2> QED
    BY <1>3, <1>i
<1>5. Stock!Contributions(lines, n, path, spares) = iter[DOMAIN lines]
  BY <1>i DEF Stock!Contributions, Stock!FoldLeft, Stock!MapThenFoldSet
<1>6. RunTo(D, <<>>, step, m, iter[1 .. m])
  <2>1. iter[{}] = <<>>
    BY <1>4
  <2>2. ASSUME NEW s \in SUBSET (1 .. m), s # {}, iter[s \ {Max(s)}] \in D
        PROVE  iter[s] = step[Max(s)][iter[s \ {Max(s)}]]
    <3> PICK x : x = Max(s)
      OBVIOUS
    <3>1. x \in 1 .. m
      BY <1>0, <2>2, MaxIs
    <3>2. Stock!Max(s) = x
      BY StockMaxIs DEF StockMax
    <3>3. iter[s] = Step(Stock!Max(s), iter[s \ {Stock!Max(s)}])
      BY <1>0, <1>4, <2>2
    <3> HIDE DEF Step, Equation
    <3> QED
      BY <1>2, <2>2, <3>1, <3>2, <3>3
  <2> HIDE DEF Step, Equation
  <2>3. FoldsFrom(D, <<>>, step, m, iter)
    BY <2>1, <2>2 DEF FoldsFrom
  <2> QED
    BY <1>0, <1>1, <1>d, <2>3, FoldIs
<1> PICK run : FoldRun(D, <<>>, step, m, run) /\ run[m] = iter[1 .. m]
  BY <1>6 DEF RunTo
<1>7. ASSUME NEW k \in 1 .. m PROVE run[k] = Step(k, run[k - 1])
  <2>1. run[k] = step[k][run[k - 1]] /\ run[k - 1] \in D
    BY <1>0, SMTT(30) DEF FoldRun
  <2> HIDE DEF Step
  <2> QED
    BY <1>2, <2>1
<1>8. Stock!Contributions(lines, n, path, spares) = run[m]
  BY <1>0, <1>5
<1>9. run \in [0 .. m -> Seq(Found(O))] /\ run[0] = <<>>
  BY <1>D DEF FoldRun
<1>10. Contributed(lines, n, path, spares, O, run)
  BY <1>7, <1>8, <1>9 DEF Contributed, Contribution
<1> QED
  BY <1>10

LEMMA FoundLines ==
  ASSUME NEW O, NEW found \in Seq(Found(O))
  PROVE  IsLines(found)
<1>1. Len(found) \in Nat /\ DOMAIN found = 1 .. Len(found)
      /\ \A i \in 1 .. Len(found) : found[i] \in Found(O)
  BY LenProperties
<1> QED
  BY <1>1 DEF IsLines, Found

LEMMA LinesAre ==
  ASSUME NEW lines \in Seq(Line)
  PROVE  /\ Len(lines) \in Nat /\ DOMAIN lines = 1 .. Len(lines)
         /\ \A i \in 1 .. Len(lines) :
              /\ lines[i] \in Line /\ lines[i].quantity \in Nat /\ lines[i].part \in Nat
              /\ lines[i].spare \in BOOLEAN
         /\ IsLines(lines)
<1>1. Len(lines) \in Nat /\ DOMAIN lines = 1 .. Len(lines)
      /\ \A i \in 1 .. Len(lines) : lines[i] \in Line
  BY LenProperties
<1> QED
  BY <1>1 DEF IsLines, Line

(* One line more that is appended. *)
LEMMA PartTotalAppend ==
  ASSUME NEW O, NEW found \in Seq(Found(O)), NEW e \in Found(O), NEW part
  PROVE  PartTotal(Append(found, e), part) =
           PartTotal(found, part) + (IF e.part = part THEN e.quantity ELSE 0)
<1> PICK n \in Nat : n = Len(found)
  BY LenProperties
<1> PICK more : more = Append(found, e)
  OBVIOUS
<1>1. /\ more \in Seq(Found(O)) /\ Len(more) = n + 1 /\ more[n + 1] = e
      /\ \A i \in 1 .. n : more[i] = found[i]
  BY AppendProperties
<1>2. OneLineMore(found, more)
  BY <1>1, FoundLines DEF OneLineMore
<1>3. PartTotal(more, part) =
        PartTotal(found, part)
          + (IF more[Len(more)].part = part THEN more[Len(more)].quantity ELSE 0)
  BY <1>2, PartTotalGrows
<1>4. more[Len(more)] = e
  BY <1>1
<1> QED
  BY <1>3, <1>4

(* The lines that count for a part. *)
Direct(lines, part, spares) ==
  Stock!Amount(lines, part, FALSE)
    + (IF spares THEN Stock!Amount(lines, part, TRUE) ELSE 0)

Counting(lines, part, spares, k) ==
  {i \in 1 .. k : lines[i].part = part /\ (lines[i].spare => spares)}

AmountAt(lines, part, spare) ==
  {i \in DOMAIN lines : lines[i].part = part /\ lines[i].spare = spare}

LEMMA AmountIs ==
  ASSUME NEW lines, NEW part, NEW spare
  PROVE  Stock!Amount(lines, part, spare) = SumOver(Quantities(lines), AmountAt(lines, part, spare))
BY StockSums DEF Stock!Amount, Stock!Total, Quantities, AmountAt

LEMMA DirectIs ==
  ASSUME NEW lines \in Seq(Line), NEW part, NEW spares \in BOOLEAN
  PROVE  /\ Direct(lines, part, spares) \in Int
         /\ Direct(lines, part, spares) =
              SumOver(Quantities(lines), Counting(lines, part, spares, Len(lines)))
<1> PICK m \in Nat : m = Len(lines)
  BY LinesAre
<1>1. DOMAIN lines = 1 .. m /\ \A i \in 1 .. m : lines[i].spare \in BOOLEAN
  BY LinesAre
<1> PICK N : N = DOMAIN lines
  OBVIOUS
<1> PICK f : f = Quantities(lines)
  OBVIOUS
<1>2. Numbers(f, N)
  BY LinesAre, LinesNumbers
<1>p. PICK P : P = AmountAt(lines, part, FALSE)
  OBVIOUS
<1>q. PICK Q : Q = AmountAt(lines, part, TRUE)
  OBVIOUS
<1>c. PICK C : C = Counting(lines, part, spares, m)
  OBVIOUS
<1>3. P \in SUBSET N /\ Q \in SUBSET N /\ P \cap Q = {}
  BY <1>p, <1>q DEF AmountAt
<1>4. SumOver(f, P) \in Int /\ SumOver(f, Q) \in Int
  BY <1>2, <1>3, SumPart
<1>5. Direct(lines, part, spares) = SumOver(f, P) + (IF spares THEN SumOver(f, Q) ELSE 0)
  BY <1>p, <1>q, AmountIs DEF Direct
<1>6. CASE spares
  <2>u. PICK U : U = P \cup Q
    OBVIOUS
  <2>1. U = C
    <3>1. \A i \in 1 .. m : i \in U <=> i \in C
      BY <1>1, <1>6, <1>p, <1>q, <1>c, <2>u DEF AmountAt, Counting
    <3>2. U \in SUBSET (1 .. m) /\ C \in SUBSET (1 .. m)
      BY <1>1, <1>3, <1>c, <2>u DEF Counting
    <3> QED
      BY <3>1, <3>2
  <2>2. SumOver(f, P \cup Q) = SumOver(f, P) + SumOver(f, Q)
    BY <1>2, <1>3, SumApart
  <2>3. SumOver(f, U) = SumOver(f, P) + SumOver(f, Q)
    BY <2>2, <2>u
  <2>4. Direct(lines, part, spares) = SumOver(f, P) + SumOver(f, Q)
    BY <1>5, <1>6
  <2>5. Direct(lines, part, spares) = SumOver(f, C)
    BY <2>1, <2>3, <2>4
  <2> QED
    BY <1>4, <1>c, <2>4, <2>5
<1>7. CASE ~spares
  <2>1. P = C
    <3>1. \A i \in 1 .. m : i \in P <=> i \in C
      BY <1>1, <1>7, <1>p, <1>c DEF AmountAt, Counting
    <3>2. P \in SUBSET (1 .. m) /\ C \in SUBSET (1 .. m)
      BY <1>1, <1>3, <1>c DEF Counting
    <3> QED
      BY <3>1, <3>2
  <2>2. Direct(lines, part, spares) = SumOver(f, P)
    BY <1>4, <1>5, <1>7
  <2>3. Direct(lines, part, spares) = SumOver(f, C)
    BY <2>1, <2>2
  <2> QED
    BY <1>4, <1>c, <2>2, <2>3
<1> QED
  BY <1>6, <1>7

(* What the lines contribute of a part. *)
LEMMA ContributionsTotal ==
  ASSUME NEW lines \in Seq(Line), NEW n \in Nat, NEW O, NEW path \in Seq(O),
         NEW spares \in BOOLEAN, NEW part
  PROVE  /\ Stock!Contributions(lines, n, path, spares) \in Seq(Found(O))
         /\ PartTotal(Stock!Contributions(lines, n, path, spares), part)
              = n * Direct(lines, part, spares)
<1> PICK m \in Nat : m = Len(lines)
  BY LinesAre
<1> PICK run : Contributed(lines, n, path, spares, O, run)
  BY ContributionsAre
<1>0. /\ run \in [0 .. m -> Seq(Found(O))] /\ run[0] = <<>>
      /\ \A k \in 1 .. m :
           run[k] = IF lines[k].spare /\ ~spares THEN run[k - 1]
                    ELSE Append(run[k - 1], Contribution(lines[k], n, path))
      /\ Stock!Contributions(lines, n, path, spares) = run[m]
  BY DEF Contributed
<1>1. \A k \in 1 .. m : /\ lines[k] \in Line /\ lines[k].quantity \in Nat
                        /\ lines[k].spare \in BOOLEAN
  BY LinesAre
<1>f. PICK f : f = Quantities(lines)
  OBVIOUS
<1>2. \A k \in 1 .. m : f[k] = lines[k].quantity
  BY <1>f, LinesAre DEF Quantities
<1>N. PICK N : N = 1 .. m
  OBVIOUS
<1>3. Numbers(f, N)
  BY <1>f, <1>N, LinesAre, LinesNumbers
<1> DEFINE At(k) == Counting(lines, part, spares, k)
           T == {k \in Nat : k <= m => PartTotal(run[k], part) = n * SumOver(f, At(k))}
<1>4. 0 \in T
  <2>1. At(0) = {}
    BY DEF Counting
  <2>2. SumOver(f, At(0)) = 0
    BY <2>1, SumEmpty
  <2>3. PartTotal(run[0], part) = 0
    BY <1>0, PartTotalEmpty
  <2>4. n * 0 = 0
    OBVIOUS
  <2> QED
    BY <2>2, <2>3, <2>4
<1>5. ASSUME NEW k \in Nat, k \in T PROVE k + 1 \in T
  <2> SUFFICES ASSUME k + 1 <= m PROVE PartTotal(run[k + 1], part) = n * SumOver(f, At(k + 1))
    OBVIOUS
  <2>j. PICK j : j = k + 1
    OBVIOUS
  <2>0. j \in 1 .. m /\ k \in 0 .. m /\ j - 1 = k
    BY <2>j
  <2>1. PartTotal(run[k], part) = n * SumOver(f, At(k))
    BY <1>5
  <2>s. PICK s : s = At(k)
    OBVIOUS
  <2>t. PICK t : t = At(j)
    OBVIOUS
  <2> HIDE DEF T
  <2>2. s \in SUBSET N /\ t \in SUBSET N /\ j \notin s
    BY <1>N, <2>0, <2>s, <2>t DEF Counting
  <2>3. Numbers(f, t) /\ SumOver(f, s) \in Int
    BY <1>3, <2>2, SumPart
  <2>4. run[j] = IF lines[j].spare /\ ~spares THEN run[k]
                 ELSE Append(run[k], Contribution(lines[j], n, path))
    BY <1>0, <2>0
  <2>5. run[k] \in Seq(Found(O)) /\ PartTotal(run[k], part) \in Int
    BY <1>0, <2>0, FoundLines, PartTotalType
  <2>e. PICK e : e = Contribution(lines[j], n, path)
    OBVIOUS
  <2>6. e \in Found(O) /\ e.part = lines[j].part /\ e.quantity = n * f[j]
    <3>1. e \in Found(O)
      BY <1>1, <2>0, <2>e, ContributionIs
    <3> QED
      BY <1>2, <2>0, <2>e, <3>1 DEF Contribution
  <2>7. PartTotal(Append(run[k], e), part)
          = PartTotal(run[k], part) + (IF e.part = part THEN e.quantity ELSE 0)
    BY <2>5, <2>6, PartTotalAppend
  <2>8. \A i \in 1 .. m : i # j => (i \in t <=> i \in s)
    <3> SUFFICES ASSUME NEW i \in 1 .. m, i # j PROVE i \in t <=> i \in s
      OBVIOUS
    <3>1. i \in 1 .. j <=> i \in 1 .. k
      BY <2>0
    <3> QED
      BY <2>s, <2>t, <3>1 DEF Counting
  <2>9. j \in t <=> lines[j].part = part /\ (lines[j].spare => spares)
    BY <2>0, <2>t DEF Counting
  <2>10. CASE j \in t
    <3>1. IsWith(t, s, j)
      BY <1>N, <2>2, <2>8, <2>10 DEF IsWith
    <3>2. SumOver(f, t) = f[j] + SumOver(f, s)
      BY <2>3, <3>1, SumAdd
    <3>3. f[j] \in Int
      BY <1>1, <1>2, <2>0
    <3>4. n * (f[j] + SumOver(f, s)) = n * f[j] + n * SumOver(f, s)
            /\ n * f[j] \in Int
      BY <2>3, <3>3, Distributes
    <3>5. PartTotal(run[j], part) = PartTotal(run[k], part) + n * f[j]
      BY <2>4, <2>6, <2>7, <2>9, <2>10, <2>e
    <3>6. PartTotal(run[j], part) = n * SumOver(f, t)
      BY <2>1, <2>5, <2>s, <3>2, <3>4, <3>5
    <3> QED
      BY <2>j, <2>t, <3>6
  <2>11. CASE j \notin t
    <3>1. t = s
      <4>1. ASSUME NEW x \in t PROVE x \in s
        BY <1>N, <2>2, <2>8, <2>11
      <4>2. ASSUME NEW x \in s PROVE x \in t
        BY <1>N, <2>2, <2>8
      <4> QED
        BY <4>1, <4>2
    <3>2. PartTotal(run[j], part) = PartTotal(run[k], part)
      <4>1. CASE lines[j].spare /\ ~spares
        BY <2>4, <4>1
      <4>2. CASE ~(lines[j].spare /\ ~spares)
        <5>1. lines[j].part # part
          BY <1>1, <2>0, <2>9, <2>11, <4>2
        <5>2. run[j] = Append(run[k], e)
          BY <2>4, <2>e, <4>2
        <5> QED
          BY <2>5, <2>6, <2>7, <5>1, <5>2
      <4> QED
        BY <4>1, <4>2
    <3> QED
      BY <2>1, <2>j, <2>s, <2>t, <3>1, <3>2
  <2> QED
    BY <2>10, <2>11
<1> HIDE DEF T
<1>6. m \in T
  BY <1>4, <1>5, Induct
<1>7. PartTotal(run[m], part) = n * SumOver(f, At(m))
  BY <1>6 DEF T
<1>8. SumOver(f, At(m)) = Direct(lines, part, spares)
  BY <1>f, DirectIs
<1>9. run[m] \in Seq(Found(O))
  BY <1>0
<1> QED
  BY <1>0, <1>7, <1>8, <1>9

-----------------------------------------------------------------------------
(* The questions, and what an inventory holds. *)
ImageOf(f, S) == {f[x] : x \in S}

LEMMA ImageFinite ==
  ASSUME NEW S, IsFiniteSet(S), NEW f
  PROVE  IsFiniteSet(ImageOf(f, S))
<1> PICK T : T = {f[x] : x \in S}
  OBVIOUS
<1> PICK g : g = [x \in S |-> f[x]]
  OBVIOUS
<1>1. g \in Surjection(S, T)
  BY DEF Surjection
<1>2. IsFiniteSet(T)
  BY <1>1, FS_Surjection
<1> QED
  BY <1>2 DEF ImageOf

LEMMA MaxOf ==
  ASSUME NEW S, IsFiniteSet(S), S \subseteq Int, S # {}
  PROVE  Max(S) \in S
<1> DEFINE T == {s \in SUBSET S : s = {} \/ \E x \in s : \A y \in s : x >= y}
<1>1. {} \in T
  OBVIOUS
<1>2. ASSUME NEW s \in SUBSET S, NEW z \in S \ s, s \in T PROVE s \cup {z} \in T
  <2> SUFFICES \E x \in s \cup {z} : \A y \in s \cup {z} : x >= y
    OBVIOUS
  <2>1. CASE s = {}
    BY <2>1
  <2>2. CASE s # {}
    <3> PICK x \in s : \A y \in s : x >= y
      BY <1>2, <2>2
    <3>1. CASE z >= x
      BY <3>1
    <3>2. CASE ~(z >= x)
      BY <3>2
    <3> QED
      BY <3>1, <3>2
  <2> QED
    BY <2>1, <2>2
<1> HIDE DEF T
<1>3. S \in T
  BY <1>1, <1>2, Subsets
<1>4. \E x \in S : \A y \in S : x >= y
  BY <1>3 DEF T
<1> QED
  BY <1>4 DEF Max

(* The questions about bills of materials, and the owners in them. *)
IsBom(c, q, O) ==
  /\ Stock!IsCatalog(c) /\ q.spares \in BOOLEAN /\ q.strict \in BOOLEAN
  /\ O = Stock!Owners(c) \cup {q.owner}
  /\ None \notin Int /\ None \notin {"cycle", "missing"}

IdOf(c, o) == Stock!LoadInventory(c, o, None)

Contents(c, o) == c[IdOf(c, o)].contains

LinesIn(c, o) == c[IdOf(c, o)].lines

(* What an inventory holds is typed. *)
Holds(c, o, O) ==
  /\ LinesIn(c, o) \in Seq(Line) /\ Contents(c, o) \in Seq(Item)
  /\ \A k \in 1 .. Len(Contents(c, o)) : Contents(c, o)[k].owner \in O

LEMMA OwnersFinite ==
  ASSUME NEW c, Stock!IsCatalog(c), NEW q
  PROVE  IsFiniteSet(Stock!Owners(c) \cup {q})
<1>0. /\ IsFiniteSet(DOMAIN c)
      /\ \A i \in DOMAIN c : c[i].contains \in Seq(Item)
  BY DEF Stock!IsCatalog, Item, IsFiniteSet, Stock!IsFiniteSet
<1> DEFINE InAny(i) == {item.owner : item \in Stock!ToSet(c[i].contains)}
<1> PICK f : f = [i \in DOMAIN c |-> InAny(i)]
  OBVIOUS
<1> PICK F : F = ImageOf(f, DOMAIN c)
  OBVIOUS
<1>1. IsFiniteSet(F)
  BY <1>0, ImageFinite
<1>2. ASSUME NEW i \in DOMAIN c PROVE IsFiniteSet(f[i])
  <2> PICK s : s = c[i].contains
    OBVIOUS
  <2>1. Len(s) \in Nat /\ DOMAIN s = 1 .. Len(s)
    BY <1>0, LenProperties
  <2> PICK g : g = [k \in DOMAIN s |-> s[k].owner]
    OBVIOUS
  <2>2. IsFiniteSet(DOMAIN s)
    BY <2>1, FS_Interval
  <2> PICK G : G = ImageOf(g, DOMAIN s)
    OBVIOUS
  <2>3. IsFiniteSet(G)
    BY <2>2, ImageFinite
  <2>4. f[i] = G
    BY DEF Stock!ToSet, ImageOf
  <2> QED
    BY <2>3, <2>4
<1>3. \A T \in F : IsFiniteSet(T)
  BY <1>2 DEF ImageOf
<1>4. IsFiniteSet(UNION F)
  BY <1>1, <1>3, FS_UNION
<1> PICK h : h = [i \in DOMAIN c |-> c[i].owner]
  OBVIOUS
<1> PICK H : H = ImageOf(h, DOMAIN c)
  OBVIOUS
<1>5. IsFiniteSet(H)
  BY <1>0, ImageFinite
<1>6. IsFiniteSet(H \cup UNION F)
  BY <1>4, <1>5, FS_Union
<1>7. Stock!Owners(c) = H \cup UNION F
  BY DEF Stock!Owners, ImageOf
<1> PICK W : W = Stock!Owners(c)
  OBVIOUS
<1>8. IsFiniteSet(W)
  BY <1>6, <1>7
<1>9. IsFiniteSet(W \cup {q})
  BY <1>8, FS_AddElement
<1> QED
  BY <1>9

LEMMA BomFinite ==
  ASSUME NEW c, NEW q, NEW O, IsBom(c, q, O)
  PROVE  IsFiniteSet(O) /\ Cardinality(O) \in Nat
<1>1. IsFiniteSet(O)
  BY OwnersFinite DEF IsBom
<1> QED
  BY <1>1, FS_CardinalityType

LEMMA IdIs ==
  ASSUME NEW c, NEW q, NEW O, IsBom(c, q, O), NEW o, IdOf(c, o) # None
  PROVE  /\ IdOf(c, o) \in Stock!LatestInventories(c, o)
         /\ Holds(c, o, O)
<1>0. /\ IsFiniteSet(DOMAIN c) /\ DOMAIN c \subseteq Int
      /\ \A i \in DOMAIN c : c[i].lines \in Seq(Line) /\ c[i].contains \in Seq(Item)
      /\ None \notin Int /\ O = Stock!Owners(c) \cup {q.owner}
  BY DEF IsBom, Stock!IsCatalog, Line, Item, IsFiniteSet, Stock!IsFiniteSet
<1> PICK ids : ids = Stock!LatestInventories(c, o)
  OBVIOUS
<1>1. ids \subseteq DOMAIN c
  BY DEF Stock!LatestInventories
<1>2. IdOf(c, o) = IF ids = {} THEN None ELSE Stock!Max(ids)
  BY DEF IdOf, Stock!LoadInventory
<1> PICK id : id = IdOf(c, o)
  OBVIOUS
<1>3. ids # {} /\ id = Max(ids)
  BY <1>2, StockMaxIs DEF StockMax
<1>4. IsFiniteSet(ids)
  BY <1>0, <1>1, FS_Subset
<1>5. id \in ids
  BY <1>0, <1>1, <1>3, <1>4, MaxOf
<1>6. id \in DOMAIN c
  BY <1>1, <1>5
<1>7. c[id].lines \in Seq(Line) /\ c[id].contains \in Seq(Item)
  BY <1>0, <1>6
<1> PICK s : s = c[id].contains
  OBVIOUS
<1>8. DOMAIN s = 1 .. Len(s)
  BY <1>7, LenProperties
<1>9. ASSUME NEW k \in 1 .. Len(s) PROVE s[k].owner \in O
  <2>1. s[k] \in Stock!ToSet(c[id].contains)
    BY <1>8 DEF Stock!ToSet
  <2>2. s[k].owner \in Stock!Owners(c)
    BY <1>6, <2>1 DEF Stock!Owners
  <2> QED
    BY <1>0, <2>2
<1>10. Contents(c, o) = s /\ LinesIn(c, o) = c[id].lines
  BY DEF Contents, LinesIn
<1> QED
  BY <1>5, <1>7, <1>9, <1>10 DEF Holds

(* The calls of expand and what they return. *)
BomCalls(O) == [owner : O, copies : Nat, path : Seq(O)]

Results(O) == [error : {None, "cycle", "missing"}, found : Seq(Found(O)), skipped : Seq(Seq(O))]

Inside(call) == Stock!Contains(call.path, call.owner)

Here(call) == Append(call.path, call.owner)

Child(c, call, k) ==
  Stock!Call(Contents(c, call.owner)[k].owner,
             Stock!Copies(call.copies, Contents(c, call.owner)[k]), Here(call))

Own(c, q, call) ==
  [Stock!Nothing EXCEPT
     !.found = Stock!Contributions(LinesIn(c, call.owner), call.copies, Here(call), q.spares)]

(* What a call has gathered after each of what the owner contains. *)
Gathered(c, q, e, call, O, run) ==
  LET m == Len(Contents(c, call.owner))
  IN  /\ run \in [0 .. m -> Results(O)] /\ run[0] = Own(c, q, call)
      /\ \A k \in 1 .. m :
           run[k] = IF run[k - 1].error # None THEN run[k - 1]
                    ELSE Stock!Join(run[k - 1], e[Child(c, call, k)])

GathersTo(c, q, e, call, O, r) ==
  \E run : Gathered(c, q, e, call, O, run) /\ r = run[Len(Contents(c, call.owner))]

Opens(c, call) == ~Inside(call) /\ IdOf(c, call.owner) # None

SkippedAt(call) == [Stock!Nothing EXCEPT !.skipped = <<Here(call)>>]

ExpandedTo(c, q, e, call, O, r) ==
  /\ r \in Results(O)
  /\ Inside(call) => r = Stock!InventoryCycle
  /\ ~Inside(call) /\ IdOf(c, call.owner) = None =>
       r = IF q.strict \/ call.path = <<>> THEN Stock!InventoryNotFound ELSE SkippedAt(call)
  /\ Opens(c, call) => GathersTo(c, q, e, call, O, r)

LEMMA JoinTyped ==
  ASSUME NEW O, NEW a \in Results(O), NEW b \in Results(O)
  PROVE  /\ Stock!Join(a, b) \in Results(O)
         /\ b.error # None => Stock!Join(a, b) = b
         /\ b.error = None => /\ Stock!Join(a, b).error = a.error
                              /\ Stock!Join(a, b).found = a.found \o b.found
                              /\ Stock!Join(a, b).skipped = a.skipped \o b.skipped
<1>1. /\ a.found \in Seq(Found(O)) /\ b.found \in Seq(Found(O))
      /\ a.skipped \in Seq(Seq(O)) /\ b.skipped \in Seq(Seq(O))
      /\ a = [error |-> a.error, found |-> a.found, skipped |-> a.skipped]
  BY DEF Results
<1>2. CASE b.error # None
  BY <1>2 DEF Stock!Join
<1>3. CASE b.error = None
  <2> PICK f : f = a.found \o b.found
    OBVIOUS
  <2> PICK s : s = a.skipped \o b.skipped
    OBVIOUS
  <2>1. f \in Seq(Found(O))
    BY <1>1, ConcatProperties
  <2>2. s \in Seq(Seq(O))
    BY <1>1, ConcatProperties
  <2>3. Stock!Join(a, b) = [a EXCEPT !.found = f, !.skipped = s]
    BY <1>3 DEF Stock!Join
  <2> PICK r : r = [a EXCEPT !.found = f, !.skipped = s]
    OBVIOUS
  <2>4. r = [error |-> a.error, found |-> f, skipped |-> s]
    BY <1>1
  <2>5. r \in Results(O)
    BY <2>1, <2>2, <2>4 DEF Results
  <2>6. r.error = a.error /\ r.found = f /\ r.skipped = s
    BY <2>4
  <2> QED
    BY <1>3, <2>3, <2>5, <2>6
<1> QED
  BY <1>2, <1>3

LEMMA SmallTyped ==
  ASSUME NEW O, NEW p \in Seq(O)
  PROVE  /\ Stock!InventoryCycle \in Results(O) /\ Stock!InventoryNotFound \in Results(O)
         /\ [Stock!Nothing EXCEPT !.skipped = <<p>>] \in Results(O)
         /\ \A f \in Seq(Found(O)) : [Stock!Nothing EXCEPT !.found = f] \in Results(O)
<1>1. <<>> \in Seq(Found(O)) /\ <<>> \in Seq(Seq(O)) /\ <<p>> \in Seq(Seq(O))
  OBVIOUS
<1> QED
  BY <1>1 DEF Results, Stock!InventoryCycle, Stock!InventoryNotFound, Stock!Failed, Stock!Nothing

LEMMA HereTyped ==
  ASSUME NEW O, NEW call \in BomCalls(O)
  PROVE  Here(call) \in Seq(O) /\ call.path \in Seq(O) /\ call.owner \in O /\ call.copies \in Nat
BY DEF BomCalls, Here

LEMMA OwnTyped ==
  ASSUME NEW c, NEW q, NEW O, IsBom(c, q, O), NEW call \in BomCalls(O),
         IdOf(c, call.owner) # None
  PROVE  /\ Own(c, q, call) \in Results(O)
         /\ Own(c, q, call).error = None /\ Own(c, q, call).skipped = <<>>
         /\ \A part : PartTotal(Own(c, q, call).found, part)
                        = call.copies * Direct(LinesIn(c, call.owner), part, q.spares)
<1> PICK f : f = Stock!Contributions(LinesIn(c, call.owner), call.copies, Here(call), q.spares)
  OBVIOUS
<1>1. LinesIn(c, call.owner) \in Seq(Line)
  BY IdIs DEF Holds
<1>2. Here(call) \in Seq(O) /\ call.copies \in Nat /\ q.spares \in BOOLEAN
  BY HereTyped DEF IsBom
<1>3. f \in Seq(Found(O))
  BY <1>1, <1>2, ContributionsTotal
<1>4. \A part : PartTotal(f, part) = call.copies * Direct(LinesIn(c, call.owner), part, q.spares)
  BY <1>1, <1>2, ContributionsTotal, SMTT(30)
<1> PICK r : r = [Stock!Nothing EXCEPT !.found = f]
  OBVIOUS
<1>5. r \in Results(O)
  BY <1>2, <1>3, SmallTyped
<1>6. r.error = None /\ r.skipped = <<>> /\ r.found = f
  BY DEF Stock!Nothing
<1>7. r = Own(c, q, call)
  BY DEF Own
<1> QED
  BY <1>4, <1>5, <1>6, <1>7

LEMMA OwnerExpanded ==
  ASSUME NEW c, NEW q, NEW O, IsBom(c, q, O), NEW call \in BomCalls(O), NEW e,
         Opens(c, call) =>
           \A k \in 1 .. Len(Contents(c, call.owner)) : e[Child(c, call, k)] \in Results(O)
  PROVE  ExpandedTo(c, q, e, call, O, Stock!ExpandOwner(c, q, e, call))
<1> PICK r : r = Stock!ExpandOwner(c, q, e, call)
  OBVIOUS
<1>0. Here(call) \in Seq(O)
  BY HereTyped
<1>1. CASE Inside(call)
  <2>1. r = Stock!InventoryCycle
    BY <1>1 DEF Stock!ExpandOwner, Inside
  <2>2. r \in Results(O)
    BY <1>0, <2>1, SmallTyped
  <2> QED
    BY <1>1, <2>1, <2>2 DEF ExpandedTo, Opens
<1>2. CASE ~Inside(call) /\ IdOf(c, call.owner) = None
  <2>1. r = IF q.strict \/ call.path = <<>> THEN Stock!InventoryNotFound ELSE SkippedAt(call)
    BY <1>2 DEF Stock!ExpandOwner, Inside, IdOf, SkippedAt, Here
  <2>2. r \in Results(O)
    BY <1>0, <2>1, SmallTyped DEF SkippedAt
  <2> QED
    BY <1>2, <2>1, <2>2 DEF ExpandedTo, Opens
<1>3. CASE Opens(c, call)
  <2> PICK items : items = Contents(c, call.owner)
    OBVIOUS
  <2> PICK m : m = Len(items)
    OBVIOUS
  <2> PICK a : a = Own(c, q, call)
    OBVIOUS
  <2> PICK D : D = Results(O)
    OBVIOUS
  <2> PICK id : id = IdOf(c, call.owner)
    OBVIOUS
  <2>0. m \in Nat /\ DOMAIN items = 1 .. m
    <3>1. items \in Seq(Item)
      BY <1>3, IdIs DEF Holds, Opens
    <3> QED
      BY <3>1, LenProperties
  <2>d. a \in D
    BY <1>3, OwnTyped DEF Opens
  <2> DEFINE Step(k, x) == IF x.error # None THEN x
                           ELSE Stock!Join(x, e[Stock!Call(items[k].owner,
                                                           Stock!Copies(call.copies, items[k]),
                                                           Here(call))])
             step == [k \in 1 .. m |-> [x \in D |-> Step(k, x)]]
             Equation(iter) ==
               iter = [s \in SUBSET (DOMAIN items) |->
                         IF s = {} THEN a
                         ELSE Step(Stock!Max(s), iter[s \ {Stock!Max(s)}])]
  <2>s. ASSUME NEW k \in 1 .. m, NEW x \in D PROVE Step(k, x) \in D
    <3> PICK b : b = e[Child(c, call, k)]
      OBVIOUS
    <3>1. b \in Results(O)
      BY <1>3
    <3>2. Stock!Join(x, b) \in D
      BY <3>1, JoinTyped
    <3>3. Step(k, x) \in {x, Stock!Join(x, b)}
      BY DEF Child
    <3> QED
      BY <3>2, <3>3
  <2>1. step \in [1 .. m -> [D -> D]]
    <3> HIDE DEF Step
    <3> QED
      BY <2>s
  <2>2. ASSUME NEW k \in 1 .. m, NEW x \in D PROVE step[k][x] = Step(k, x)
    <3> HIDE DEF Step
    <3> QED
      OBVIOUS
  <2> HIDE DEF step
  <2> PICK g \in [SUBSET (1 .. m) -> D] : Folds(D, a, step, m, g)
    BY <2>0, <2>1, <2>d, FoldExists
  <2>3. Equation(g)
    <3>1. ASSUME NEW s \in SUBSET (1 .. m), s # {}
          PROVE  g[s] = Step(Stock!Max(s), g[s \ {Stock!Max(s)}])
      <4> PICK x : x = Max(s)
        OBVIOUS
      <4>1. x \in 1 .. m
        BY <2>0, <3>1, MaxIs
      <4>2. g[s] = step[x][g[s \ {x}]] /\ g[s \ {x}] \in D
        BY <3>1 DEF Folds
      <4>3. Stock!Max(s) = x
        BY StockMaxIs DEF StockMax
      <4> HIDE DEF Step
      <4> QED
        BY <2>2, <4>1, <4>2, <4>3
    <3>2. g[{}] = a /\ g = [s \in SUBSET (1 .. m) |-> g[s]]
      BY DEF Folds
    <3> HIDE DEF Step
    <3> QED
      BY <2>0, <3>1, <3>2
  <2>i. PICK iter : iter = CHOOSE f : Equation(f)
    OBVIOUS
  <2>4. Equation(iter)
    <3> HIDE DEF Equation
    <3> QED
      BY <2>3, <2>i
  <2>5. r = iter[DOMAIN items]
    BY <1>3, <2>i
       DEF Stock!ExpandOwner, Stock!FoldLeft, Stock!MapThenFoldSet, Opens, Inside, IdOf, Own,
           Contents, LinesIn, Here
  <2>6. RunTo(D, a, step, m, iter[1 .. m])
    <3>1. iter[{}] = a
      BY <2>4
    <3>2. ASSUME NEW s \in SUBSET (1 .. m), s # {}, iter[s \ {Max(s)}] \in D
          PROVE  iter[s] = step[Max(s)][iter[s \ {Max(s)}]]
      <4> PICK x : x = Max(s)
        OBVIOUS
      <4>1. x \in 1 .. m
        BY <2>0, <3>2, MaxIs
      <4>2. Stock!Max(s) = x
        BY StockMaxIs DEF StockMax
      <4>3. iter[s] = Step(Stock!Max(s), iter[s \ {Stock!Max(s)}])
        <5> HIDE DEF Step
        <5> QED
          BY <2>0, <2>4, <3>2
      <4> HIDE DEF Step, Equation
      <4> QED
        BY <2>2, <3>2, <4>1, <4>2, <4>3
    <3> HIDE DEF Step, Equation
    <3>3. FoldsFrom(D, a, step, m, iter)
      BY <3>1, <3>2 DEF FoldsFrom
    <3> QED
      BY <2>0, <2>1, <2>d, <3>3, FoldIs
  <2> PICK run : FoldRun(D, a, step, m, run) /\ run[m] = iter[1 .. m]
    BY <2>6 DEF RunTo
  <2> HIDE DEF Equation
  <2>7. ASSUME NEW k \in 1 .. m PROVE run[k] = Step(k, run[k - 1])
    <3>1. run[k] = step[k][run[k - 1]] /\ run[k - 1] \in D
      BY <2>0 DEF FoldRun
    <3> HIDE DEF Step
    <3> QED
      BY <2>2, <3>1
  <2>8. r = run[m]
    BY <2>0, <2>5
  <2>9. Gathered(c, q, e, call, O, run)
    BY <2>7 DEF Gathered, Child, FoldRun
  <2>10. r \in Results(O)
    BY <2>0, <2>8 DEF FoldRun
  <2>11. GathersTo(c, q, e, call, O, r)
    BY <2>8, <2>9 DEF GathersTo
  <2> HIDE DEF Step
  <2> QED
    BY <1>3, <2>10, <2>11 DEF ExpandedTo, Opens
<1> QED
  BY <1>1, <1>2, <1>3 DEF Opens

-----------------------------------------------------------------------------
(* How many owners are not in the path of a call. *)
Rest(O, path) == O \ {path[i] : i \in 1 .. Len(path)}

Weight(O, call) == Cardinality(Rest(O, call.path))

LEMMA WeightIs ==
  ASSUME NEW c, NEW q, NEW O, IsBom(c, q, O), NEW call
  PROVE  Weight(O, call) \in Nat /\ Weight(O, call) <= Cardinality(O)
<1> PICK R : R = Rest(O, call.path)
  OBVIOUS
<1>1. R \in SUBSET O
  BY DEF Rest
<1>2. IsFiniteSet(O)
  BY BomFinite
<1>3. Cardinality(R) \in Nat /\ Cardinality(R) <= Cardinality(O)
  BY <1>1, <1>2, FS_Subset, FS_CardinalityType
<1> QED
  BY <1>3 DEF Weight

(* A call that is made by another has one owner more in its path. *)
LEMMA ChildIs ==
  ASSUME NEW c, NEW q, NEW O, IsBom(c, q, O), NEW call \in BomCalls(O), Opens(c, call),
         NEW k \in 1 .. Len(Contents(c, call.owner))
  PROVE  /\ Child(c, call, k) \in BomCalls(O)
         /\ Weight(O, Child(c, call, k)) = Weight(O, call) - 1
<1> PICK o : o = call.owner
  OBVIOUS
<1> PICK path : path = call.path
  OBVIOUS
<1> PICK items : items = Contents(c, o)
  OBVIOUS
<1>1. o \in O /\ path \in Seq(O) /\ call.copies \in Nat /\ Here(call) \in Seq(O)
  BY HereTyped
<1>2. items \in Seq(Item) /\ items[k].owner \in O
  BY IdIs DEF Holds, Opens
<1>3. items[k] \in Item
  BY <1>2, ElementOfSeq
<1>4. Stock!Copies(call.copies, items[k]) \in Nat
  BY <1>1, <1>3 DEF Stock!Copies, Item
<1> PICK child : child = Child(c, call, k)
  OBVIOUS
<1>5. child = [owner |-> items[k].owner, copies |-> Stock!Copies(call.copies, items[k]),
               path |-> Here(call)]
  BY DEF Child, Stock!Call
<1>6. child \in BomCalls(O)
  BY <1>1, <1>2, <1>4, <1>5 DEF BomCalls
<1>7. \A i \in 1 .. Len(path) : path[i] # o
  BY DEF Opens, Inside, Stock!Contains
<1> PICK n \in Nat : n = Len(path)
  BY <1>1, LenProperties
<1> PICK here : here = Here(call)
  OBVIOUS
<1>8. Len(here) = n + 1 /\ here[n + 1] = o /\ \A i \in 1 .. n : here[i] = path[i]
  BY <1>1, AppendProperties DEF Here
<1>r. PICK R : R = Rest(O, path)
  OBVIOUS
<1>s. PICK S : S = Rest(O, here)
  OBVIOUS
<1>9. o \in R /\ R \in SUBSET O
  BY <1>1, <1>7, <1>r DEF Rest
<1>10. S = R \ {o}
  <2>1. ASSUME NEW x \in S PROVE x \in R /\ x # o
    <3>1. x \in O /\ \A i \in 1 .. n + 1 : here[i] # x
      BY <1>8, <1>s DEF Rest
    <3>2. \A i \in 1 .. n : path[i] # x
      BY <1>8, <3>1
    <3> QED
      BY <1>8, <1>r, <3>1, <3>2 DEF Rest
  <2>2. ASSUME NEW x \in R, x # o PROVE x \in S
    <3>1. x \in O /\ \A i \in 1 .. n : path[i] # x
      BY <1>r DEF Rest
    <3>2. ASSUME NEW i \in 1 .. n + 1 PROVE here[i] # x
      <4>1. CASE i = n + 1
        BY <1>8, <2>2, <4>1
      <4>2. CASE i # n + 1
        BY <1>8, <3>1, <4>2
      <4> QED
        BY <4>1, <4>2
    <3> QED
      BY <1>8, <1>s, <3>1, <3>2 DEF Rest
  <2> QED
    BY <2>1, <2>2
<1>11. IsFiniteSet(R)
  BY <1>9, BomFinite, FS_Subset
<1>12. Cardinality(R \ {o}) = Cardinality(R) - 1
  BY <1>9, <1>11, FS_RemoveElement
<1>13. Weight(O, child) = Cardinality(S) /\ Weight(O, call) = Cardinality(R)
  BY <1>5, <1>r, <1>s DEF Weight
<1> QED
  BY <1>6, <1>10, <1>12, <1>13

(* Induction from the calls that a call makes. *)
LEMMA CallsInduct ==
  ASSUME NEW c, NEW q, NEW O, IsBom(c, q, O), NEW T,
         \A call \in BomCalls(O) :
           (Opens(c, call) => \A k \in 1 .. Len(Contents(c, call.owner)) : Child(c, call, k) \in T)
             => call \in T
  PROVE  \A call \in BomCalls(O) : call \in T
<1> DEFINE K == {n \in Nat : \A call \in BomCalls(O) : Weight(O, call) <= n => call \in T}
<1>1. 0 \in K
  <2> SUFFICES ASSUME NEW call \in BomCalls(O), Weight(O, call) <= 0 PROVE call \in T
    OBVIOUS
  <2>1. ASSUME Opens(c, call), NEW k \in 1 .. Len(Contents(c, call.owner)) PROVE FALSE
    <3>1. Weight(O, Child(c, call, k)) = Weight(O, call) - 1
      BY <2>1, ChildIs
    <3>2. Weight(O, Child(c, call, k)) \in Nat /\ Weight(O, call) \in Nat
      BY WeightIs
    <3> QED
      BY <3>1, <3>2
  <2> QED
    BY <2>1
<1>2. ASSUME NEW n \in Nat, n \in K PROVE n + 1 \in K
  <2> SUFFICES ASSUME NEW call \in BomCalls(O), Weight(O, call) <= n + 1 PROVE call \in T
    OBVIOUS
  <2>1. ASSUME Opens(c, call), NEW k \in 1 .. Len(Contents(c, call.owner))
        PROVE  Child(c, call, k) \in T
    <3>1. /\ Weight(O, Child(c, call, k)) = Weight(O, call) - 1
          /\ Child(c, call, k) \in BomCalls(O)
      BY <2>1, ChildIs
    <3>2. Weight(O, call) \in Nat
      BY WeightIs
    <3> QED
      BY <1>2, <3>1, <3>2
  <2> QED
    BY <2>1
<1> HIDE DEF K
<1> SUFFICES ASSUME NEW call \in BomCalls(O) PROVE call \in T
  OBVIOUS
<1>3. Weight(O, call) \in Nat
  BY WeightIs
<1>4. Weight(O, call) \in K
  BY <1>1, <1>2, <1>3, Induct
<1> QED
  BY <1>3, <1>4 DEF K

(* A call depends on those it makes only. *)
LEMMA ExpandSame ==
  ASSUME NEW c, NEW q, NEW O, IsBom(c, q, O), NEW call \in BomCalls(O), NEW g, NEW h,
         Opens(c, call) =>
           \A k \in 1 .. Len(Contents(c, call.owner)) :
             /\ g[Child(c, call, k)] \in Results(O)
             /\ h[Child(c, call, k)] = g[Child(c, call, k)]
  PROVE  Stock!ExpandOwner(c, q, h, call) = Stock!ExpandOwner(c, q, g, call)
<1> PICK r : r = Stock!ExpandOwner(c, q, g, call)
  OBVIOUS
<1> PICK s : s = Stock!ExpandOwner(c, q, h, call)
  OBVIOUS
<1>1. ExpandedTo(c, q, g, call, O, r) /\ ExpandedTo(c, q, h, call, O, s)
  BY OwnerExpanded
<1>2. CASE ~Opens(c, call)
  BY <1>1, <1>2 DEF ExpandedTo, Opens
<1>3. CASE Opens(c, call)
  <2> PICK items : items = Contents(c, call.owner)
    OBVIOUS
  <2> PICK m : m = Len(items)
    OBVIOUS
  <2>0. m \in Nat
    <3>1. items \in Seq(Item)
      BY <1>3, IdIs DEF Holds, Opens
    <3> QED
      BY <3>1, LenProperties
  <2> PICK u : Gathered(c, q, g, call, O, u) /\ r = u[m]
    BY <1>1, <1>3 DEF ExpandedTo, GathersTo
  <2> PICK v : Gathered(c, q, h, call, O, v) /\ s = v[m]
    BY <1>1, <1>3 DEF ExpandedTo, GathersTo
  <2>1. /\ u[0] = Own(c, q, call)
        /\ \A k \in 1 .. m :
             u[k] = IF u[k - 1].error # None THEN u[k - 1]
                    ELSE Stock!Join(u[k - 1], g[Child(c, call, k)])
    BY DEF Gathered
  <2>2. /\ v[0] = Own(c, q, call)
        /\ \A k \in 1 .. m :
             v[k] = IF v[k - 1].error # None THEN v[k - 1]
                    ELSE Stock!Join(v[k - 1], h[Child(c, call, k)])
    BY DEF Gathered
  <2> DEFINE T == {k \in Nat : k <= m => u[k] = v[k]}
  <2>3. 0 \in T
    BY <2>1, <2>2
  <2>4. ASSUME NEW k \in Nat, k \in T PROVE k + 1 \in T
    <3> SUFFICES ASSUME k + 1 <= m PROVE u[k + 1] = v[k + 1]
      OBVIOUS
    <3> PICK j : j = k + 1
      OBVIOUS
    <3>1. j \in 1 .. m /\ j - 1 = k /\ u[k] = v[k]
      BY <2>4
    <3>2. h[Child(c, call, j)] = g[Child(c, call, j)]
      BY <1>3, <3>1
    <3>3. u[j] = v[j]
      BY <2>1, <2>2, <3>1, <3>2
    <3> QED
      BY <3>3
  <2> HIDE DEF T
  <2>5. m \in T
    BY <2>0, <2>3, <2>4, Induct
  <2> QED
    BY <2>5, <2>0 DEF T
<1> QED
  BY <1>2, <1>3

Expands(c, q, O, e) == \A call \in BomCalls(O) : ExpandedTo(c, q, e, call, O, e[call])

LEMMA ExpansionIs ==
  ASSUME NEW c, NEW q, NEW O, IsBom(c, q, O)
  PROVE  Expands(c, q, O, Stock!Expansion(c, q))
<1>b. PICK B : B = BomCalls(O)
  OBVIOUS
<1>d. PICK D : D = Results(O)
  OBVIOUS
<1>c. PICK C : C = [B -> D]
  OBVIOUS
<1> DEFINE After(g, call) == Stock!ExpandOwner(c, q, g, call)
           next == [g \in C |-> [call \in B |-> After(g, call)]]
           Equation(e) == e = [call \in B |-> After(e, call)]
<1>s. PICK start : start = [call \in B |-> Stock!InventoryCycle]
  OBVIOUS
<1> HIDE DEF After
<1>1. ASSUME NEW g \in C, NEW call \in B PROVE After(g, call) \in D
  <2>1. ASSUME Opens(c, call), NEW k \in 1 .. Len(Contents(c, call.owner))
        PROVE  g[Child(c, call, k)] \in Results(O)
    <3>1. Child(c, call, k) \in B
      BY <1>b, <2>1, ChildIs
    <3> QED
      BY <1>c, <1>d, <3>1
  <2>2. ExpandedTo(c, q, g, call, O, After(g, call))
    BY <1>b, <2>1, OwnerExpanded DEF After
  <2> QED
    BY <1>d, <2>2 DEF ExpandedTo
<1>2. next \in [C -> C] /\ start \in C
  <2>1. <<>> \in Seq(O)
    OBVIOUS
  <2>2. Stock!InventoryCycle \in D
    BY <1>d, <2>1, SmallTyped
  <2>3. start \in C
    BY <1>c, <1>s, <2>2
  <2>4. next \in [C -> C]
    BY <1>1, <1>c
  <2> QED
    BY <2>3, <2>4
<1>3. ASSUME NEW g \in C, NEW call \in B PROVE next[g][call] = After(g, call)
  OBVIOUS
<1> HIDE DEF next
<1> PICK f : f \in Runs(C, start, next)
  BY <1>2, Recursion
<1>4. f \in [Nat -> C] /\ \A m \in Nat : f[m + 1] = next[f[m]]
  BY DEF Runs
<1>5. ASSUME NEW m \in Nat, NEW call \in B PROVE f[m + 1][call] = After(f[m], call)
  BY <1>3, <1>4
<1> DEFINE K == {n \in Nat : \A call \in B : Weight(O, call) < n => f[n + 1][call] = f[n][call]}
<1>6. 0 \in K
  BY WeightIs
<1>7. ASSUME NEW n \in Nat, n \in K PROVE n + 1 \in K
  <2> SUFFICES ASSUME NEW call \in B, Weight(O, call) < n + 1
               PROVE  f[n + 1 + 1][call] = f[n + 1][call]
    OBVIOUS
  <2>1. f[n + 1 + 1][call] = After(f[n + 1], call) /\ f[n + 1][call] = After(f[n], call)
    BY <1>5
  <2> PICK g : g = f[n]
    OBVIOUS
  <2> PICK h : h = f[n + 1]
    OBVIOUS
  <2>2. g \in C /\ h \in C
    BY <1>4
  <2>3. ASSUME Opens(c, call), NEW k \in 1 .. Len(Contents(c, call.owner))
        PROVE  g[Child(c, call, k)] \in Results(O) /\ h[Child(c, call, k)] = g[Child(c, call, k)]
    <3>1. Child(c, call, k) \in B /\ Weight(O, Child(c, call, k)) = Weight(O, call) - 1
      BY <1>b, <2>3, ChildIs
    <3>2. Weight(O, call) \in Nat
      BY WeightIs
    <3>3. Weight(O, Child(c, call, k)) < n
      BY <3>1, <3>2
    <3> QED
      BY <1>7, <1>c, <1>d, <2>2, <3>1, <3>3
  <2>4. After(h, call) = After(g, call)
    BY <1>b, <2>3, ExpandSame DEF After
  <2> QED
    BY <2>1, <2>4
<1> HIDE DEF K
<1>n. PICK n : n = Cardinality(O) + 1
  OBVIOUS
<1>8. n \in Nat /\ \A call : Weight(O, call) < n
  <2>1. Cardinality(O) \in Nat
    BY BomFinite
  <2>2. \A call : Weight(O, call) \in Nat /\ Weight(O, call) <= Cardinality(O)
    BY WeightIs
  <2> QED
    BY <1>n, <2>1, <2>2
<1>9. n \in K
  BY <1>6, <1>7, <1>8, Induct
<1> PICK last : last = f[n]
  OBVIOUS
<1>10. \A call \in B : last[call] = After(last, call)
  BY <1>5, <1>8, <1>9 DEF K
<1>11. last \in [B -> D]
  BY <1>4, <1>8, <1>c
<1>12. Equation(last)
  BY <1>10, <1>11
<1> HIDE DEF Equation
<1>e. PICK e : e = CHOOSE g : Equation(g)
  OBVIOUS
<1>13. Equation(e)
  BY <1>12, <1>e
<1>14. Stock!Expansion(c, q) = e
  BY <1>b, <1>e DEF Stock!Expansion, Equation, After, BomCalls, IsBom
<1>15. \A call \in B : e[call] = After(e, call)
  BY <1>13 DEF Equation
<1>t. PICK T : T = {call \in B : e[call] \in D}
  OBVIOUS
<1>16. ASSUME NEW call \in BomCalls(O),
              Opens(c, call) =>
                \A k \in 1 .. Len(Contents(c, call.owner)) : Child(c, call, k) \in T
       PROVE  call \in T
  <2>1. ExpandedTo(c, q, e, call, O, Stock!ExpandOwner(c, q, e, call))
    BY <1>16, <1>d, <1>t, OwnerExpanded
  <2>2. e[call] \in D
    BY <1>15, <1>b, <1>d, <2>1 DEF ExpandedTo, After
  <2> QED
    BY <1>b, <1>t, <2>2
<1>17. \A call \in BomCalls(O) : call \in T
  BY <1>16, CallsInduct
<1>18. ASSUME NEW call \in BomCalls(O) PROVE ExpandedTo(c, q, e, call, O, e[call])
  <2>1. Opens(c, call) => \A k \in 1 .. Len(Contents(c, call.owner)) :
                             e[Child(c, call, k)] \in Results(O)
    BY <1>17, <1>d, <1>t, ChildIs
  <2>2. ExpandedTo(c, q, e, call, O, Stock!ExpandOwner(c, q, e, call))
    BY <2>1, OwnerExpanded
  <2>3. e[call] = Stock!ExpandOwner(c, q, e, call)
    BY <1>15, <1>b DEF After
  <2> QED
    BY <2>2, <2>3
<1> QED
  BY <1>14, <1>18 DEF Expands

-----------------------------------------------------------------------------
(* What a call that opens an inventory has gathered, and from what. *)
Running(c, q, O, e, call, run, m) ==
  /\ m \in Nat /\ m = Len(Contents(c, call.owner))
  /\ run \in [0 .. m -> Results(O)] /\ run[0] = Own(c, q, call)
  /\ \A k \in 1 .. m :
       /\ e[Child(c, call, k)] \in Results(O)
       /\ run[k] = IF run[k - 1].error # None THEN run[k - 1]
                   ELSE Stock!Join(run[k - 1], e[Child(c, call, k)])
  /\ e[call] = run[m]

LEMMA RunningIs ==
  ASSUME NEW c, NEW q, NEW O, IsBom(c, q, O), NEW e, Expands(c, q, O, e),
         NEW call \in BomCalls(O), Opens(c, call)
  PROVE  \E run, m : Running(c, q, O, e, call, run, m)
<1> PICK m : m = Len(Contents(c, call.owner))
  OBVIOUS
<1>1. m \in Nat
  <2>1. Contents(c, call.owner) \in Seq(Item)
    BY IdIs DEF Holds, Opens
  <2> QED
    BY <2>1, LenProperties
<1>2. ExpandedTo(c, q, e, call, O, e[call])
  BY DEF Expands
<1> PICK run : Gathered(c, q, e, call, O, run) /\ e[call] = run[m]
  BY <1>2 DEF ExpandedTo, GathersTo
<1>3. ASSUME NEW k \in 1 .. m PROVE e[Child(c, call, k)] \in Results(O)
  <2>1. Child(c, call, k) \in BomCalls(O)
    BY ChildIs
  <2> QED
    BY <2>1 DEF Expands, ExpandedTo
<1>4. Running(c, q, O, e, call, run, m)
  BY <1>1, <1>3 DEF Running, Gathered
<1> QED
  BY <1>4

JoinIs(x, y, w) ==
  /\ y.error # None => w = y
  /\ y.error = None => /\ w.error = x.error
                       /\ w.found = x.found \o y.found
                       /\ w.skipped = x.skipped \o y.skipped

LEMMA JoinTypes ==
  ASSUME NEW O, NEW x \in Results(O), NEW y \in Results(O)
  PROVE  JoinIs(x, y, Stock!Join(x, y))
<1>1. y.error # None => Stock!Join(x, y) = y
  BY DEF Stock!Join
<1>2. y.error = None => /\ Stock!Join(x, y).error = x.error
                        /\ Stock!Join(x, y).found = x.found \o y.found
                        /\ Stock!Join(x, y).skipped = x.skipped \o y.skipped
  BY JoinTyped
<1> QED
  BY <1>1, <1>2 DEF JoinIs

(* Without an error, each step was without one. *)
Smooth(c, call, O, e, run, m) ==
  \A k \in 1 .. m :
    /\ run[k - 1] \in Results(O) /\ run[k - 1].error = None
    /\ e[Child(c, call, k)].error = None
    /\ run[k].found = run[k - 1].found \o e[Child(c, call, k)].found
    /\ run[k].skipped = run[k - 1].skipped \o e[Child(c, call, k)].skipped

LEMMA RunsSmoothly ==
  ASSUME NEW c, NEW q, NEW O, NEW e, NEW call, NEW run, NEW m,
         Running(c, q, O, e, call, run, m), e[call].error = None
  PROVE  Smooth(c, call, O, e, run, m)
<1>0. /\ m \in Nat
      /\ run \in [0 .. m -> Results(O)]
      /\ \A k \in 1 .. m :
           /\ e[Child(c, call, k)] \in Results(O)
           /\ run[k] = IF run[k - 1].error # None THEN run[k - 1]
                       ELSE Stock!Join(run[k - 1], e[Child(c, call, k)])
      /\ e[call] = run[m]
  BY DEF Running
<1> DEFINE Fine(k) ==
             /\ run[k - 1].error = None
             /\ e[Child(c, call, k)].error = None
             /\ run[k].found = run[k - 1].found \o e[Child(c, call, k)].found
             /\ run[k].skipped = run[k - 1].skipped \o e[Child(c, call, k)].skipped
           T == {n \in Nat : n <= m =>
                   (run[n].error = None => \A k \in 1 .. n : Fine(k))}
<1>1. 0 \in T
  <2> HIDE DEF Fine
  <2>1. \A k \in 1 .. 0 : Fine(k)
    <3>1. 1 .. 0 = {}
      OBVIOUS
    <3> QED
      BY <3>1
  <2> QED
    BY <2>1
<1>2. ASSUME NEW n \in Nat, n \in T PROVE n + 1 \in T
  <2> HIDE DEF Fine
  <2> SUFFICES ASSUME n + 1 <= m, run[n + 1].error = None
               PROVE  \A k \in 1 .. n + 1 : Fine(k)
    OBVIOUS
  <2>j. PICK j : j = n + 1
    OBVIOUS
  <2>1. j \in 1 .. m /\ j - 1 = n /\ n \in 0 .. m
    BY <1>0, <2>j
  <2>x. PICK x : x = run[n]
    OBVIOUS
  <2>y. PICK y : y = e[Child(c, call, j)]
    OBVIOUS
  <2>2. x \in Results(O) /\ y \in Results(O) /\ run[j] = IF x.error # None THEN x ELSE Stock!Join(x, y)
    BY <1>0, <2>1, <2>x, <2>y
  <2>3. x.error = None
    BY <2>2, <2>j
  <2>w. PICK w : w = Stock!Join(x, y)
    OBVIOUS
  <2>J. /\ y.error # None => w = y
        /\ y.error = None => w.error = x.error /\ w.found = x.found \o y.found /\ w.skipped = x.skipped \o y.skipped
    <3>1. x \in Results(O) /\ y \in Results(O)
      BY <2>2
    <3>2. JoinIs(x, y, Stock!Join(x, y))
      BY <3>1, JoinTypes
    <3>3. JoinIs(x, y, w)
      BY <3>2, <2>w
    <3> QED
      BY <3>3 DEF JoinIs
  <2>4. run[j] = w
    BY <2>2, <2>3, <2>w
  <2>5. y.error = None
    BY <2>J, <2>4, <2>j
  <2>6. run[j].found = x.found \o y.found /\ run[j].skipped = x.skipped \o y.skipped
    BY <2>J, <2>4, <2>5
  <2>7. Fine(j)
    BY <2>1, <2>3, <2>5, <2>6, <2>x, <2>y DEF Fine
  <2>8. \A k \in 1 .. n : Fine(k)
    BY <1>2, <2>1, <2>3, <2>x
  <2> QED
    BY <2>7, <2>8, <2>j
<1> HIDE DEF T, Fine
<1>3. m \in T
  BY <1>0, <1>1, <1>2, Induct
<1>4. \A k \in 1 .. m : Fine(k)
  BY <1>0, <1>3 DEF T
<1>5. \A k \in 1 .. m : run[k - 1] \in Results(O)
  BY <1>0
<1> QED
  BY <1>4, <1>5 DEF Smooth, Fine

(* An error is that of a call it makes. *)
LEMMA RunsFail ==
  ASSUME NEW c, NEW q, NEW O, IsBom(c, q, O), NEW e, NEW call \in BomCalls(O), Opens(c, call),
         NEW run, NEW m, Running(c, q, O, e, call, run, m), e[call].error # None
  PROVE  \E k \in 1 .. m : e[Child(c, call, k)].error = e[call].error
<1>0. /\ m \in Nat
      /\ run \in [0 .. m -> Results(O)] /\ run[0] = Own(c, q, call)
      /\ \A k \in 1 .. m :
           /\ e[Child(c, call, k)] \in Results(O)
           /\ run[k] = IF run[k - 1].error # None THEN run[k - 1]
                       ELSE Stock!Join(run[k - 1], e[Child(c, call, k)])
      /\ e[call] = run[m]
  BY DEF Running
<1> DEFINE T == {n \in Nat : n <= m =>
                   (run[n].error # None =>
                      \E k \in 1 .. n : e[Child(c, call, k)].error = run[n].error)}
<1>1. 0 \in T
  <2>1. run[0].error = None
    BY <1>0, OwnTyped DEF Opens
  <2> QED
    BY <2>1
<1>2. ASSUME NEW n \in Nat, n \in T PROVE n + 1 \in T
  <2> SUFFICES ASSUME n + 1 <= m, run[n + 1].error # None
               PROVE  \E k \in 1 .. n + 1 : e[Child(c, call, k)].error = run[n + 1].error
    OBVIOUS
  <2>j. PICK j : j = n + 1
    OBVIOUS
  <2>1. j \in 1 .. m /\ j - 1 = n /\ n \in 0 .. m
    BY <1>0, <2>j
  <2>x. PICK x : x = run[n]
    OBVIOUS
  <2>y. PICK y : y = e[Child(c, call, j)]
    OBVIOUS
  <2>2. x \in Results(O) /\ y \in Results(O) /\ run[j] = IF x.error # None THEN x ELSE Stock!Join(x, y)
    BY <1>0, <2>1, <2>x, <2>y
  <2>3. CASE x.error # None
    <3>1. run[j] = run[n]
      BY <2>2, <2>3, <2>x
    <3>2. PICK k \in 1 .. n : e[Child(c, call, k)].error = run[n].error
      BY <1>2, <2>1, <2>3, <2>x
    <3> QED
      BY <2>j, <3>1, <3>2
  <2>w. PICK w : w = Stock!Join(x, y)
    OBVIOUS
  <2>J. /\ y.error # None => w = y
        /\ y.error = None => w.error = x.error /\ w.found = x.found \o y.found /\ w.skipped = x.skipped \o y.skipped
    <3>1. x \in Results(O) /\ y \in Results(O)
      BY <2>2
    <3>2. JoinIs(x, y, Stock!Join(x, y))
      BY <3>1, JoinTypes
    <3>3. JoinIs(x, y, w)
      BY <3>2, <2>w
    <3> QED
      BY <3>3 DEF JoinIs
  <2>4. CASE x.error = None
    <3>1. run[j] = w
      BY <2>2, <2>4, <2>w
    <3>2. y.error # None
      BY <2>J, <2>4, <2>j, <3>1
    <3>3. run[j] = y
      BY <2>J, <3>1, <3>2
    <3> QED
      BY <2>j, <2>y, <3>3
  <2> QED
    BY <2>3, <2>4
<1> HIDE DEF T
<1>3. m \in T
  BY <1>0, <1>1, <1>2, Induct
<1> QED
  BY <1>0, <1>3 DEF T

-----------------------------------------------------------------------------
(* What is in two sequences together. *)
LEMMA InBoth ==
  ASSUME NEW S, NEW x \in Seq(S), NEW y \in Seq(S), NEW p
  PROVE  p \in ToSet(x \o y) <=> p \in ToSet(x) \/ p \in ToSet(y)
<1>z. PICK z : z = x \o y
  OBVIOUS
<1> PICK a \in Nat : a = Len(x)
  BY LenProperties
<1> PICK b \in Nat : b = Len(y)
  BY LenProperties
<1>1. DOMAIN x = 1 .. a /\ DOMAIN y = 1 .. b
  BY LenProperties
<1>2. /\ z \in Seq(S) /\ Len(z) = a + b
      /\ \A i \in 1 .. a + b : z[i] = IF i <= a THEN x[i] ELSE y[i - a]
  BY <1>z, ConcatProperties
<1>3. DOMAIN z = 1 .. a + b
  BY <1>2, LenProperties
<1>4. ASSUME NEW i \in 1 .. b, p = y[i] PROVE p \in ToSet(z)
  <2>1. a + i \in 1 .. a + b /\ ~(a + i <= a) /\ (a + i) - a = i
    OBVIOUS
  <2>2. z[a + i] = y[i]
    BY <1>2, <2>1
  <2> QED
    BY <1>3, <1>4, <2>1, <2>2 DEF ToSet
<1>5. ASSUME NEW i \in 1 .. a, p = x[i] PROVE p \in ToSet(z)
  <2>1. i \in 1 .. a + b /\ i <= a
    OBVIOUS
  <2>2. z[i] = x[i]
    BY <1>2, <2>1
  <2> QED
    BY <1>3, <1>5, <2>1, <2>2 DEF ToSet
<1>6. ASSUME NEW i \in 1 .. a + b, p = z[i] PROVE p \in ToSet(x) \/ p \in ToSet(y)
  <2>1. CASE i <= a
    <3>1. i \in 1 .. a /\ z[i] = x[i]
      BY <1>2, <2>1
    <3> QED
      BY <1>1, <1>6, <3>1 DEF ToSet
  <2>2. CASE ~(i <= a)
    <3>1. i - a \in 1 .. b /\ z[i] = y[i - a]
      BY <1>2, <2>2
    <3> QED
      BY <1>1, <1>6, <3>1 DEF ToSet
  <2> QED
    BY <2>1, <2>2
<1>7. p \in ToSet(z) <=> p \in ToSet(x) \/ p \in ToSet(y)
  <2>1. p \in ToSet(x) <=> \E i \in 1 .. a : p = x[i]
    BY <1>1 DEF ToSet
  <2>2. p \in ToSet(y) <=> \E i \in 1 .. b : p = y[i]
    BY <1>1 DEF ToSet
  <2>3. p \in ToSet(z) <=> \E i \in 1 .. a + b : p = z[i]
    BY <1>3 DEF ToSet
  <2> QED
    BY <1>4, <1>5, <1>6, <2>1, <2>2, <2>3
<1> QED
  BY <1>7, <1>z

(* What is in a call's skipped paths comes from the calls it makes. *)
LEMMA SkippedFrom ==
  ASSUME NEW c, NEW q, NEW O, IsBom(c, q, O), NEW e, Expands(c, q, O, e),
         NEW call \in BomCalls(O), Opens(c, call), e[call].error = None
  PROVE  /\ \A k \in 1 .. Len(Contents(c, call.owner)) : e[Child(c, call, k)].error = None
         /\ \A p : p \in ToSet(e[call].skipped) <=>
                     \E k \in 1 .. Len(Contents(c, call.owner)) :
                       p \in ToSet(e[Child(c, call, k)].skipped)
<1> PICK run, m : Running(c, q, O, e, call, run, m)
  BY RunningIs
<1>0. /\ m \in Nat /\ m = Len(Contents(c, call.owner))
      /\ run \in [0 .. m -> Results(O)] /\ run[0] = Own(c, q, call)
      /\ \A k \in 1 .. m : e[Child(c, call, k)] \in Results(O)
      /\ e[call] = run[m]
  BY DEF Running
<1>1. Smooth(c, call, O, e, run, m)
  BY RunsSmoothly
<1>2. \A k \in 1 .. m : e[Child(c, call, k)].error = None
  BY <1>1 DEF Smooth
<1> SUFFICES ASSUME NEW p
             PROVE  p \in ToSet(run[m].skipped) <=>
                      \E k \in 1 .. m : p \in ToSet(e[Child(c, call, k)].skipped)
  BY <1>0, <1>2
<1> DEFINE From(n) == \E k \in 1 .. n : p \in ToSet(e[Child(c, call, k)].skipped)
           T == {n \in Nat : n <= m => (p \in ToSet(run[n].skipped) <=> From(n))}
<1>3. 0 \in T
  <2>1. run[0].skipped = <<>>
    BY <1>0, OwnTyped DEF Opens
  <2> QED
    BY <2>1 DEF ToSet
<1>4. ASSUME NEW n \in Nat, n \in T PROVE n + 1 \in T
  <2> SUFFICES ASSUME n + 1 <= m PROVE p \in ToSet(run[n + 1].skipped) <=> From(n + 1)
    OBVIOUS
  <2>j. PICK j : j = n + 1
    OBVIOUS
  <2>1. j \in 1 .. m /\ j - 1 = n /\ n \in 0 .. m
    BY <1>0, <2>j
  <2>2. p \in ToSet(run[n].skipped) <=> From(n)
    BY <1>4, <2>1
  <2>x. PICK x : x = run[n].skipped
    OBVIOUS
  <2>y. PICK y : y = e[Child(c, call, j)].skipped
    OBVIOUS
  <2>3. run[n] \in Results(O) /\ e[Child(c, call, j)] \in Results(O)
    BY <1>0, <2>1
  <2>4. x \in Seq(Seq(O)) /\ y \in Seq(Seq(O))
    BY <2>3, <2>x, <2>y DEF Results
  <2>5. run[j].skipped = x \o y
    BY <1>1, <2>1, <2>x, <2>y DEF Smooth
  <2>6. p \in ToSet(x \o y) <=> p \in ToSet(x) \/ p \in ToSet(y)
    BY <2>4, InBoth
  <2>7. From(j) <=> From(n) \/ p \in ToSet(y)
    BY <2>1, <2>j, <2>y
  <2> HIDE DEF From
  <2>8. p \in ToSet(run[j].skipped) <=> From(j)
    BY <2>2, <2>5, <2>6, <2>7, <2>x
  <2> QED
    BY <2>8, <2>j
<1> HIDE DEF T
<1>5. m \in T
  BY <1>0, <1>3, <1>4, Induct
<1> QED
  BY <1>0, <1>5 DEF T

-----------------------------------------------------------------------------
(* What is below an owner is the least set with what the owner contains    *)
(* and, with each of its members, what that one contains.                  *)
IsClosed(c, o, S) ==
  /\ Contained(c, o) \subseteq S
  /\ \A x \in S : Contained(c, x) \subseteq S

LEMMA ContainedIs ==
  ASSUME NEW c, NEW q, NEW O, IsBom(c, q, O), NEW o
  PROVE  /\ IdOf(c, o) = None => Contained(c, o) = {}
         /\ IdOf(c, o) # None =>
              Contained(c, o) = {Contents(c, o)[k].owner : k \in 1 .. Len(Contents(c, o))}
         /\ Contained(c, o) \subseteq Stock!Owners(c)
<1>1. CASE IdOf(c, o) = None
  BY <1>1 DEF Contained, IdOf
<1>2. CASE IdOf(c, o) # None
  <2>i. PICK id : id = IdOf(c, o)
    OBVIOUS
  <2>s. PICK s : s = Contents(c, o)
    OBVIOUS
  <2>1. id \in DOMAIN c
    BY <1>2, <2>i, IdIs DEF Stock!LatestInventories
  <2>2. s \in Seq(Item)
    BY <1>2, <2>s, IdIs DEF Holds
  <2>3. DOMAIN s = 1 .. Len(s)
    BY <2>2, LenProperties
  <2>4. s = c[id].contains
    BY <2>i, <2>s DEF Contents
  <2>5. Contained(c, o) = {item.owner : item \in ToSet(s)}
    BY <1>2, <2>4, <2>i DEF Contained, IdOf
  <2>6. Contained(c, o) = {s[k].owner : k \in 1 .. Len(s)}
    BY <2>3, <2>5 DEF ToSet
  <2>7. ASSUME NEW x \in Contained(c, o) PROVE x \in Stock!Owners(c)
    <3> PICK item \in ToSet(s) : x = item.owner
      BY <2>5, <2>7
    <3>1. item \in Stock!ToSet(c[id].contains)
      BY <2>4 DEF ToSet, Stock!ToSet
    <3> QED
      BY <2>1, <3>1 DEF Stock!Owners
  <2> QED
    BY <1>2, <2>6, <2>7, <2>s
<1> QED
  BY <1>1, <1>2

LEMMA LargerCard ==
  ASSUME NEW S, NEW R, IsFiniteSet(S), R \subseteq S, R # S
  PROVE  /\ Cardinality(R) \in Nat /\ Cardinality(S) \in Nat
         /\ Cardinality(R) + 1 <= Cardinality(S)
<1> PICK x \in S : x \notin R
  OBVIOUS
<1> PICK U : U = S \ {x}
  OBVIOUS
<1>1. IsFiniteSet(U) /\ R \subseteq U
  BY FS_Subset
<1>2. Cardinality(R) <= Cardinality(U) /\ IsFiniteSet(R)
  BY <1>1, FS_Subset
<1>3. Cardinality(U) = Cardinality(S) - 1
  BY FS_RemoveElement
<1>4. Cardinality(R) \in Nat /\ Cardinality(S) \in Nat /\ Cardinality(U) \in Nat
  BY <1>1, <1>2, FS_CardinalityType
<1> QED
  BY <1>2, <1>3, <1>4

(* A step towards what is below: what the members contain. *)
Further(c, o, R) == Contained(c, o) \cup UNION {Contained(c, x) : x \in R}

LEMMA BelowRuns ==
  ASSUME NEW c, NEW q, NEW O, IsBom(c, q, O), NEW o
  PROVE  \E f \in [Nat -> SUBSET Stock!Owners(c)] :
           /\ f[0] = Contained(c, o)
           /\ \A k \in Nat : f[k + 1] = Further(c, o, f[k])
           /\ f[Cardinality(Stock!Owners(c))] = Below(c, o)
<1>w. PICK W : W = Stock!Owners(c)
  OBVIOUS
<1>d. PICK D : D = SUBSET W
  OBVIOUS
<1>n. PICK n : n = Cardinality(W)
  OBVIOUS
<1>1. IsFiniteSet(W) /\ n \in Nat
  <2>1. IsFiniteSet(O) /\ W \subseteq O
    BY <1>w, BomFinite DEF IsBom
  <2>2. IsFiniteSet(W)
    BY <2>1, FS_Subset
  <2> QED
    BY <1>n, <2>2, FS_CardinalityType
<1>2. \A x : Contained(c, x) \in D
  BY <1>w, <1>d, ContainedIs
<1>3. ASSUME NEW R PROVE Further(c, o, R) \in D
  BY <1>2, <1>d DEF Further
<1>s. PICK step : step = [R \in D |-> Further(c, o, R)]
  OBVIOUS
<1>4. step \in [D -> D]
  BY <1>3, <1>s
<1>a. PICK a : a = Contained(c, o)
  OBVIOUS
<1>5. a \in D
  BY <1>a, <1>2
<1> PICK f : f \in Runs(D, a, step)
  BY <1>4, <1>5, Recursion
<1>6. /\ f \in [Nat -> D] /\ f[0] = a
      /\ \A k \in Nat : f[k + 1] = Further(c, o, f[k])
  BY <1>s DEF Runs
<1> DEFINE Equation(g) ==
             g = [k \in 0..n |-> Contained(c, o) \cup
                    (IF k = 0 THEN {} ELSE UNION {Contained(c, x) : x \in g[k - 1]})]
<1>g. PICK g : g = [k \in 0 .. n |-> f[k]]
  OBVIOUS
<1>7. Equation(g)
  <2>1. ASSUME NEW k \in 0 .. n
        PROVE  g[k] = Contained(c, o) \cup
                    (IF k = 0 THEN {} ELSE UNION {Contained(c, x) : x \in g[k - 1]})
    <3>1. CASE k = 0
      BY <1>1, <1>6, <1>a, <1>g, <3>1
    <3>2. CASE k # 0
      <4>1. k - 1 \in Nat /\ k - 1 \in 0 .. n /\ (k - 1) + 1 = k
        BY <3>2, <1>1
      <4>2. g[k - 1] = f[k - 1] /\ g[k] = f[k]
        BY <1>g, <4>1
      <4>3. f[k] = Further(c, o, f[k - 1])
        BY <1>6, <4>1
      <4>4. g[k] = Further(c, o, g[k - 1])
        BY <4>2, <4>3
      <4> QED
        BY <3>2, <4>4 DEF Further
    <3> QED
      BY <3>1, <3>2
  <2> QED
    BY <2>1, <1>g
<1> HIDE DEF Equation
<1>r. PICK reach : reach = CHOOSE h : Equation(h)
  OBVIOUS
<1>8. Equation(reach)
  BY <1>7, <1>r
<1>9. Below(c, o) = reach[n]
  BY <1>r, <1>n, <1>w DEF Below, Equation
<1>10. /\ 0 \in 0 .. n => reach[0] = Contained(c, o)
       /\ \A k \in 0 .. n : k # 0 => reach[k] = Further(c, o, reach[k - 1])
  BY <1>8 DEF Equation, Further
<1> DEFINE T == {k \in Nat : k <= n => reach[k] = f[k]}
<1>11. 0 \in T
  BY <1>10, <1>6, <1>a, <1>1
<1>12. ASSUME NEW k \in Nat, k \in T PROVE k + 1 \in T
  <2> SUFFICES ASSUME k + 1 <= n PROVE reach[k + 1] = f[k + 1]
    OBVIOUS
  <2>1. k + 1 \in 0 .. n /\ k + 1 # 0 /\ (k + 1) - 1 = k /\ k <= n
    BY <1>1
  <2>2. reach[k] = f[k]
    BY <1>12, <2>1
  <2>3. reach[k + 1] = Further(c, o, reach[k])
    BY <1>10, <2>1
  <2> QED
    BY <1>6, <2>2, <2>3
<1> HIDE DEF T
<1>13. n \in T
  BY <1>1, <1>11, <1>12, Induct
<1>14. f[n] = Below(c, o)
  BY <1>1, <1>9, <1>13 DEF T
<1> QED
  BY <1>6, <1>14, <1>a, <1>d, <1>n, <1>w

BelowIsLeast(c, o) ==
  /\ Below(c, o) \subseteq Stock!Owners(c)
  /\ IsClosed(c, o, Below(c, o))
  /\ \A S : IsClosed(c, o, S) => Below(c, o) \subseteq S

LEMMA BelowLeast ==
  ASSUME NEW c, NEW q, NEW O, IsBom(c, q, O), NEW o
  PROVE  BelowIsLeast(c, o)
<1>w. PICK W : W = Stock!Owners(c)
  OBVIOUS
<1>n. PICK n : n = Cardinality(W)
  OBVIOUS
<1> PICK f \in [Nat -> SUBSET W] :
           /\ f[0] = Contained(c, o)
           /\ \A k \in Nat : f[k + 1] = Further(c, o, f[k])
           /\ f[n] = Below(c, o)
  BY <1>w, <1>n, BelowRuns
<1>1. IsFiniteSet(W) /\ n \in Nat
  <2>1. IsFiniteSet(O) /\ W \subseteq O
    BY <1>w, BomFinite DEF IsBom
  <2>2. IsFiniteSet(W)
    BY <2>1, FS_Subset
  <2> QED
    BY <1>n, <2>2, FS_CardinalityType
<1>2. \A R, U : R \subseteq U => Further(c, o, R) \subseteq Further(c, o, U)
  BY DEF Further
<1>3. \A k \in Nat : f[k] \subseteq f[k + 1]
  <2> DEFINE T == {k \in Nat : f[k] \subseteq f[k + 1]}
  <2>1. 0 \in T
    <3>1. f[0 + 1] = Further(c, o, f[0])
      OBVIOUS
    <3>2. f[0] \subseteq f[0 + 1]
      BY <3>1 DEF Further
    <3> QED
      BY <3>2
  <2>2. ASSUME NEW k \in Nat, k \in T PROVE k + 1 \in T
    <3>1. f[k + 1] = Further(c, o, f[k]) /\ f[k + 1 + 1] = Further(c, o, f[k + 1])
      OBVIOUS
    <3>2. f[k + 1] \subseteq f[k + 1 + 1]
      BY <1>2, <2>2, <3>1
    <3> QED
      BY <3>2
  <2> HIDE DEF T
  <2>3. \A k \in Nat : k \in T
    BY <2>1, <2>2, Induct
  <2> QED
    BY <2>3 DEF T
<1>4. \A k \in Nat : IsFiniteSet(f[k]) /\ Cardinality(f[k]) \in Nat /\ Cardinality(f[k]) <= n
  BY <1>1, <1>n, FS_Subset, FS_CardinalityType
<1>5. f[n + 1] = f[n]
  <2> DEFINE T == {k \in Nat : f[k + 1] = f[k] \/ k + 1 <= Cardinality(f[k + 1])}
  <2>1. ASSUME NEW k \in Nat, f[k + 1] # f[k]
        PROVE  Cardinality(f[k]) + 1 <= Cardinality(f[k + 1])
    BY <1>3, <1>4, <2>1, LargerCard
  <2>2. 0 \in T
    <3>1. 0 \in Nat /\ Cardinality(f[0]) \in Nat /\ Cardinality(f[0 + 1]) \in Nat
      BY <1>4
    <3> QED
      BY <2>1, <3>1
  <2>3. ASSUME NEW k \in Nat, k \in T PROVE k + 1 \in T
    <3> SUFFICES ASSUME f[k + 1 + 1] # f[k + 1] PROVE k + 1 + 1 <= Cardinality(f[k + 1 + 1])
      OBVIOUS
    <3>1. f[k + 1] = Further(c, o, f[k]) /\ f[k + 1 + 1] = Further(c, o, f[k + 1])
      OBVIOUS
    <3>2. f[k + 1] # f[k]
      BY <3>1
    <3>3. k + 1 <= Cardinality(f[k + 1])
      BY <2>3, <3>2
    <3>4. Cardinality(f[k + 1]) + 1 <= Cardinality(f[k + 1 + 1])
      BY <2>1
    <3>5. Cardinality(f[k + 1]) \in Nat /\ Cardinality(f[k + 1 + 1]) \in Nat
      BY <1>4
    <3> QED
      BY <3>3, <3>4, <3>5
  <2> HIDE DEF T
  <2>4. n \in T
    BY <1>1, <2>2, <2>3, Induct
  <2>5. Cardinality(f[n + 1]) \in Nat /\ Cardinality(f[n + 1]) <= n
    BY <1>1, <1>4
  <2>6. f[n + 1] = f[n] \/ n + 1 <= Cardinality(f[n + 1])
    BY <2>4 DEF T
  <2> QED
    BY <1>1, <2>5, <2>6
<1>6. Further(c, o, Below(c, o)) = Below(c, o)
  BY <1>1, <1>5
<1>7. IsClosed(c, o, Below(c, o))
  BY <1>6 DEF Further, IsClosed
<1>8. ASSUME NEW S, IsClosed(c, o, S) PROVE Below(c, o) \subseteq S
  <2> DEFINE T == {k \in Nat : f[k] \subseteq S}
  <2>0. \A R : R \subseteq S => Further(c, o, R) \subseteq S
    BY <1>8 DEF Further, IsClosed
  <2>1. 0 \in T
    BY <1>8 DEF IsClosed
  <2>2. ASSUME NEW k \in Nat, k \in T PROVE k + 1 \in T
    <3>1. f[k + 1] \subseteq S
      BY <2>0, <2>2
    <3> QED
      BY <3>1
  <2> HIDE DEF T
  <2>3. n \in T
    BY <1>1, <2>1, <2>2, Induct
  <2> QED
    BY <2>3 DEF T
<1>9. Below(c, o) \subseteq W
  BY <1>1
<1> QED
  BY <1>7, <1>8, <1>9, <1>w DEF BelowIsLeast

-----------------------------------------------------------------------------
(* The owners of a question, those that lead to themselves, and those that *)
(* have no inventory.                                                      *)
Under(c, r) == Below(c, r) \cup {r}

Cyclic(c, r) == \E o \in Under(c, r) : o \in Below(c, o)

Without(c, r) == {o \in Under(c, r) : IdOf(c, o) = None}

RootCall(q) == Stock!Call(q.owner, 1, <<>>)

LEMMA RootIs ==
  ASSUME NEW c, NEW q, NEW O, IsBom(c, q, O)
  PROVE  /\ RootCall(q) \in BomCalls(O) /\ ~Inside(RootCall(q))
         /\ RootCall(q).owner = q.owner /\ RootCall(q).path = <<>> /\ RootCall(q).copies = 1
<1>1. q.owner \in O /\ <<>> \in Seq(O) /\ 1 \in Nat
  BY DEF IsBom
<1> PICK r : r = RootCall(q)
  OBVIOUS
<1>2. r = [owner |-> q.owner, copies |-> 1, path |-> <<>>]
  BY DEF RootCall, Stock!Call
<1>3. r \in BomCalls(O)
  BY <1>1, <1>2 DEF BomCalls
<1>4. r.owner = q.owner /\ r.path = <<>> /\ r.copies = 1
  BY <1>2
<1>5. ~Inside(r)
  BY <1>4 DEF Inside, Stock!Contains
<1> QED
  BY <1>3, <1>4, <1>5

(* What is below an owner, and what is below that. *)
LEMMA BelowGoesOn ==
  ASSUME NEW c, NEW q, NEW O, IsBom(c, q, O), NEW o, NEW x \in Below(c, o)
  PROVE  Contained(c, x) \subseteq Below(c, o)
<1>1. IsClosed(c, o, Below(c, o))
  BY BelowLeast DEF BelowIsLeast
<1> QED
  BY <1>1 DEF IsClosed

LEMMA BelowBegins ==
  ASSUME NEW c, NEW q, NEW O, IsBom(c, q, O), NEW o
  PROVE  Contained(c, o) \subseteq Below(c, o)
<1>1. IsClosed(c, o, Below(c, o))
  BY BelowLeast DEF BelowIsLeast
<1> QED
  BY <1>1 DEF IsClosed

(* The call for what an owner contains. *)
LEMMA ChildOwner ==
  ASSUME NEW c, NEW q, NEW O, IsBom(c, q, O), NEW call \in BomCalls(O), Opens(c, call)
  PROVE  /\ \A k \in 1 .. Len(Contents(c, call.owner)) :
              /\ Child(c, call, k).owner \in Contained(c, call.owner)
              /\ Child(c, call, k).path = Here(call)
         /\ \A x \in Contained(c, call.owner) :
              \E k \in 1 .. Len(Contents(c, call.owner)) : Child(c, call, k).owner = x
<1>s. PICK s : s = Contents(c, call.owner)
  OBVIOUS
<1>1. Contained(c, call.owner) = {s[k].owner : k \in 1 .. Len(s)}
  BY <1>s, ContainedIs DEF Opens
<1>2. ASSUME NEW k \in 1 .. Len(s)
      PROVE  Child(c, call, k).owner = s[k].owner /\ Child(c, call, k).path = Here(call)
  BY <1>s DEF Child, Stock!Call
<1> QED
  BY <1>1, <1>2, <1>s

InPath(o, path) == \E i \in 1 .. Len(path) : path[i] = o

LEMMA HereIs ==
  ASSUME NEW O, NEW call \in BomCalls(O)
  PROVE  /\ \A i \in 1 .. Len(Here(call)) : Here(call)[i] = call.owner \/ InPath(Here(call)[i], call.path)
         /\ InPath(call.owner, Here(call))
         /\ \A o : InPath(o, call.path) => InPath(o, Here(call))
         /\ Here(call) # <<>> /\ Last(Here(call)) = call.owner
<1>p. PICK path : path = call.path
  OBVIOUS
<1>h. PICK here : here = Here(call)
  OBVIOUS
<1>1. path \in Seq(O) /\ call.owner \in O
  BY <1>p, HereTyped
<1> PICK n \in Nat : n = Len(path)
  BY <1>1, LenProperties
<1>2. here \in Seq(O) /\ Len(here) = n + 1 /\ here[n + 1] = call.owner /\ \A i \in 1 .. n : here[i] = path[i]
  BY <1>1, <1>h, <1>p, AppendProperties DEF Here
<1>3. ASSUME NEW i \in 1 .. n + 1 PROVE here[i] = call.owner \/ InPath(here[i], path)
  <2>1. CASE i = n + 1
    BY <1>2, <2>1
  <2>2. CASE i # n + 1
    <3>1. i \in 1 .. n
      BY <2>2
    <3>2. here[i] = path[i]
      BY <1>2, <3>1
    <3> QED
      BY <3>1, <3>2 DEF InPath
  <2> QED
    BY <2>1, <2>2
<1>4. InPath(call.owner, here)
  <2>1. n + 1 \in 1 .. Len(here)
    BY <1>2
  <2> QED
    BY <1>2, <2>1 DEF InPath
<1>5. ASSUME NEW o, InPath(o, path) PROVE InPath(o, here)
  <2> PICK i \in 1 .. n : path[i] = o
    BY <1>5 DEF InPath
  <2>1. i \in 1 .. Len(here) /\ here[i] = o
    BY <1>2
  <2> QED
    BY <2>1 DEF InPath
<1>6. here # <<>> /\ Last(here) = call.owner
  BY <1>2 DEF Last
<1> QED
  BY <1>2, <1>3, <1>4, <1>5, <1>6, <1>h, <1>p

LEMMA InsideIs == \A call : Inside(call) <=> InPath(call.owner, call.path)
BY DEF Inside, InPath, Stock!Contains

(* What an owner contains is asked for by one of its calls. *)
LEMMA ChildFor ==
  ASSUME NEW c, NEW q, NEW O, IsBom(c, q, O), NEW call, Opens(c, call),
         NEW x \in Contained(c, call.owner)
  PROVE  \E k \in 1 .. Len(Contents(c, call.owner)) : Child(c, call, k).owner = x
<1>s. PICK s : s = Contents(c, call.owner)
  OBVIOUS
<1>1. Contained(c, call.owner) = {s[k].owner : k \in 1 .. Len(s)}
  BY <1>s, ContainedIs DEF Opens
<1>2. PICK k \in 1 .. Len(s) : x = s[k].owner
  BY <1>1
<1>3. Child(c, call, k).owner = x
  BY <1>s, <1>2 DEF Child, Stock!Call
<1> QED
  BY <1>s, <1>3

(* The calls that ended well and skipped nothing but what the answer did. *)
Good(O, e, answered) ==
  {call \in BomCalls(O) :
     e[call].error = None /\ \A p \in ToSet(e[call].skipped) : p \in ToSet(answered.skipped)}

LEMMA GoodGoesOn ==
  ASSUME NEW c, NEW q, NEW O, IsBom(c, q, O), NEW e, Expands(c, q, O, e), NEW answered,
         NEW call \in Good(O, e, answered)
  PROVE  /\ ~Inside(call)
         /\ IdOf(c, call.owner) = None =>
              /\ ~q.strict /\ call.path # <<>>
              /\ Here(call) \in ToSet(answered.skipped)
         /\ \A x \in Contained(c, call.owner) :
              \E next \in Good(O, e, answered) : next.owner = x /\ next.path = Here(call)
<1>0. /\ call \in BomCalls(O) /\ e[call].error = None
      /\ \A p \in ToSet(e[call].skipped) : p \in ToSet(answered.skipped)
      /\ None \notin {"cycle", "missing"}
  BY DEF Good, IsBom
<1>1. ExpandedTo(c, q, e, call, O, e[call])
  BY <1>0 DEF Expands
<1>2. ~Inside(call)
  BY <1>0, <1>1 DEF ExpandedTo, Stock!InventoryCycle, Stock!Failed, Stock!Nothing
<1>3. ASSUME IdOf(c, call.owner) = None
      PROVE  ~q.strict /\ call.path # <<>> /\ Here(call) \in ToSet(answered.skipped)
  <2>1. e[call] = IF q.strict \/ call.path = <<>> THEN Stock!InventoryNotFound ELSE SkippedAt(call)
    BY <1>1, <1>2, <1>3 DEF ExpandedTo
  <2>2. Stock!InventoryNotFound.error = "missing"
    BY DEF Stock!InventoryNotFound, Stock!Failed, Stock!Nothing
  <2>3. ~(q.strict \/ call.path = <<>>)
    BY <1>0, <2>1, <2>2
  <2>4. e[call].skipped = <<Here(call)>>
    BY <2>1, <2>3 DEF SkippedAt, Stock!Nothing
  <2>5. Here(call) \in ToSet(<<Here(call)>>)
    <3>h. PICK here : here = Here(call)
      OBVIOUS
    <3>1. here \in ToSet(<<here>>)
      BY DEF ToSet
    <3> QED
      BY <3>1, <3>h
  <2> QED
    BY <1>0, <2>3, <2>4, <2>5
<1>4. ASSUME NEW x \in Contained(c, call.owner)
      PROVE  \E next \in Good(O, e, answered) : next.owner = x /\ next.path = Here(call)
  <2>1. Opens(c, call)
    BY <1>2, <1>4, ContainedIs DEF Opens
  <2> PICK k \in 1 .. Len(Contents(c, call.owner)) : Child(c, call, k).owner = x
    BY <2>1, <1>4, ChildFor
  <2>n. PICK next : next = Child(c, call, k)
    OBVIOUS
  <2>2. next.owner = x /\ next.path = Here(call)
    BY <1>0, <2>1, <2>n, ChildOwner
  <2>3. next \in BomCalls(O)
    BY <1>0, <2>1, <2>n, ChildIs
  <2>4. e[next].error = None
    BY <1>0, <2>1, <2>n, SkippedFrom
  <2>5. \A p \in ToSet(e[next].skipped) : p \in ToSet(e[call].skipped)
    BY <1>0, <2>1, <2>n, SkippedFrom
  <2>6. next \in Good(O, e, answered)
    BY <1>0, <2>3, <2>4, <2>5 DEF Good
  <2> QED
    BY <2>2, <2>6
<1> QED
  BY <1>2, <1>3, <1>4

(* If the answer is no error, every owner was expanded by a good call. *)
LEMMA AllGood ==
  ASSUME NEW c, NEW q, NEW O, IsBom(c, q, O), NEW e, Expands(c, q, O, e),
         e[RootCall(q)].error = None, NEW o \in Under(c, q.owner)
  PROVE  \E call \in Good(O, e, e[RootCall(q)]) : call.owner = o
<1>r. PICK answered : answered = e[RootCall(q)]
  OBVIOUS
<1>g. PICK G : G = Good(O, e, answered)
  OBVIOUS
<1>1. RootCall(q) \in G /\ RootCall(q).owner = q.owner
  BY <1>g, <1>r, RootIs DEF Good
<1>2. ASSUME NEW call \in G, NEW x \in Contained(c, call.owner) PROVE \E next \in G : next.owner = x
  BY <1>2, <1>g, GoodGoesOn
<1>s. PICK R : R = {call.owner : call \in G}
  OBVIOUS
<1>3. IsClosed(c, q.owner, R)
  <2>1. ASSUME NEW call \in G PROVE Contained(c, call.owner) \subseteq R
    BY <1>2, <2>1, <1>s
  <2>2. \A x \in R : Contained(c, x) \subseteq R
    BY <2>1, <1>s
  <2>3. Contained(c, q.owner) \subseteq R
    BY <1>1, <2>1
  <2> QED
    BY <2>2, <2>3 DEF IsClosed
<1>4. Below(c, q.owner) \subseteq R
  BY <1>3, BelowLeast DEF BelowIsLeast
<1>5. q.owner \in R
  BY <1>1, <1>s
<1>6. o \in R
  BY <1>4, <1>5 DEF Under
<1> QED
  BY <1>6, <1>s, <1>g, <1>r

LEMMA NoneCyclic ==
  ASSUME NEW c, NEW q, NEW O, IsBom(c, q, O), NEW e, Expands(c, q, O, e),
         e[RootCall(q)].error = None
  PROVE  ~Cyclic(c, q.owner)
<1> SUFFICES ASSUME NEW o \in Under(c, q.owner), o \in Below(c, o) PROVE FALSE
  BY DEF Cyclic
<1>r. PICK answered : answered = e[RootCall(q)]
  OBVIOUS
<1>g. PICK G : G = Good(O, e, answered)
  OBVIOUS
<1> PICK first \in G : first.owner = o
  BY <1>g, <1>r, AllGood
<1>0. \A call \in G : call \in BomCalls(O)
  BY <1>g DEF Good
<1>1. ASSUME NEW call \in G, NEW x \in Contained(c, call.owner)
      PROVE  \E next \in G : next.owner = x /\ next.path = Here(call)
  <2>1. \E next \in Good(O, e, answered) : next.owner = x /\ next.path = Here(call)
    BY <1>1, <1>g, GoodGoesOn
  <2> QED
    BY <2>1, <1>g
<1>s. PICK S : S = {call.owner : call \in {d \in G : InPath(o, d.path)}}
  OBVIOUS
<1>2. ASSUME NEW call \in G, InPath(o, call.path) \/ call.owner = o
      PROVE  Contained(c, call.owner) \subseteq S
  <2> SUFFICES ASSUME NEW x \in Contained(c, call.owner) PROVE x \in S
    OBVIOUS
  <2> PICK next \in G : next.owner = x /\ next.path = Here(call)
    BY <1>1
  <2>1. InPath(o, next.path)
    BY <1>0, <1>2, HereIs
  <2> QED
    BY <2>1, <1>s
<1>3. IsClosed(c, o, S)
  <2>1. Contained(c, o) \subseteq S
    BY <1>2
  <2>2. \A x \in S : Contained(c, x) \subseteq S
    BY <1>2, <1>s
  <2> QED
    BY <2>1, <2>2 DEF IsClosed
<1>4. o \in S
  BY <1>3, BelowLeast DEF BelowIsLeast
<1> PICK call \in G : InPath(o, call.path) /\ call.owner = o
  BY <1>4, <1>s
<1>5. Inside(call)
  BY InsideIs
<1>6. ~Inside(call)
  BY <1>g, GoodGoesOn
<1> QED
  BY <1>5, <1>6

(* The owners without an inventory are then the skipped ones. *)
LEMMA WithoutSkipped ==
  ASSUME NEW c, NEW q, NEW O, IsBom(c, q, O), NEW e, Expands(c, q, O, e),
         e[RootCall(q)].error = None, NEW o \in Without(c, q.owner)
  PROVE  /\ ~q.strict /\ o # q.owner
         /\ \E p \in ToSet(e[RootCall(q)].skipped) : Last(p) = o
<1>r. PICK answered : answered = e[RootCall(q)]
  OBVIOUS
<1>1. o \in Under(c, q.owner) /\ IdOf(c, o) = None
  BY DEF Without
<1> PICK call \in Good(O, e, answered) : call.owner = o
  BY <1>1, <1>r, AllGood
<1>2. ~q.strict /\ Here(call) \in ToSet(answered.skipped)
  BY <1>1, GoodGoesOn
<1>3. Last(Here(call)) = o
  BY HereIs DEF Good
<1>4. RootCall(q) \in Good(O, e, answered) /\ RootCall(q).owner = q.owner /\ RootCall(q).path = <<>>
  BY <1>r, RootIs DEF Good
<1>5. o # q.owner
  BY <1>1, <1>4, GoodGoesOn
<1> QED
  BY <1>2, <1>3, <1>5, <1>r

LEMMA UnderGoesOn ==
  ASSUME NEW c, NEW q, NEW O, IsBom(c, q, O), NEW r, NEW o \in Under(c, r),
         NEW x \in Contained(c, o)
  PROVE  x \in Below(c, r)
BY BelowBegins, BelowGoesOn DEF Under

LEMMA SkippedWithout ==
  ASSUME NEW c, NEW q, NEW O, IsBom(c, q, O), NEW e, Expands(c, q, O, e),
         e[RootCall(q)].error = None, NEW p \in ToSet(e[RootCall(q)].skipped)
  PROVE  Last(p) \in Without(c, q.owner)
<1>t. PICK T : T = {call \in BomCalls(O) :
                      call.owner \in Under(c, q.owner) /\ e[call].error = None =>
                        \A s \in ToSet(e[call].skipped) : Last(s) \in Without(c, q.owner)}
  OBVIOUS
<1>1. ASSUME NEW call \in BomCalls(O),
             Opens(c, call) => \A k \in 1 .. Len(Contents(c, call.owner)) : Child(c, call, k) \in T
      PROVE  call \in T
  <2> SUFFICES ASSUME call.owner \in Under(c, q.owner), e[call].error = None,
                      NEW s \in ToSet(e[call].skipped)
               PROVE  Last(s) \in Without(c, q.owner)
    BY <1>t
  <2>0. ExpandedTo(c, q, e, call, O, e[call]) /\ None \notin {"cycle", "missing"}
    BY DEF Expands, IsBom
  <2>1. ~Inside(call)
    BY <2>0 DEF ExpandedTo, Stock!InventoryCycle, Stock!Failed, Stock!Nothing
  <2>2. CASE IdOf(c, call.owner) = None
    <3>1. e[call] \in {Stock!InventoryNotFound, SkippedAt(call)}
      BY <2>0, <2>1, <2>2 DEF ExpandedTo
    <3>2. Stock!InventoryNotFound.error = "missing"
      BY DEF Stock!InventoryNotFound, Stock!Failed, Stock!Nothing
    <3>3. e[call] = SkippedAt(call)
      BY <2>0, <3>1, <3>2
    <3>h. PICK here : here = Here(call)
      OBVIOUS
    <3>4. e[call].skipped = <<here>>
      BY <3>3, <3>h DEF SkippedAt, Stock!Nothing
    <3>5. s \in ToSet(<<here>>)
      BY <3>4
    <3>6. s = here
      BY <3>5 DEF ToSet
    <3>7. Last(s) = call.owner
      BY <3>6, <3>h, HereIs
    <3> QED
      BY <2>2, <3>7 DEF Without
  <2>3. CASE IdOf(c, call.owner) # None
    <3>1. Opens(c, call)
      BY <2>1, <2>3 DEF Opens
    <3> PICK k \in 1 .. Len(Contents(c, call.owner)) : s \in ToSet(e[Child(c, call, k)].skipped)
      BY <3>1, SkippedFrom
    <3>n. PICK next : next = Child(c, call, k)
      OBVIOUS
    <3>2. next \in T /\ e[next].error = None
      BY <1>1, <3>1, <3>n, SkippedFrom
    <3>3. next.owner \in Contained(c, call.owner)
      BY <3>1, <3>n, ChildOwner
    <3>4. next.owner \in Under(c, q.owner)
      BY <3>3, UnderGoesOn DEF Under
    <3> QED
      BY <3>2, <3>4, <3>n, <1>t
  <2> QED
    BY <2>2, <2>3
<1>2. \A call \in BomCalls(O) : call \in T
  BY <1>1, CallsInduct
<1>3. RootCall(q) \in T /\ RootCall(q).owner \in Under(c, q.owner)
  BY <1>2, RootIs DEF Under
<1> QED
  BY <1>3, <1>t

(* The cause of an error. *)
Caused(c, q, error) ==
  IF error = "cycle" THEN Cyclic(c, q.owner)
  ELSE \/ q.owner \in Without(c, q.owner)
       \/ q.strict /\ Without(c, q.owner) # {}

(* Calls whose owners lead from each to the next. *)
Nested(c, q, call) ==
  /\ call.owner \in Under(c, q.owner)
  /\ call.path = <<>> => call.owner = q.owner
  /\ \A o : InPath(o, call.path) => call.owner \in Below(c, o)

LEMMA ErrorsCaused ==
  ASSUME NEW c, NEW q, NEW O, IsBom(c, q, O), NEW e, Expands(c, q, O, e),
         e[RootCall(q)].error # None
  PROVE  Caused(c, q, e[RootCall(q)].error)
<1>t. PICK T : T = {call \in BomCalls(O) :
                      Nested(c, q, call) /\ e[call].error # None => Caused(c, q, e[call].error)}
  OBVIOUS
<1>1. ASSUME NEW call \in BomCalls(O),
             Opens(c, call) => \A k \in 1 .. Len(Contents(c, call.owner)) : Child(c, call, k) \in T
      PROVE  call \in T
  <2> SUFFICES ASSUME Nested(c, q, call), e[call].error # None
               PROVE  Caused(c, q, e[call].error)
    BY <1>t
  <2>0. ExpandedTo(c, q, e, call, O, e[call])
    BY DEF Expands
  <2>1. CASE Inside(call)
    <3>1. e[call].error = "cycle"
      BY <2>0, <2>1 DEF ExpandedTo, Stock!InventoryCycle, Stock!Failed, Stock!Nothing
    <3>2. call.owner \in Below(c, call.owner)
      BY <2>1, InsideIs DEF Nested
    <3>3. Cyclic(c, q.owner)
      BY <3>2 DEF Nested, Cyclic
    <3> QED
      BY <3>1, <3>3 DEF Caused
  <2>2. CASE ~Inside(call) /\ IdOf(c, call.owner) = None
    <3>1. e[call] = IF q.strict \/ call.path = <<>> THEN Stock!InventoryNotFound ELSE SkippedAt(call)
      BY <2>0, <2>2 DEF ExpandedTo
    <3>2. SkippedAt(call).error = None /\ Stock!InventoryNotFound.error = "missing"
      BY DEF SkippedAt, Stock!InventoryNotFound, Stock!Failed, Stock!Nothing
    <3>3. (q.strict \/ call.path = <<>>) /\ e[call].error = "missing"
      BY <3>1, <3>2
    <3>4. call.owner \in Without(c, q.owner)
      BY <2>2 DEF Nested, Without
    <3>5. "missing" # "cycle"
      OBVIOUS
    <3>6. q.owner \in Without(c, q.owner) \/ (q.strict /\ Without(c, q.owner) # {})
      BY <3>3, <3>4 DEF Nested
    <3> QED
      BY <3>3, <3>5, <3>6 DEF Caused
  <2>3. CASE Opens(c, call)
    <3> PICK run, m : Running(c, q, O, e, call, run, m)
      BY <2>3, RunningIs
    <3> PICK k \in 1 .. m : e[Child(c, call, k)].error = e[call].error
      BY <2>3, RunsFail
    <3>0. k \in 1 .. Len(Contents(c, call.owner))
      BY DEF Running
    <3>n. PICK next : next = Child(c, call, k)
      OBVIOUS
    <3>1. /\ next \in T /\ e[next].error = e[call].error
          /\ next.owner \in Contained(c, call.owner) /\ next.path = Here(call)
      BY <1>1, <2>3, <3>0, <3>n, ChildOwner
    <3>2. next.owner \in Under(c, q.owner)
      BY <3>1, UnderGoesOn DEF Under, Nested
    <3>3. next.path # <<>>
      BY <3>1, HereIs
    <3>4. ASSUME NEW o, InPath(o, next.path) PROVE next.owner \in Below(c, o)
      <4> PICK i \in 1 .. Len(Here(call)) : Here(call)[i] = o
        BY <3>1, <3>4 DEF InPath
      <4>1. o = call.owner \/ InPath(o, call.path)
        BY HereIs
      <4>2. CASE o = call.owner
        BY <3>1, <4>2, BelowBegins
      <4>3. CASE InPath(o, call.path)
        <5>1. call.owner \in Below(c, o)
          BY <4>3 DEF Nested
        <5> QED
          BY <3>1, <5>1, BelowGoesOn
      <4> QED
        BY <4>1, <4>2, <4>3
    <3>5. Nested(c, q, next)
      BY <3>2, <3>3, <3>4 DEF Nested
    <3> QED
      BY <3>1, <3>5, <1>t
  <2> QED
    BY <2>1, <2>2, <2>3 DEF Opens
<1>2. \A call \in BomCalls(O) : call \in T
  BY <1>1, CallsInduct
<1>r. PICK root : root = RootCall(q)
  OBVIOUS
<1>3. root \in T /\ root.owner = q.owner /\ root.path = <<>>
  BY <1>2, <1>r, RootIs
<1>4. \A o : ~InPath(o, <<>>)
  BY DEF InPath
<1>5. Nested(c, q, root)
  BY <1>3, <1>4 DEF Nested, Under
<1> QED
  BY <1>3, <1>5, <1>r, <1>t

(* BomFailsOnCycles, for the expansion of a question. *)
FailsOnCycles(c, q, answered) ==
  /\ answered.error # None <=>
       \/ Cyclic(c, q.owner)
       \/ q.owner \in Without(c, q.owner)
       \/ q.strict /\ Without(c, q.owner) # {}
  /\ answered.error = "cycle" => Cyclic(c, q.owner)
  /\ answered.error = None =>
       {Last(path) : path \in ToSet(answered.skipped)} = Without(c, q.owner)

LEMMA ExpansionFails ==
  ASSUME NEW c, NEW q, NEW O, IsBom(c, q, O)
  PROVE  FailsOnCycles(c, q, Stock!BillOfMaterials(c, q))
<1>e. PICK e : e = Stock!Expansion(c, q)
  OBVIOUS
<1>1. Expands(c, q, O, e)
  BY <1>e, ExpansionIs
<1>a. PICK answered : answered = e[RootCall(q)]
  OBVIOUS
<1>w. PICK W : W = Without(c, q.owner)
  OBVIOUS
<1>2. Stock!BillOfMaterials(c, q) = answered
  BY <1>e, <1>a DEF Stock!BillOfMaterials, RootCall
<1>3. CASE answered.error # None
  <2>1. Caused(c, q, answered.error)
    BY <1>1, <1>3, <1>a, ErrorsCaused
  <2> QED
    BY <1>2, <1>3, <2>1 DEF Caused, FailsOnCycles
<1>4. CASE answered.error = None
  <2>1. ~Cyclic(c, q.owner)
    BY <1>1, <1>4, <1>a, NoneCyclic
  <2>2. \A o \in W : ~q.strict /\ o # q.owner /\ \E p \in ToSet(answered.skipped) : Last(p) = o
    BY <1>1, <1>4, <1>a, <1>w, WithoutSkipped
  <2>3. \A p \in ToSet(answered.skipped) : Last(p) \in W
    BY <1>1, <1>4, <1>a, <1>w, SkippedWithout
  <2>4. {Last(path) : path \in ToSet(answered.skipped)} = W
    BY <2>2, <2>3
  <2>5. q.owner \notin W /\ ~(q.strict /\ W # {})
    BY <2>2
  <2>6. answered.error # "cycle"
    BY <1>4 DEF IsBom
  <2> QED
    BY <1>2, <1>4, <2>1, <2>4, <2>5, <2>6, <1>w DEF FailsOnCycles
<1> QED
  BY <1>3, <1>4

LEMMA QuestionIs ==
  ASSUME NEW c, Stock!IsCatalog(c), NEW q, q.spares \in BOOLEAN, q.strict \in BOOLEAN
  PROVE  IsBom(c, q, Stock!Owners(c) \cup {q.owner})
BY StatusAssumption, BomAssumption DEF IsBom

(***************************************************************************)
(* The expansion ends, and fails exactly on an owner that leads to itself, *)
(* on a root without an inventory and, if it is strict, on any owner       *)
(* without one; the others are the skipped ones (inventory.py, expand and  *)
(* its ancestor check).                                                    *)
(***************************************************************************)
THEOREM BomFailsOnCyclesAlways == Spec => []BomFailsOnCycles
<1>1. Asked => BomFailsOnCycles
  <2> SUFFICES ASSUME Asked, Answered("bom") PROVE BomFailsOnCycles
    BY DEF BomFailsOnCycles
  <2>c. PICK c : c = question.catalog
    OBVIOUS
  <2>q. PICK q : q = question.query
    OBVIOUS
  <2>1. question \in BomQuestions /\ answer = BomAnswer
    BY DEF Asked, Given, Answered
  <2>2. Stock!IsCatalog(c) /\ q.spares \in BOOLEAN /\ q.strict \in BOOLEAN
    BY <2>1, <2>c, <2>q, BomAssumption
  <2>3. answer = Stock!BillOfMaterials(c, q)
    BY <2>1, <2>c, <2>q DEF BomAnswer
  <2>4. FailsOnCycles(c, q, answer)
    <3> PICK O : O = Stock!Owners(c) \cup {q.owner}
      OBVIOUS
    <3>1. IsBom(c, q, O)
      BY <2>2, QuestionIs
    <3>2. FailsOnCycles(c, q, Stock!BillOfMaterials(c, q))
      BY <3>1, ExpansionFails
    <3> QED
      BY <2>3, <3>2
  <2>r. PICK r : r = q.owner
    OBVIOUS
  <2>5. /\ answer.error # None <=>
             Cyclic(c, r) \/ r \in Without(c, r) \/ (q.strict /\ Without(c, r) # {})
        /\ answer.error = "cycle" => Cyclic(c, r)
        /\ answer.error = None => {Last(path) : path \in ToSet(answer.skipped)} = Without(c, r)
    BY <2>4, <2>r DEF FailsOnCycles
  <2>6. Without(c, r) = {o \in Below(c, r) \cup {r} : Stock!LoadInventory(c, o, None) = None}
    BY DEF Without, Under, IdOf
  <2>7. Cyclic(c, r) <=> \E o \in Below(c, r) \cup {r} : o \in Below(c, o)
    BY DEF Cyclic, Under
  <2>8. LET below  == Below(c, r) \cup {r}
            cyclic == \E o \in below : o \in Below(c, o)
            without == {o \in below : Stock!LoadInventory(c, o, None) = None}
        IN  /\ answer.error # None <=>
                 cyclic \/ r \in without \/ (q.strict /\ without # {})
            /\ answer.error = "cycle" => cyclic
            /\ answer.error = None => {Last(path) : path \in ToSet(answer.skipped)} = without
    BY <2>5, <2>6, <2>7
  <2> QED
    BY <2>8, <2>c, <2>q, <2>r DEF BomFailsOnCycles
<1> QED
  BY <1>1, AskedAlways, PTL

-----------------------------------------------------------------------------
(* How many of a part an expansion found. *)
LEMMA TotalOfBoth ==
  ASSUME NEW O, NEW x \in Seq(Found(O)), NEW y \in Seq(Found(O)), NEW part
  PROVE  PartTotal(x \o y, part) = PartTotal(x, part) + PartTotal(y, part)
<1>z. PICK z : z = x \o y
  OBVIOUS
<1> PICK a \in Nat : a = Len(x)
  BY LenProperties
<1> PICK b \in Nat : b = Len(y)
  BY LenProperties
<1>1. /\ z \in Seq(Found(O)) /\ Len(z) = a + b
      /\ \A i \in 1 .. a + b : z[i] = IF i <= a THEN x[i] ELSE y[i - a]
  BY <1>z, ConcatProperties
<1>2. IsLines(x) /\ IsLines(y) /\ IsLines(z)
  BY <1>1, FoundLines
<1>3. ASSUME NEW i \in 1 .. a PROVE z[i] = x[i]
  <2>1. i \in 1 .. a + b /\ i <= a
    OBVIOUS
  <2> QED
    BY <1>1, <2>1
<1>4. ASSUME NEW i \in 1 .. b PROVE z[a + i] = y[i]
  <2>1. a + i \in 1 .. a + b /\ ~(a + i <= a) /\ (a + i) - a = i
    OBVIOUS
  <2> QED
    BY <1>1, <2>1
<1>5. LinesAfter(x, y, z)
  BY <1>1, <1>2, <1>3, <1>4 DEF LinesAfter
<1> QED
  BY <1>5, <1>z, PartTotalAfter

(* What the calls that a call makes found. *)
InChildren(c, e, call, part) ==
  [k \in 1 .. Len(Contents(c, call.owner)) |-> PartTotal(e[Child(c, call, k)].found, part)]

LEMMA FoundTotal ==
  ASSUME NEW c, NEW q, NEW O, IsBom(c, q, O), NEW e, Expands(c, q, O, e),
         NEW call \in BomCalls(O), Opens(c, call), e[call].error = None, NEW part
  PROVE  PartTotal(e[call].found, part) =
           call.copies * Direct(LinesIn(c, call.owner), part, q.spares)
             + SumOver(InChildren(c, e, call, part), 1 .. Len(Contents(c, call.owner)))
<1> PICK run, m : Running(c, q, O, e, call, run, m)
  BY RunningIs
<1>0. /\ m \in Nat /\ m = Len(Contents(c, call.owner))
      /\ run \in [0 .. m -> Results(O)] /\ run[0] = Own(c, q, call)
      /\ \A k \in 1 .. m : e[Child(c, call, k)] \in Results(O)
      /\ e[call] = run[m]
  BY DEF Running
<1>1. Smooth(c, call, O, e, run, m)
  BY RunsSmoothly
<1>g. PICK g : g = InChildren(c, e, call, part)
  OBVIOUS
<1>o. PICK own : own = call.copies * Direct(LinesIn(c, call.owner), part, q.spares)
  OBVIOUS
<1>2. \A k \in 1 .. m : g[k] = PartTotal(e[Child(c, call, k)].found, part)
  BY <1>0, <1>g DEF InChildren
<1>3. ASSUME NEW r \in Results(O) PROVE r.found \in Seq(Found(O)) /\ PartTotal(r.found, part) \in Int
  <2>1. r.found \in Seq(Found(O))
    BY DEF Results
  <2> QED
    BY <2>1, FoundLines, PartTotalType
<1>4. \A k \in 1 .. m : g[k] \in Int
  BY <1>0, <1>2, <1>3
<1>5. ASSUME NEW n \in Nat, n <= m PROVE Numbers(g, 1 .. n)
  <2>1. IsFiniteSet(1 .. n)
    BY FS_Interval
  <2> QED
    BY <1>0, <1>4, <1>5, <2>1 DEF Numbers
<1>6. PartTotal(run[0].found, part) = own /\ own \in Int
  <2>1. PartTotal(run[0].found, part) = own
    BY <1>0, <1>o, OwnTyped DEF Opens
  <2>2. run[0] \in Results(O)
    BY <1>0
  <2> QED
    BY <2>1, <2>2, <1>3
<1> DEFINE T == {n \in Nat : n <= m => PartTotal(run[n].found, part) = own + SumOver(g, 1 .. n)}
<1>7. 0 \in T
  <2>1. 1 .. 0 = {}
    OBVIOUS
  <2>2. SumOver(g, 1 .. 0) = 0
    BY <2>1, SumEmpty
  <2> QED
    BY <1>6, <2>2
<1>8. ASSUME NEW n \in Nat, n \in T PROVE n + 1 \in T
  <2> SUFFICES ASSUME n + 1 <= m
               PROVE  PartTotal(run[n + 1].found, part) = own + SumOver(g, 1 .. (n + 1))
    OBVIOUS
  <2>j. PICK j : j = n + 1
    OBVIOUS
  <2>1. j \in 1 .. m /\ j - 1 = n /\ n \in 0 .. m /\ j \in Nat /\ j <= m /\ n <= m
    BY <1>0, <2>j
  <2>s. PICK s : s = 1 .. n
    OBVIOUS
  <2>t. PICK t : t = 1 .. j
    OBVIOUS
  <2>2. IsWith(t, s, j)
    <3>1. 1 .. n = (1 .. j) \ {j} /\ j \in 1 .. j
      BY <2>1, <2>j
    <3> QED
      BY <3>1, <2>s, <2>t DEF IsWith
  <2>3. Numbers(g, t) /\ Numbers(g, s)
    BY <1>5, <2>1, <2>s, <2>t
  <2>4. SumOver(g, t) = g[j] + SumOver(g, s)
    BY <2>2, <2>3, SumAdd
  <2>5. SumOver(g, s) \in Int /\ g[j] \in Int
    BY <2>1, <2>3, SumType, <1>4
  <2>x. PICK x : x = run[n].found
    OBVIOUS
  <2>y. PICK y : y = e[Child(c, call, j)].found
    OBVIOUS
  <2>6. run[j].found = x \o y
    BY <1>1, <2>1, <2>x, <2>y DEF Smooth
  <2>7. run[n] \in Results(O) /\ e[Child(c, call, j)] \in Results(O)
    BY <1>0, <2>1
  <2>8. x \in Seq(Found(O)) /\ y \in Seq(Found(O))
    BY <1>3, <2>7, <2>x, <2>y
  <2>9. PartTotal(run[j].found, part) = PartTotal(x, part) + PartTotal(y, part)
    BY <2>6, <2>8, TotalOfBoth
  <2>10. PartTotal(x, part) = own + SumOver(g, s)
    BY <1>8, <2>1, <2>x, <2>s
  <2>11. PartTotal(y, part) = g[j]
    BY <1>2, <2>1, <2>y
  <2>12. PartTotal(run[j].found, part) = own + SumOver(g, t)
    BY <1>6, <2>4, <2>5, <2>9, <2>10, <2>11
  <2> QED
    BY <2>12, <2>j, <2>t
<1> HIDE DEF T
<1>9. m \in T
  BY <1>0, <1>7, <1>8, Induct
<1>10. PartTotal(run[m].found, part) = own + SumOver(g, 1 .. m)
  BY <1>0, <1>9 DEF T
<1> QED
  BY <1>10, <1>0, <1>o, <1>g

(* How many of an owner are among the items of an inventory. *)
OwnerTotal(items, o) == Stock!Total(items, LAMBDA item : item.owner = o)

OwnerPlaces(items, o) == {i \in DOMAIN items : items[i].owner = o}

LEMMA OwnerTotalIs ==
  ASSUME NEW items, NEW o
  PROVE  OwnerTotal(items, o) = SumOver(Quantities(items), OwnerPlaces(items, o))
BY StockSums DEF OwnerTotal, Quantities, OwnerPlaces, Stock!Total

LEMMA ItemsAre ==
  ASSUME NEW items \in Seq(Item)
  PROVE  /\ Len(items) \in Nat /\ DOMAIN items = 1 .. Len(items)
         /\ \A i \in 1 .. Len(items) : items[i].quantity \in Nat
         /\ Numbers(Quantities(items), 1 .. Len(items))
<1>1. /\ Len(items) \in Nat /\ DOMAIN items = 1 .. Len(items)
      /\ \A i \in 1 .. Len(items) : items[i] \in Item
  BY LenProperties
<1>2. \A i \in 1 .. Len(items) : items[i].quantity \in Nat
  BY <1>1 DEF Item
<1>3. IsFiniteSet(1 .. Len(items))
  BY <1>1, FS_Interval
<1>4. Numbers(Quantities(items), 1 .. Len(items))
  BY <1>1, <1>2, <1>3 DEF Numbers, Quantities
<1> QED
  BY <1>1, <1>2, <1>4

LEMMA OwnerTotalType ==
  ASSUME NEW items \in Seq(Item), NEW o
  PROVE  OwnerTotal(items, o) \in Int
<1>1. OwnerPlaces(items, o) \in SUBSET (1 .. Len(items))
  BY ItemsAre DEF OwnerPlaces
<1>p. PICK P : P = OwnerPlaces(items, o)
  OBVIOUS
<1>s. PICK S : S = 1 .. Len(items)
  OBVIOUS
<1>2. P \in SUBSET S /\ Numbers(Quantities(items), S)
  BY <1>1, <1>p, <1>s, ItemsAre
<1>3. SumOver(Quantities(items), P) \in Int
  BY <1>2, SumPart
<1> QED
  BY <1>3, <1>p, OwnerTotalIs

LEMMA Products ==
  ASSUME NEW a \in Int, NEW b \in Int
  PROVE  a * b \in Int /\ a * b = b * a /\ 0 * a = 0 /\ a * 0 = 0 /\ 1 * a = a
OBVIOUS

LEMMA ProductsOfThree ==
  ASSUME NEW a \in Int, NEW b \in Int, NEW c \in Int
  PROVE  (a * b) * c = a * (b * c)
OBVIOUS

(* A sum over the places of items is one over their owners. *)
ByPlace(items, v) == [k \in 1 .. Len(items) |-> items[k].quantity * v[items[k].owner]]

ByOwner(items, v, O) == [o \in O |-> OwnerTotal(items, o) * v[o]]

LEMMA SumByOwner ==
  ASSUME NEW items \in Seq(Item), NEW O, IsFiniteSet(O), NEW v \in [O -> Int],
         \A k \in 1 .. Len(items) : items[k].owner \in O
  PROVE  /\ Numbers(ByPlace(items, v), 1 .. Len(items))
         /\ Numbers(ByOwner(items, v, O), O)
         /\ SumOver(ByPlace(items, v), 1 .. Len(items)) = SumOver(ByOwner(items, v, O), O)
<1>s. PICK S : S = 1 .. Len(items)
  OBVIOUS
<1>0. /\ IsFiniteSet(S) /\ S = DOMAIN items
      /\ \A k \in S : items[k].quantity \in Int /\ items[k].owner \in O
      /\ Numbers(Quantities(items), S)
  <2>1. Len(items) \in Nat /\ IsFiniteSet(1 .. Len(items))
    BY ItemsAre, FS_Interval
  <2> QED
    BY <1>s, <2>1, ItemsAre
<1>f. PICK f : f = ByPlace(items, v)
  OBVIOUS
<1>g. PICK g : g = ByOwner(items, v, O)
  OBVIOUS
<1>qt. PICK qty : qty = Quantities(items)
  OBVIOUS
<1>1. \A k \in S : qty[k] = items[k].quantity /\ qty[k] \in Int
  BY <1>0, <1>qt DEF Quantities
<1>2. \A k \in S : f[k] = qty[k] * v[items[k].owner]
  BY <1>1, <1>f, <1>s DEF ByPlace
<1>3. \A k \in S, o \in O : qty[k] * v[o] \in Int
  BY <1>1, Products
<1>4. \A k \in S : f[k] \in Int
  BY <1>0, <1>2, <1>3
<1>5. Numbers(f, S)
  BY <1>0, <1>4 DEF Numbers
<1>6. \A o \in O : g[o] = OwnerTotal(items, o) * v[o]
  BY <1>g DEF ByOwner
<1>7. \A o \in O : g[o] \in Int
  BY <1>6, OwnerTotalType, Products
<1>8. Numbers(g, O)
  BY <1>7 DEF Numbers
<1>a. PICK a : a = [k \in S |-> [o \in O |-> IF items[k].owner = o THEN qty[k] * v[o] ELSE 0]]
  OBVIOUS
<1>b. PICK b : b = [o \in O |-> [k \in S |-> IF items[k].owner = o THEN qty[k] * v[o] ELSE 0]]
  OBVIOUS
<1>9. a \in [S -> [O -> Int]] /\ b \in [O -> [S -> Int]]
  BY <1>3, <1>a, <1>b
<1>10. \A k \in S, o \in O :
         /\ a[k][o] = IF items[k].owner = o THEN qty[k] * v[o] ELSE 0
         /\ b[o][k] = IF items[k].owner = o THEN qty[k] * v[o] ELSE 0
  BY <1>a, <1>b
<1>11. ASSUME NEW k \in S PROVE f[k] = SumOver(a[k], O)
  <2>h. PICK h : h = a[k]
    OBVIOUS
  <2>x. PICK x : x = items[k].owner
    OBVIOUS
  <2>1. Numbers(h, O)
    BY <1>9, <2>h DEF Numbers
  <2>2. x \in O /\ \A y \in O \ {x} : h[y] = 0
    BY <1>0, <1>10, <2>h, <2>x
  <2>3. SumOver(h, O) = h[x]
    BY <2>1, <2>2, SumOne
  <2>4. h[x] = f[k]
    BY <1>2, <1>10, <2>2, <2>h, <2>x
  <2> QED
    BY <2>3, <2>4, <2>h
<1>12. ASSUME NEW o \in O PROVE g[o] = SumOver(b[o], S)
  <2>h. PICK h : h = b[o]
    OBVIOUS
  <2>r. PICK R : R = OwnerPlaces(items, o)
    OBVIOUS
  <2>w. PICK w : w = [k \in S |-> v[o] * qty[k]]
    OBVIOUS
  <2>1. R \in SUBSET S /\ \A k \in S : k \in R <=> items[k].owner = o
    BY <1>0, <2>r DEF OwnerPlaces
  <2>2. \A k \in S : w[k] = v[o] * qty[k] /\ w[k] = qty[k] * v[o]
    BY <1>1, <2>w, Products
  <2>3. Numbers(w, S)
    BY <1>0, <1>3, <2>2 DEF Numbers
  <2>4. \A k \in S : h[k] = IF k \in R THEN w[k] ELSE 0
    BY <1>10, <2>1, <2>2, <2>h
  <2>5. SumOver(w, R) = SumOver(h, S)
    BY <2>1, <2>3, <2>4, SumSome
  <2>6. Numbers(qty, R) /\ SumOver(qty, R) \in Int
    BY <1>0, <1>qt, <2>1, SumPart
  <2>7. \A k \in R : w[k] = v[o] * qty[k]
    BY <2>1, <2>2
  <2>8. v[o] \in Int
    OBVIOUS
  <2>9. SumOver(w, R) = v[o] * SumOver(qty, R)
    BY <2>6, <2>7, <2>8, SumTimes
  <2>10. OwnerTotal(items, o) = SumOver(qty, R)
    BY <1>qt, <2>r, OwnerTotalIs
  <2>11. g[o] = v[o] * SumOver(qty, R)
    BY <1>6, <2>6, <2>8, <2>10, Products
  <2> QED
    BY <2>5, <2>9, <2>11, <2>h
<1>13. SumOver(f, S) = SumOver(g, O)
  <2>1. \A k \in S, o \in O : b[o][k] = a[k][o]
    BY <1>10
  <2>2. Swaps(S, O, a, b, f, g)
    BY <1>0, <1>9, <1>11, <1>12, <2>1 DEF Swaps
  <2> QED
    BY <2>2, SumSwap
<1> QED
  BY <1>5, <1>8, <1>13, <1>f, <1>g, <1>s

-----------------------------------------------------------------------------
(* How many of each owner every owner holds, as a matrix M: one row times  *)
(* numbers of the owners, and one column.                                  *)
Row(M, v, h, O) == [x \in O |-> M[h][x] * v[x]]

Column(M, v, o, O) == [h \in O |-> M[h][o] * v[h]]

Pairing(v, w, O) == [x \in O |-> v[x] * w[x]]

IsMatrix(M, O) == IsFiniteSet(O) /\ M \in [O -> [O -> Int]]

LEMMA RowIs ==
  ASSUME NEW O, NEW M, IsMatrix(M, O), NEW v \in [O -> Int], NEW o \in O
  PROVE  /\ Numbers(Row(M, v, o, O), O) /\ SumOver(Row(M, v, o, O), O) \in Int
         /\ Numbers(Column(M, v, o, O), O) /\ SumOver(Column(M, v, o, O), O) \in Int
<1>1. \A x \in O : M[o][x] * v[x] \in Int /\ M[x][o] * v[x] \in Int
  BY Products DEF IsMatrix
<1>2. Numbers(Row(M, v, o, O), O)
  BY <1>1 DEF Numbers, Row, IsMatrix
<1>3. Numbers(Column(M, v, o, O), O)
  BY <1>1 DEF Numbers, Column, IsMatrix
<1> QED
  BY <1>2, <1>3, SumType

LEMMA PairingIs ==
  ASSUME NEW O, IsFiniteSet(O), NEW v \in [O -> Int], NEW w \in [O -> Int]
  PROVE  /\ Numbers(Pairing(v, w, O), O) /\ SumOver(Pairing(v, w, O), O) \in Int
         /\ \A x \in O : Pairing(v, w, O)[x] = v[x] * w[x]
<1>1. \A x \in O : v[x] * w[x] \in Int
  BY Products
<1>2. Numbers(Pairing(v, w, O), O)
  BY <1>1 DEF Numbers, Pairing
<1> QED
  BY <1>2, SumType DEF Pairing

(* What an owner has of something, itself and n levels deep in all.        *)
IsTotals(t, M, d, O) ==
  /\ t \in [Nat -> [O -> Int]] /\ d \in [O -> Int]
  /\ \A o \in O : t[0][o] = 0
  /\ \A n \in Nat, o \in O : t[n + 1][o] = d[o] + SumOver(Row(M, t[n], o, O), O)

(* How many copies of an owner the root has, by the last n levels.         *)
IsCopies(copies, M, root, O) ==
  /\ root \in O /\ copies \in [Nat -> [O -> Int]]
  /\ \A o \in O : copies[0][o] = IF o = root THEN 1 ELSE 0
  /\ \A n \in Nat, o \in O :
       copies[n + 1][o] = (IF o = root THEN 1 ELSE 0) + SumOver(Column(M, copies[n], o, O), O)

LEMMA TotalsExist ==
  ASSUME NEW O, NEW M, IsMatrix(M, O), NEW d \in [O -> Int]
  PROVE  \E t : IsTotals(t, M, d, O)
<1>d. PICK D : D = [O -> Int]
  OBVIOUS
<1>z. PICK z : z = [o \in O |-> 0]
  OBVIOUS
<1> DEFINE After(v) == [o \in O |-> d[o] + SumOver(Row(M, v, o, O), O)]
<1>1. ASSUME NEW v \in D PROVE After(v) \in D
  BY <1>d, RowIs
<1>s. PICK step : step = [v \in D |-> After(v)]
  OBVIOUS
<1>2. step \in [D -> D] /\ z \in D
  <2> HIDE DEF After
  <2>1. z \in D
    BY <1>d, <1>z
  <2> QED
    BY <1>1, <1>s, <2>1
<1> PICK t : t \in Runs(D, z, step)
  BY <1>2, Recursion
<1>3. t \in [Nat -> D] /\ t[0] = z /\ \A n \in Nat : t[n + 1] = step[t[n]]
  BY DEF Runs
<1>4. ASSUME NEW n \in Nat, NEW o \in O PROVE t[n + 1][o] = d[o] + SumOver(Row(M, t[n], o, O), O)
  <2>1. t[n + 1] = After(t[n])
    <3> HIDE DEF After
    <3> QED
      BY <1>3, <1>s
  <2> QED
    BY <2>1
<1>5. IsTotals(t, M, d, O)
  BY <1>3, <1>4, <1>d, <1>z DEF IsTotals
<1> QED
  BY <1>5

LEMMA CopiesExist ==
  ASSUME NEW O, NEW M, IsMatrix(M, O), NEW root \in O
  PROVE  \E copies : IsCopies(copies, M, root, O)
<1>d. PICK D : D = [O -> Int]
  OBVIOUS
<1>z. PICK z : z = [o \in O |-> IF o = root THEN 1 ELSE 0]
  OBVIOUS
<1> DEFINE After(v) == [o \in O |-> (IF o = root THEN 1 ELSE 0) + SumOver(Column(M, v, o, O), O)]
<1>1. ASSUME NEW v \in D PROVE After(v) \in D
  BY <1>d, RowIs
<1>s. PICK step : step = [v \in D |-> After(v)]
  OBVIOUS
<1>2. step \in [D -> D] /\ z \in D
  <2> HIDE DEF After
  <2>1. z \in D
    BY <1>d, <1>z
  <2> QED
    BY <1>1, <1>s, <2>1
<1> PICK t : t \in Runs(D, z, step)
  BY <1>2, Recursion
<1>3. t \in [Nat -> D] /\ t[0] = z /\ \A n \in Nat : t[n + 1] = step[t[n]]
  BY DEF Runs
<1>4. ASSUME NEW n \in Nat, NEW o \in O
      PROVE  t[n + 1][o] = (IF o = root THEN 1 ELSE 0) + SumOver(Column(M, t[n], o, O), O)
  <2>1. t[n + 1] = After(t[n])
    <3> HIDE DEF After
    <3> QED
      BY <1>3, <1>s
  <2> QED
    BY <2>1
<1>5. IsCopies(t, M, root, O)
  BY <1>3, <1>4, <1>d, <1>z DEF IsCopies
<1> QED
  BY <1>5

(* What the j-th level adds. *)
LevelOf(t, j, O) == [o \in O |-> t[j + 1][o] - t[j][o]]

LEMMA LevelNext ==
  ASSUME NEW O, NEW M, IsMatrix(M, O), NEW d, NEW t, IsTotals(t, M, d, O), NEW j \in Nat
  PROVE  /\ LevelOf(t, j, O) \in [O -> Int]
         /\ \A o \in O : LevelOf(t, j + 1, O)[o] = SumOver(Row(M, LevelOf(t, j, O), o, O), O)
<1>0. /\ t \in [Nat -> [O -> Int]] /\ d \in [O -> Int]
      /\ \A n \in Nat, o \in O : t[n + 1][o] = d[o] + SumOver(Row(M, t[n], o, O), O)
  BY DEF IsTotals
<1>u. PICK u : u = LevelOf(t, j, O)
  OBVIOUS
<1>a. PICK a : a = t[j]
  OBVIOUS
<1>b. PICK b : b = t[j + 1]
  OBVIOUS
<1>1. a \in [O -> Int] /\ b \in [O -> Int]
  BY <1>0, <1>a, <1>b
<1>2. u \in [O -> Int] /\ \A x \in O : b[x] = u[x] + a[x]
  BY <1>1, <1>a, <1>b, <1>u DEF LevelOf
<1>3. ASSUME NEW o \in O PROVE LevelOf(t, j + 1, O)[o] = SumOver(Row(M, u, o, O), O)
  <2>f. PICK f : f = Row(M, u, o, O)
    OBVIOUS
  <2>g. PICK g : g = Row(M, a, o, O)
    OBVIOUS
  <2>h. PICK h : h = Row(M, b, o, O)
    OBVIOUS
  <2>1. Numbers(f, O) /\ Numbers(g, O) /\ SumOver(f, O) \in Int /\ SumOver(g, O) \in Int
    BY <1>1, <1>2, <2>f, <2>g, RowIs
  <2>2. ASSUME NEW x \in O PROVE h[x] = f[x] + g[x]
    <3>1. f[x] = M[o][x] * u[x] /\ g[x] = M[o][x] * a[x] /\ h[x] = M[o][x] * b[x]
      BY <2>f, <2>g, <2>h DEF Row
    <3>2. M[o][x] \in Int /\ u[x] \in Int /\ a[x] \in Int /\ b[x] = u[x] + a[x]
      BY <1>1, <1>2 DEF IsMatrix
    <3>3. M[o][x] * (u[x] + a[x]) = M[o][x] * u[x] + M[o][x] * a[x]
      BY <3>2, Distributes
    <3> QED
      BY <3>1, <3>2, <3>3
  <2>3. SumOver(h, O) = SumOver(f, O) + SumOver(g, O)
    BY <2>1, <2>2, SumPlus
  <2>4. t[j + 1][o] = d[o] + SumOver(g, O)
    BY <1>0, <1>a, <2>g
  <2>5. t[j + 1 + 1][o] = d[o] + SumOver(h, O)
    BY <1>0, <1>b, <2>h
  <2>6. LevelOf(t, j + 1, O)[o] = t[j + 1 + 1][o] - t[j + 1][o]
    BY DEF LevelOf
  <2>7. d[o] \in Int
    BY <1>0
  <2> QED
    BY <2>1, <2>3, <2>4, <2>5, <2>6, <2>7, <2>f
<1> QED
  BY <1>2, <1>3, <1>u

(* One level of copies more over one level, is the copies over the next.   *)
Meets(O, M, root, c, more, u, next) ==
  /\ IsMatrix(M, O) /\ root \in O
  /\ c \in [O -> Int] /\ more \in [O -> Int] /\ u \in [O -> Int] /\ next \in [O -> Int]
  /\ \A o \in O : more[o] = (IF o = root THEN 1 ELSE 0) + SumOver(Column(M, c, o, O), O)
  /\ \A o \in O : next[o] = SumOver(Row(M, u, o, O), O)

LEMMA LevelsMeet ==
  ASSUME NEW O, NEW M, NEW root, NEW c, NEW more, NEW u, NEW next,
         Meets(O, M, root, c, more, u, next)
  PROVE  SumOver(Pairing(more, u, O), O) = u[root] + SumOver(Pairing(c, next, O), O)
<1> /\ IsMatrix(M, O) /\ root \in O
    /\ c \in [O -> Int] /\ more \in [O -> Int] /\ u \in [O -> Int] /\ next \in [O -> Int]
    /\ \A o \in O : more[o] = (IF o = root THEN 1 ELSE 0) + SumOver(Column(M, c, o, O), O)
    /\ \A o \in O : next[o] = SumOver(Row(M, u, o, O), O)
  BY DEF Meets
<1>0. IsFiniteSet(O) /\ M \in [O -> [O -> Int]]
  BY DEF IsMatrix
<1>a. PICK a : a = [h \in O |-> [o \in O |-> c[h] * (M[h][o] * u[o])]]
  OBVIOUS
<1>b. PICK b : b = [o \in O |-> [h \in O |-> c[h] * (M[h][o] * u[o])]]
  OBVIOUS
<1>1. \A h \in O, o \in O : M[h][o] \in Int /\ M[h][o] * u[o] \in Int /\ c[h] * (M[h][o] * u[o]) \in Int
  <2>1. \A h \in O, o \in O : M[h][o] \in Int /\ M[h][o] * u[o] \in Int
    BY <1>0, Products
  <2> QED
    BY <2>1, Products
<1>2. /\ a \in [O -> [O -> Int]] /\ b \in [O -> [O -> Int]]
      /\ \A h \in O, o \in O : a[h][o] = c[h] * (M[h][o] * u[o]) /\ b[o][h] = a[h][o]
  BY <1>1, <1>a, <1>b
<1>f. PICK f : f = Pairing(c, next, O)
  OBVIOUS
<1>3. ASSUME NEW h \in O PROVE f[h] = SumOver(a[h], O)
  <2>r. PICK row : row = Row(M, u, h, O)
    OBVIOUS
  <2>k. PICK k : k = a[h]
    OBVIOUS
  <2>1. Numbers(row, O) /\ SumOver(row, O) \in Int
    BY <2>r, RowIs
  <2>2. \A o \in O : k[o] = c[h] * row[o]
    BY <1>2, <2>r, <2>k DEF Row
  <2>3. SumOver(k, O) = c[h] * SumOver(row, O)
    BY <2>1, <2>2, SumTimes
  <2>4. f[h] = c[h] * next[h]
    BY <1>0, <1>f, PairingIs
  <2> QED
    BY <2>3, <2>4, <2>r, <2>k
<1>g. PICK g : g = [o \in O |-> SumOver(Column(M, c, o, O), O) * u[o]]
  OBVIOUS
<1>4. ASSUME NEW o \in O PROVE g[o] = SumOver(b[o], O) /\ g[o] \in Int
  <2>r. PICK col : col = Column(M, c, o, O)
    OBVIOUS
  <2>k. PICK k : k = b[o]
    OBVIOUS
  <2>1. Numbers(col, O) /\ SumOver(col, O) \in Int
    BY <2>r, RowIs
  <2>2. ASSUME NEW h \in O PROVE k[h] = u[o] * col[h]
    <3>1. k[h] = c[h] * (M[h][o] * u[o]) /\ col[h] = M[h][o] * c[h]
      BY <1>2, <2>r, <2>k DEF Column
    <3>2. c[h] \in Int /\ M[h][o] \in Int /\ u[o] \in Int
      BY <1>1
    <3>x. PICK x \in Int : x = c[h]
      BY <3>2
    <3>y. PICK y \in Int : y = M[h][o]
      BY <3>2
    <3>z. PICK z \in Int : z = u[o]
      BY <3>2
    <3>3. x * (y * z) = z * (y * x)
      <4>1. (x * y) * z = x * (y * z)
        BY ProductsOfThree
      <4>2. x * y = y * x /\ x * y \in Int /\ (x * y) * z = z * (x * y)
        <5>1. x * y = y * x /\ x * y \in Int
          BY Products
        <5> QED
          BY <5>1, Products
      <4> QED
        BY <4>1, <4>2
    <3> QED
      BY <3>1, <3>3, <3>x, <3>y, <3>z
  <2>3. u[o] \in Int
    OBVIOUS
  <2>4. SumOver(k, O) = u[o] * SumOver(col, O)
    BY <2>1, <2>2, <2>3, SumTimes
  <2>5. g[o] = SumOver(col, O) * u[o]
    BY <1>g, <2>r
  <2>6. g[o] = u[o] * SumOver(col, O) /\ g[o] \in Int
    BY <2>1, <2>3, <2>5, Products
  <2> QED
    BY <2>4, <2>6, <2>k
<1>5. SumOver(f, O) = SumOver(g, O)
  <2>1. \A h \in O : f[h] = SumOver(a[h], O)
    BY <1>3
  <2>2. \A o \in O : g[o] = SumOver(b[o], O)
    BY <1>4
  <2>3. \A h \in O, o \in O : b[o][h] = a[h][o]
    BY <1>2
  <2>4. Swaps(O, O, a, b, f, g)
    BY <1>0, <1>2, <2>1, <2>2, <2>3 DEF Swaps
  <2> QED
    BY <2>4, SumSwap
<1>e. PICK e : e = [o \in O |-> IF o = root THEN u[o] ELSE 0]
  OBVIOUS
<1>p. PICK p : p = Pairing(more, u, O)
  OBVIOUS
<1>6. Numbers(e, O) /\ Numbers(g, O)
  BY <1>0, <1>4, <1>e DEF Numbers
<1>7. SumOver(e, O) = u[root]
  <2>1. e[root] = u[root] /\ \A y \in O \ {root} : e[y] = 0
    BY <1>e
  <2> QED
    BY <1>6, <2>1, SumOne
<1>8. ASSUME NEW o \in O PROVE p[o] = e[o] + g[o]
  <2>s. PICK s : s = SumOver(Column(M, c, o, O), O)
    OBVIOUS
  <2>1. s \in Int /\ u[o] \in Int
    BY <2>s, RowIs
  <2>2. p[o] = more[o] * u[o] /\ g[o] = s * u[o]
    BY <1>0, <1>p, <1>g, <2>s, PairingIs
  <2>3. more[o] = (IF o = root THEN 1 ELSE 0) + s
    BY <2>s
  <2>4. CASE o = root
    <3>1. more[o] = 1 + s
      BY <2>3, <2>4
    <3>2. u[o] * (1 + s) = u[o] * 1 + u[o] * s
      BY <2>1, Distributes
    <3>3. u[o] * (1 + s) = (1 + s) * u[o] /\ u[o] * 1 = u[o] /\ u[o] * s = s * u[o]
      BY <2>1, Products
    <3> QED
      BY <2>2, <2>4, <3>1, <3>2, <3>3, <1>e
  <2>5. CASE o # root
    <3>1. more[o] = s
      BY <2>1, <2>3, <2>5
    <3>2. e[o] = 0 /\ s * u[o] \in Int
      BY <2>1, <2>5, <1>e, Products
    <3> QED
      BY <2>2, <3>1, <3>2
  <2> QED
    BY <2>4, <2>5
<1>9. SumOver(p, O) = SumOver(e, O) + SumOver(g, O)
  BY <1>6, <1>8, SumPlus
<1> QED
  BY <1>5, <1>7, <1>9, <1>f, <1>p

(* The copies of the owners times what they have make what the root has.   *)
LEMMA CopiesMakeTotals ==
  ASSUME NEW O, NEW M, IsMatrix(M, O), NEW d, NEW t, IsTotals(t, M, d, O),
         NEW root, NEW c, IsCopies(c, M, root, O), NEW n \in Nat
  PROVE  SumOver(Pairing(c[n], d, O), O) = t[n + 1][root]
<1>0. /\ t \in [Nat -> [O -> Int]] /\ d \in [O -> Int] /\ \A o \in O : t[0][o] = 0
      /\ \A m \in Nat, o \in O : t[m + 1][o] = d[o] + SumOver(Row(M, t[m], o, O), O)
  BY DEF IsTotals
<1>1. /\ root \in O /\ c \in [Nat -> [O -> Int]]
      /\ \A o \in O : c[0][o] = IF o = root THEN 1 ELSE 0
      /\ \A m \in Nat, o \in O :
           c[m + 1][o] = (IF o = root THEN 1 ELSE 0) + SumOver(Column(M, c[m], o, O), O)
  BY DEF IsCopies
<1>2. IsFiniteSet(O)
  BY DEF IsMatrix
<1> DEFINE T == {m \in Nat : \A j \in Nat :
                   SumOver(Pairing(c[m], LevelOf(t, j, O), O), O) = t[m + j + 1][root] - t[j][root]}
<1>3. 0 \in T
  <2> SUFFICES ASSUME NEW j \in Nat
               PROVE  SumOver(Pairing(c[0], LevelOf(t, j, O), O), O) = t[0 + j + 1][root] - t[j][root]
    OBVIOUS
  <2>u. PICK u : u = LevelOf(t, j, O)
    OBVIOUS
  <2>p. PICK p : p = Pairing(c[0], u, O)
    OBVIOUS
  <2>1. u \in [O -> Int] /\ c[0] \in [O -> Int]
    BY <2>u, <1>1, LevelNext
  <2>2. Numbers(p, O) /\ \A x \in O : p[x] = c[0][x] * u[x]
    BY <1>2, <2>1, <2>p, PairingIs
  <2>3. p[root] = 1 * u[root] /\ \A y \in O \ {root} : p[y] = 0 * u[y]
    BY <1>1, <2>2
  <2>4. p[root] = u[root] /\ \A y \in O \ {root} : p[y] = 0
    BY <1>1, <2>1, <2>3, Products
  <2>5. SumOver(p, O) = u[root]
    BY <1>1, <2>2, <2>4, SumOne
  <2>6. u[root] = t[j + 1][root] - t[j][root] /\ 0 + j + 1 = j + 1
    BY <1>1, <2>u DEF LevelOf
  <2> QED
    BY <2>5, <2>6, <2>p, <2>u
<1>4. ASSUME NEW m \in Nat, m \in T PROVE m + 1 \in T
  <2> SUFFICES ASSUME NEW j \in Nat
               PROVE  SumOver(Pairing(c[m + 1], LevelOf(t, j, O), O), O)
                        = t[m + 1 + j + 1][root] - t[j][root]
    OBVIOUS
  <2>u. PICK u : u = LevelOf(t, j, O)
    OBVIOUS
  <2>v. PICK next : next = LevelOf(t, j + 1, O)
    OBVIOUS
  <2>a. PICK a : a = c[m]
    OBVIOUS
  <2>b. PICK b : b = c[m + 1]
    OBVIOUS
  <2>1. u \in [O -> Int] /\ next \in [O -> Int]
    <3>1. j + 1 \in Nat
      OBVIOUS
    <3> QED
      BY <2>u, <2>v, <3>1, LevelNext
  <2>2. \A o \in O : next[o] = SumOver(Row(M, u, o, O), O)
    BY <2>u, <2>v, LevelNext
  <2>3. a \in [O -> Int] /\ b \in [O -> Int]
    BY <1>1, <2>a, <2>b
  <2>4. \A o \in O : b[o] = (IF o = root THEN 1 ELSE 0) + SumOver(Column(M, a, o, O), O)
    BY <1>1, <2>a, <2>b
  <2>5. SumOver(Pairing(b, u, O), O) = u[root] + SumOver(Pairing(a, next, O), O)
    <3>1. Meets(O, M, root, a, b, u, next)
      BY <1>1, <2>1, <2>2, <2>3, <2>4 DEF Meets
    <3> QED
      BY <3>1, LevelsMeet
  <2>6. SumOver(Pairing(a, next, O), O) = t[m + (j + 1) + 1][root] - t[j + 1][root]
    BY <1>4, <2>a, <2>v
  <2>7. u[root] = t[j + 1][root] - t[j][root]
    BY <1>1, <2>u DEF LevelOf
  <2>8. /\ t[j][root] \in Int /\ t[j + 1][root] \in Int /\ t[m + (j + 1) + 1][root] \in Int
        /\ m + (j + 1) + 1 = m + 1 + j + 1
    <3>1. j \in Nat /\ j + 1 \in Nat /\ m + (j + 1) + 1 \in Nat /\ m + (j + 1) + 1 = m + 1 + j + 1
      OBVIOUS
    <3> QED
      BY <1>0, <1>1, <3>1
  <2>9. SumOver(Pairing(b, u, O), O) = t[m + 1 + j + 1][root] - t[j][root]
    BY <2>5, <2>6, <2>7, <2>8
  <2> QED
    BY <2>9, <2>b, <2>u
<1>5. \A o \in O : LevelOf(t, 0, O)[o] = d[o]
  <2> SUFFICES ASSUME NEW o \in O PROVE LevelOf(t, 0, O)[o] = d[o]
    OBVIOUS
  <2>z. PICK z : z = t[0]
    OBVIOUS
  <2>r. PICK row : row = Row(M, z, o, O)
    OBVIOUS
  <2>1. z \in [O -> Int] /\ \A x \in O : z[x] = 0
    BY <1>0, <2>z
  <2>2. \A x \in O : row[x] = M[o][x] * 0 /\ M[o][x] \in Int
    BY <2>1, <2>r DEF Row, IsMatrix
  <2>3. \A x \in O : row[x] = 0
    BY <2>2, Products
  <2>4. SumOver(row, O) = 0
    BY <1>2, <2>3, SumZero
  <2>5. t[0 + 1][o] = d[o] + 0
    BY <1>0, <2>4, <2>z, <2>r
  <2>6. LevelOf(t, 0, O)[o] = t[0 + 1][o] - t[0][o]
    BY DEF LevelOf
  <2> QED
    BY <1>0, <2>5, <2>6
<1> HIDE DEF T
<1>6. n \in T
  BY <1>3, <1>4, Induct
<1>u. PICK u : u = LevelOf(t, 0, O)
  OBVIOUS
<1>7. SumOver(Pairing(c[n], u, O), O) = t[n + 0 + 1][root] - t[0][root]
  BY <1>6, <1>u DEF T
<1>8. u = d
  <2>1. u \in [O -> Int]
    BY <1>u, LevelNext
  <2> QED
    BY <1>0, <1>5, <1>u, <2>1
<1>9. t[n + 1][root] \in Int /\ t[0][root] = 0 /\ n + 0 + 1 = n + 1
  BY <1>0, <1>1
<1> QED
  BY <1>7, <1>8, <1>9

-----------------------------------------------------------------------------
(* What the inventories of a catalog hold: the owners, and a part. *)
HowMany(c, O) ==
  [h \in O |-> [o \in O |-> IF IdOf(c, h) = None THEN 0 ELSE OwnerTotal(Contents(c, h), o)]]

OwnOf(c, q, part, O) ==
  [o \in O |-> IF IdOf(c, o) = None THEN 0 ELSE Direct(LinesIn(c, o), part, q.spares)]

LEMMA HowManyIs ==
  ASSUME NEW c, NEW q, NEW O, IsBom(c, q, O), NEW part
  PROVE  IsMatrix(HowMany(c, O), O) /\ OwnOf(c, q, part, O) \in [O -> Int]
<1>1. ASSUME NEW h \in O, IdOf(c, h) # None, NEW o PROVE OwnerTotal(Contents(c, h), o) \in Int
  <2>1. Contents(c, h) \in Seq(Item)
    BY <1>1, IdIs DEF Holds
  <2> QED
    BY <2>1, OwnerTotalType
<1>2. ASSUME NEW o \in O, IdOf(c, o) # None
      PROVE  Direct(LinesIn(c, o), part, q.spares) \in Int
  <2>1. LinesIn(c, o) \in Seq(Line) /\ q.spares \in BOOLEAN
    BY <1>2, IdIs DEF Holds, IsBom
  <2> QED
    BY <2>1, DirectIs
<1>3. HowMany(c, O) \in [O -> [O -> Int]]
  BY <1>1 DEF HowMany
<1>4. OwnOf(c, q, part, O) \in [O -> Int]
  BY <1>2 DEF OwnOf
<1> QED
  BY <1>3, <1>4, BomFinite DEF IsMatrix

(* A call without an error found as many as its owner has in all, as often *)
(* as it was to be counted.                                                *)
CountsAs(c, q, O, e, part, call, v) ==
  PartTotal(e[call].found, part) = call.copies * v[call.owner]

LEMMA NothingFound ==
  ASSUME NEW c, NEW q, NEW O, IsBom(c, q, O), NEW e, Expands(c, q, O, e), NEW part,
         NEW t, IsTotals(t, HowMany(c, O), OwnOf(c, q, part, O), O), NEW n \in Nat,
         NEW call \in BomCalls(O), e[call].error = None, IdOf(c, call.owner) = None
  PROVE  CountsAs(c, q, O, e, part, call, t[n + 1])
<1>m. PICK M : M = HowMany(c, O)
  OBVIOUS
<1>d. PICK d : d = OwnOf(c, q, part, O)
  OBVIOUS
<1>v. PICK v : v = t[n]
  OBVIOUS
<1>o. PICK o : o = call.owner
  OBVIOUS
<1>1. ExpandedTo(c, q, e, call, O, e[call]) /\ None \notin {"cycle", "missing"}
  BY DEF Expands, IsBom
<1>2. ~Inside(call)
  BY <1>1 DEF ExpandedTo, Stock!InventoryCycle, Stock!Failed, Stock!Nothing
<1>3. e[call] \in {Stock!InventoryNotFound, SkippedAt(call)}
  BY <1>1, <1>2 DEF ExpandedTo
<1>4. e[call].found = <<>>
  BY <1>3 DEF SkippedAt, Stock!InventoryNotFound, Stock!Failed, Stock!Nothing
<1>5. PartTotal(e[call].found, part) = 0
  BY <1>4, PartTotalEmpty
<1>6. o \in O /\ call.copies \in Int
  BY <1>o, HereTyped
<1>7. /\ v \in [O -> Int] /\ d[o] = 0
      /\ t[n + 1][o] = d[o] + SumOver(Row(M, v, o, O), O)
  BY <1>6, <1>o, <1>m, <1>d, <1>v DEF IsTotals, OwnOf
<1>r. PICK row : row = Row(M, v, o, O)
  OBVIOUS
<1>8. \A x \in O : row[x] = 0 * v[x] /\ v[x] \in Int
  BY <1>6, <1>7, <1>o, <1>m, <1>r DEF Row, HowMany
<1>9. \A x \in O : row[x] = 0
  BY <1>8, Products
<1>10. SumOver(row, O) = 0
  BY <1>9, BomFinite, SumZero
<1>11. t[n + 1][o] = 0
  BY <1>7, <1>10, <1>r
<1>12. call.copies * 0 = 0
  BY <1>6, Products
<1> QED
  BY <1>5, <1>11, <1>12, <1>o DEF CountsAs

LEMMA ChildrenFound ==
  ASSUME NEW c, NEW q, NEW O, IsBom(c, q, O), NEW e, Expands(c, q, O, e), NEW part,
         NEW t, IsTotals(t, HowMany(c, O), OwnOf(c, q, part, O), O), NEW n \in Nat,
         NEW call \in BomCalls(O), e[call].error = None, Opens(c, call),
         \A k \in 1 .. Len(Contents(c, call.owner)) :
           CountsAs(c, q, O, e, part, Child(c, call, k), t[n])
  PROVE  CountsAs(c, q, O, e, part, call, t[n + 1])
<1>m. PICK M : M = HowMany(c, O)
  OBVIOUS
<1>d. PICK d : d = OwnOf(c, q, part, O)
  OBVIOUS
<1>v. PICK v : v = t[n]
  OBVIOUS
<1>o. PICK o : o = call.owner
  OBVIOUS
<1>i. PICK items : items = Contents(c, o)
  OBVIOUS
<1>s. PICK S : S = 1 .. Len(items)
  OBVIOUS
<1>1. o \in O /\ call.copies \in Nat /\ call.copies \in Int
  BY <1>o, HereTyped
<1>2. /\ v \in [O -> Int] /\ d[o] = Direct(LinesIn(c, o), part, q.spares) /\ d[o] \in Int
      /\ t[n + 1][o] = d[o] + SumOver(Row(M, v, o, O), O)
  BY <1>1, <1>o, <1>m, <1>d, <1>v DEF IsTotals, OwnOf, Opens
<1>3. items \in Seq(Item) /\ \A k \in S : items[k].owner \in O /\ items[k].quantity \in Nat
  <2>1. items \in Seq(Item) /\ \A k \in S : items[k].owner \in O
    BY <1>o, <1>i, <1>s, IdIs DEF Holds, Opens
  <2> QED
    BY <2>1, <1>s, ItemsAre
<1>g. PICK g : g = InChildren(c, e, call, part)
  OBVIOUS
<1>b. PICK b : b = ByPlace(items, v)
  OBVIOUS
<1>4. ASSUME NEW k \in S PROVE g[k] = call.copies * b[k]
  <2>1. g[k] = PartTotal(e[Child(c, call, k)].found, part)
    BY <1>g, <1>o, <1>i, <1>s DEF InChildren
  <2>2. /\ Child(c, call, k).copies = call.copies * items[k].quantity
        /\ Child(c, call, k).owner = items[k].owner
    BY <1>o, <1>i DEF Child, Stock!Call, Stock!Copies
  <2>3. g[k] = (call.copies * items[k].quantity) * v[items[k].owner]
    BY <2>1, <2>2, <1>o, <1>i, <1>s, <1>v DEF CountsAs
  <2>4. b[k] = items[k].quantity * v[items[k].owner]
    BY <1>b, <1>s DEF ByPlace
  <2>5. items[k].quantity \in Int /\ v[items[k].owner] \in Int
    BY <1>2, <1>3
  <2>6. g[k] = call.copies * (items[k].quantity * v[items[k].owner])
    BY <1>1, <2>3, <2>5, ProductsOfThree
  <2> QED
    BY <2>4, <2>6
<1>5. /\ Numbers(b, S) /\ SumOver(b, S) \in Int
      /\ SumOver(b, S) = SumOver(ByOwner(items, v, O), O)
      /\ Numbers(ByOwner(items, v, O), O)
  <2>1. IsFiniteSet(O)
    BY BomFinite
  <2>2. \A k \in 1 .. Len(items) : items[k].owner \in O
    BY <1>3, <1>s
  <2>3. /\ Numbers(b, S) /\ SumOver(b, S) = SumOver(ByOwner(items, v, O), O)
        /\ Numbers(ByOwner(items, v, O), O)
    BY <1>2, <1>3, <1>b, <1>s, <2>1, <2>2, SumByOwner
  <2> QED
    BY <2>3, SumType
<1>6. SumOver(g, S) = call.copies * SumOver(b, S)
  BY <1>1, <1>4, <1>5, SumTimes
<1>r. PICK row : row = Row(M, v, o, O)
  OBVIOUS
<1>w. PICK w : w = ByOwner(items, v, O)
  OBVIOUS
<1>7. \A x \in O : row[x] = w[x]
  BY <1>1, <1>i, <1>o, <1>m, <1>r, <1>w DEF Row, HowMany, ByOwner, Opens
<1>8. SumOver(row, O) = SumOver(w, O)
  BY <1>5, <1>7, <1>w, SumSame
<1>9. PartTotal(e[call].found, part) = call.copies * d[o] + SumOver(g, S)
  BY <1>2, <1>g, <1>i, <1>o, <1>s, FoundTotal
<1>10. t[n + 1][o] = d[o] + SumOver(b, S)
  BY <1>2, <1>5, <1>8, <1>r, <1>w
<1>11. call.copies * (d[o] + SumOver(b, S)) = call.copies * d[o] + call.copies * SumOver(b, S)
  BY <1>1, <1>2, <1>5, Distributes
<1> QED
  BY <1>6, <1>9, <1>10, <1>11, <1>o DEF CountsAs

LEMMA FoundIs ==
  ASSUME NEW c, NEW q, NEW O, IsBom(c, q, O), NEW e, Expands(c, q, O, e), NEW part,
         NEW t, IsTotals(t, HowMany(c, O), OwnOf(c, q, part, O), O)
  PROVE  \A n \in Nat : \A call \in BomCalls(O) :
           e[call].error = None /\ Weight(O, call) < n => CountsAs(c, q, O, e, part, call, t[n])
<1> DEFINE T == {n \in Nat : \A call \in BomCalls(O) :
                   e[call].error = None /\ Weight(O, call) < n =>
                     CountsAs(c, q, O, e, part, call, t[n])}
<1>1. 0 \in T
  BY WeightIs
<1>2. ASSUME NEW n \in Nat, n \in T PROVE n + 1 \in T
  <2> SUFFICES ASSUME NEW call \in BomCalls(O), e[call].error = None, Weight(O, call) < n + 1
               PROVE  CountsAs(c, q, O, e, part, call, t[n + 1])
    OBVIOUS
  <2>1. CASE IdOf(c, call.owner) = None
    BY <2>1, NothingFound
  <2>2. CASE IdOf(c, call.owner) # None
    <3>1. ~Inside(call)
      BY DEF Expands, ExpandedTo, Stock!InventoryCycle, Stock!Failed, Stock!Nothing, IsBom
    <3>2. Opens(c, call)
      BY <2>2, <3>1 DEF Opens
    <3>3. ASSUME NEW k \in 1 .. Len(Contents(c, call.owner))
          PROVE  CountsAs(c, q, O, e, part, Child(c, call, k), t[n])
      <4>1. /\ Child(c, call, k) \in BomCalls(O)
            /\ Weight(O, Child(c, call, k)) = Weight(O, call) - 1
        BY <3>2, ChildIs
      <4>2. e[Child(c, call, k)].error = None
        BY <3>2, SkippedFrom
      <4>3. Weight(O, call) \in Nat
        BY WeightIs
      <4>4. Weight(O, Child(c, call, k)) < n
        BY <4>1, <4>3
      <4> QED
        BY <1>2, <4>1, <4>2, <4>4
    <3> QED
      BY <3>2, <3>3, ChildrenFound
  <2> QED
    BY <2>1, <2>2
<1> HIDE DEF T
<1>3. \A n \in Nat : n \in T
  BY <1>1, <1>2, Induct
<1> QED
  BY <1>3 DEF T

LEMMA SumFunctionIs == \A f : SumFunction(f) = SumOver(f, DOMAIN f)
BY DEF SumFunction, SumOver

(* CopiesOf, as it is defined for one owner in another, and as a column.   *)
QuantityOf(c, holder, o) ==
  LET id == Stock!LoadInventory(c, holder, None)
  IN  IF id = None THEN 0 ELSE Stock!Total(c[id].contains, LAMBDA item : item.owner = o)

LEMMA QuantityIs ==
  ASSUME NEW c, NEW O, NEW h \in O, NEW o \in O
  PROVE  QuantityOf(c, h, o) = HowMany(c, O)[h][o]
<1>1. IdOf(c, h) # None => QuantityOf(c, h, o) = OwnerTotal(Contents(c, h), o)
  BY DEF QuantityOf, OwnerTotal, Contents, IdOf, Stock!Total
<1>2. IdOf(c, h) = None => QuantityOf(c, h, o) = 0
  BY DEF QuantityOf, IdOf
<1> QED
  BY <1>1, <1>2 DEF HowMany

HeldBy(c, v, o, O) == [holder \in O |-> QuantityOf(c, holder, o) * v[holder]]

LEMMA HeldIs ==
  ASSUME NEW c, NEW O, NEW v, NEW o \in O
  PROVE  SumFunction(HeldBy(c, v, o, O)) = SumOver(Column(HowMany(c, O), v, o, O), O)
<1>m. PICK M : M = HowMany(c, O)
  OBVIOUS
<1>1. \A h \in O : QuantityOf(c, h, o) = M[h][o]
  BY <1>m, QuantityIs
<1>2. HeldBy(c, v, o, O) = Column(M, v, o, O)
  BY <1>1 DEF HeldBy, Column
<1>3. DOMAIN Column(M, v, o, O) = O
  BY DEF Column
<1> QED
  BY <1>2, <1>3, <1>m, SumFunctionIs

CopiesTable(c, root, O, N, g) ==
  g = [n \in 0..N |->
         [o \in O |->
            (IF o = root THEN 1 ELSE 0) +
            (IF n = 0 THEN 0 ELSE SumFunction(HeldBy(c, g[n - 1], o, O)))]]

LEMMA CopiesOfTable ==
  ASSUME NEW c, NEW root, NEW owner
  PROVE  CopiesOf(c, root, owner) =
           LET O == Stock!Owners(c) \cup {root}
               N == Cardinality(O)
           IN  (CHOOSE g : CopiesTable(c, root, O, N, g))[N][owner]
BY DEF CopiesOf, CopiesTable, HeldBy, QuantityOf, Stock!Total

LEMMA CopiesOfIs ==
  ASSUME NEW c, NEW q, NEW O, IsBom(c, q, O), NEW copies,
         IsCopies(copies, HowMany(c, O), q.owner, O), NEW owner \in O
  PROVE  CopiesOf(c, q.owner, owner) = copies[Cardinality(O)][owner]
<1>r. PICK root : root = q.owner
  OBVIOUS
<1>n. PICK N : N = Cardinality(O)
  OBVIOUS
<1>m. PICK M : M = HowMany(c, O)
  OBVIOUS
<1>0. N \in Nat /\ O = Stock!Owners(c) \cup {root}
  BY <1>n, <1>r, BomFinite DEF IsBom
<1>1. /\ copies \in [Nat -> [O -> Int]]
      /\ \A o \in O : copies[0][o] = IF o = root THEN 1 ELSE 0
      /\ \A n \in Nat, o \in O :
           copies[n + 1][o] = (IF o = root THEN 1 ELSE 0) + SumOver(Column(M, copies[n], o, O), O)
  BY <1>r, <1>m DEF IsCopies
<1>g. PICK g : g = [n \in 0 .. N |-> copies[n]]
  OBVIOUS
<1>2. ASSUME NEW n \in 0 .. N, NEW o \in O
      PROVE  g[n][o] = (IF o = root THEN 1 ELSE 0) +
                       (IF n = 0 THEN 0 ELSE SumFunction(HeldBy(c, g[n - 1], o, O)))
  <2>1. CASE n = 0
    BY <1>0, <1>1, <1>g, <2>1
  <2>2. CASE n # 0
    <3>1. n - 1 \in Nat /\ n - 1 \in 0 .. N /\ (n - 1) + 1 = n
      BY <1>0, <2>2
    <3>v. PICK v : v = copies[n - 1]
      OBVIOUS
    <3>2. g[n - 1] = v /\ g[n] = copies[n]
      BY <1>g, <3>1, <3>v
    <3>3. copies[n][o] = (IF o = root THEN 1 ELSE 0) + SumOver(Column(M, v, o, O), O)
      BY <1>1, <3>1, <3>v
    <3>4. SumFunction(HeldBy(c, v, o, O)) = SumOver(Column(M, v, o, O), O)
      BY <1>m, HeldIs
    <3> QED
      BY <2>2, <3>2, <3>3, <3>4
  <2> QED
    BY <2>1, <2>2
<1>3. CopiesTable(c, root, O, N, g)
  <2>1. ASSUME NEW n \in 0 .. N
        PROVE  g[n] = [o \in O |-> (IF o = root THEN 1 ELSE 0) +
                         (IF n = 0 THEN 0 ELSE SumFunction(HeldBy(c, g[n - 1], o, O)))]
    <3>0. n \in Nat /\ g[n] = copies[n]
      BY <1>0, <1>g
    <3>1. g[n] \in [O -> Int]
      BY <1>1, <3>0
    <3> QED
      BY <1>2, <3>1
  <2> QED
    BY <2>1, <1>g DEF CopiesTable
<1>h. PICK h : h = CHOOSE f : CopiesTable(c, root, O, N, f)
  OBVIOUS
<1>4. CopiesTable(c, root, O, N, h)
  BY <1>3, <1>h
<1>5. CopiesOf(c, root, owner) = h[N][owner]
  BY <1>0, <1>h, <1>n, CopiesOfTable
<1>6. ASSUME NEW n \in 0 .. N
      PROVE  h[n] = [o \in O |-> (IF o = root THEN 1 ELSE 0) +
                       (IF n = 0 THEN 0 ELSE SumFunction(HeldBy(c, h[n - 1], o, O)))]
  BY <1>4 DEF CopiesTable
<1> DEFINE T == {n \in Nat : n <= N => h[n] = copies[n]}
<1>7. 0 \in T
  <2>1. 0 \in 0 .. N
    BY <1>0
  <2>2. h[0] = [o \in O |-> (IF o = root THEN 1 ELSE 0) + 0]
    BY <1>6, <2>1
  <2>3. copies[0] \in [O -> Int]
    BY <1>1
  <2>4. h[0] = copies[0]
    BY <1>1, <2>2, <2>3
  <2> QED
    BY <2>4
<1>8. ASSUME NEW n \in Nat, n \in T PROVE n + 1 \in T
  <2> SUFFICES ASSUME n + 1 <= N PROVE h[n + 1] = copies[n + 1]
    OBVIOUS
  <2>j. PICK j : j = n + 1
    OBVIOUS
  <2>1. j \in 0 .. N /\ j # 0 /\ j - 1 = n /\ n <= N /\ j \in Nat
    BY <1>0, <2>j
  <2>v. PICK v : v = copies[n]
    OBVIOUS
  <2>2. h[n] = v
    BY <1>8, <2>1, <2>v
  <2>3. h[j] = [o \in O |-> (IF o = root THEN 1 ELSE 0) + SumFunction(HeldBy(c, v, o, O))]
    BY <1>6, <2>1, <2>2
  <2>4. \A o \in O : copies[j][o] = (IF o = root THEN 1 ELSE 0) + SumOver(Column(M, v, o, O), O)
    BY <1>1, <2>j, <2>v
  <2>5. \A o \in O : SumFunction(HeldBy(c, v, o, O)) = SumOver(Column(M, v, o, O), O)
    BY <1>m, HeldIs
  <2>6. copies[j] \in [O -> Int]
    BY <1>1, <2>1
  <2>7. h[j] = copies[j]
    BY <2>3, <2>4, <2>5, <2>6
  <2> QED
    BY <2>7, <2>j
<1> HIDE DEF T
<1>9. N \in T
  BY <1>0, <1>7, <1>8, Induct
<1>10. h[N] = copies[N]
  BY <1>0, <1>9 DEF T
<1> QED
  BY <1>5, <1>10, <1>n, <1>r

(* The sum over the owners of copies times what they have, as in           *)
(* CopiesCounted.                                                          *)
CountedOver(c, q, part, O) ==
  [o \in O |-> CopiesOf(c, q.owner, o) *
     (LET id == Stock!LoadInventory(c, o, None)
      IN  IF id = None THEN 0
          ELSE Stock!Amount(c[id].lines, part, FALSE) +
               (IF q.spares THEN Stock!Amount(c[id].lines, part, TRUE) ELSE 0))]

LEMMA ExpansionCounts ==
  ASSUME NEW c, NEW q, NEW O, IsBom(c, q, O), NEW part,
         Stock!BillOfMaterials(c, q).error = None
  PROVE  PartTotal(Stock!BillOfMaterials(c, q).found, part) = SumFunction(CountedOver(c, q, part, O))
<1>m. PICK M : M = HowMany(c, O)
  OBVIOUS
<1>d. PICK d : d = OwnOf(c, q, part, O)
  OBVIOUS
<1>n. PICK N : N = Cardinality(O)
  OBVIOUS
<1>r. PICK root : root = q.owner
  OBVIOUS
<1>0. /\ IsFiniteSet(O) /\ N \in Nat /\ root \in O /\ IsMatrix(M, O) /\ d \in [O -> Int]
  BY <1>m, <1>d, <1>n, <1>r, HowManyIs, BomFinite DEF IsBom
<1>e. PICK e : e = Stock!Expansion(c, q)
  OBVIOUS
<1>c. PICK call : call = RootCall(q)
  OBVIOUS
<1>1. Expands(c, q, O, e)
  BY <1>e, ExpansionIs
<1>2. Stock!BillOfMaterials(c, q) = e[call]
  BY <1>e, <1>c DEF Stock!BillOfMaterials, RootCall
<1>3. call \in BomCalls(O) /\ call.owner = root /\ call.copies = 1 /\ e[call].error = None
  BY <1>2, <1>c, <1>r, RootIs
<1>4. Weight(O, call) < N + 1
  <2>1. Weight(O, call) \in Nat /\ Weight(O, call) <= N
    BY <1>n, WeightIs
  <2> QED
    BY <1>0, <2>1
<1> PICK t : IsTotals(t, M, d, O)
  BY <1>0, TotalsExist
<1> PICK copies : IsCopies(copies, M, root, O)
  BY <1>0, CopiesExist
<1>5. CountsAs(c, q, O, e, part, call, t[N + 1])
  <2>1. N + 1 \in Nat
    BY <1>0
  <2> QED
    BY <1>1, <1>3, <1>4, <1>m, <1>d, <2>1, FoundIs
<1>6. t[N + 1][root] \in Int
  <2>1. N + 1 \in Nat /\ t \in [Nat -> [O -> Int]]
    BY <1>0 DEF IsTotals
  <2> QED
    BY <1>0, <2>1
<1>7. PartTotal(e[call].found, part) = t[N + 1][root]
  BY <1>3, <1>5, <1>6 DEF CountsAs
<1>p. PICK p : p = Pairing(copies[N], d, O)
  OBVIOUS
<1>8. SumOver(p, O) = t[N + 1][root]
  BY <1>0, <1>p, CopiesMakeTotals
<1>9. Numbers(p, O) /\ \A o \in O : p[o] = copies[N][o] * d[o]
  <2>1. copies[N] \in [O -> Int]
    BY <1>0 DEF IsCopies
  <2> QED
    BY <1>0, <1>p, <2>1, PairingIs
<1>w. PICK w : w = CountedOver(c, q, part, O)
  OBVIOUS
<1>10. ASSUME NEW o \in O PROVE w[o] = p[o]
  <2>1. CopiesOf(c, root, o) = copies[N][o]
    BY <1>m, <1>n, <1>r, CopiesOfIs
  <2>2. w[o] = CopiesOf(c, root, o) * d[o]
    BY <1>d, <1>r, <1>w DEF CountedOver, OwnOf, Direct, LinesIn, IdOf
  <2> QED
    BY <1>9, <2>1, <2>2
<1>11. SumOver(w, O) = SumOver(p, O)
  BY <1>9, <1>10, SumSame
<1>12. DOMAIN w = O
  BY <1>w DEF CountedOver
<1>13. SumFunction(w) = SumOver(w, O)
  BY <1>12, SumFunctionIs
<1> QED
  BY <1>2, <1>7, <1>8, <1>11, <1>13, <1>w

LEMMA StockSumFunctionIs == \A f : Stock!SumFunction(f) = SumOver(f, DOMAIN f)
BY StockSums DEF Stock!SumFunction

LEMMA AmountType ==
  ASSUME NEW lines \in Seq(Line), NEW part, NEW spare
  PROVE  Stock!Amount(lines, part, spare) \in Int
<1>s. PICK S : S = DOMAIN lines
  OBVIOUS
<1>p. PICK P : P = AmountAt(lines, part, spare)
  OBVIOUS
<1>1. P \in SUBSET S /\ Numbers(Quantities(lines), S)
  BY <1>p, <1>s, LinesAre, LinesNumbers DEF AmountAt
<1>2. SumOver(Quantities(lines), P) \in Int
  BY <1>1, SumPart
<1> QED
  BY <1>2, <1>p, AmountIs

Plain(c, owner) ==
  \A i, j \in DOMAIN c :
    c[i].owner = owner =>
      /\ c[i].contains = <<>>
      /\ c[j].owner = owner /\ i # j => c[i].version # c[j].version

(* The expansion of an owner that contains no other. *)
LEMMA PlainExpansion ==
  ASSUME NEW c, NEW q, NEW O, IsBom(c, q, O), Plain(c, q.owner), NEW part
  PROVE  PartTotal(Stock!BillOfMaterials(c, q).found, part) =
           IF IdOf(c, q.owner) = None THEN 0 ELSE Direct(LinesIn(c, q.owner), part, q.spares)
<1>r. PICK root : root = q.owner
  OBVIOUS
<1>e. PICK e : e = Stock!Expansion(c, q)
  OBVIOUS
<1>c. PICK call : call = RootCall(q)
  OBVIOUS
<1>1. Expands(c, q, O, e)
  BY <1>e, ExpansionIs
<1>2. Stock!BillOfMaterials(c, q) = e[call]
  BY <1>e, <1>c DEF Stock!BillOfMaterials, RootCall
<1>3. /\ call \in BomCalls(O) /\ call.owner = root /\ call.copies = 1 /\ call.path = <<>>
      /\ ~Inside(call)
  BY <1>c, <1>r, RootIs
<1>4. ExpandedTo(c, q, e, call, O, e[call])
  BY <1>1, <1>3 DEF Expands
<1>5. CASE IdOf(c, root) = None
  <2>1. e[call] = Stock!InventoryNotFound
    BY <1>3, <1>4, <1>5 DEF ExpandedTo
  <2>2. e[call].found = <<>>
    BY <2>1 DEF Stock!InventoryNotFound, Stock!Failed, Stock!Nothing
  <2> QED
    BY <1>2, <1>5, <1>r, <2>2, PartTotalEmpty
<1>6. CASE IdOf(c, root) # None
  <2>1. Opens(c, call)
    BY <1>3, <1>6 DEF Opens
  <2> PICK run, m : Running(c, q, O, e, call, run, m)
    BY <1>1, <1>3, <2>1, RunningIs
  <2>2. IdOf(c, root) \in DOMAIN c /\ c[IdOf(c, root)].owner = root
    BY <1>6, IdIs DEF Stock!LatestInventories
  <2>3. Contents(c, root) = <<>>
    BY <2>2, <1>r DEF Contents, Plain
  <2>4. m = 0
    BY <1>3, <2>3 DEF Running
  <2>5. e[call] = Own(c, q, call)
    BY <2>4 DEF Running
  <2>6. PartTotal(e[call].found, part) = 1 * Direct(LinesIn(c, root), part, q.spares)
    BY <1>3, <1>6, <2>5, OwnTyped
  <2>7. Direct(LinesIn(c, root), part, q.spares) \in Int
    <3>1. LinesIn(c, root) \in Seq(Line) /\ q.spares \in BOOLEAN
      BY <1>6, IdIs DEF Holds, IsBom
    <3> QED
      BY <3>1, DirectIs
  <2> QED
    BY <1>2, <1>6, <1>r, <2>6, <2>7
<1> QED
  BY <1>5, <1>6, <1>r

(* What is used in an owner all of whose inventories differ in version. *)
LEMMA PlainUsed ==
  ASSUME NEW c, NEW q, NEW O, IsBom(c, q, O), Plain(c, q.owner), NEW part, NEW spare
  PROVE  Stock!UsedIn(c, q.owner, part, spare) =
           IF IdOf(c, q.owner) = None THEN 0
           ELSE Stock!Amount(LinesIn(c, q.owner), part, spare)
<1>r. PICK root : root = q.owner
  OBVIOUS
<1>i. PICK ids : ids = Stock!LatestInventories(c, root)
  OBVIOUS
<1>f. PICK f : f = [i \in ids |-> Stock!Amount(c[i].lines, part, spare)]
  OBVIOUS
<1>1. Stock!UsedIn(c, root, part, spare) = Stock!SumFunction(f)
  BY <1>f, <1>i DEF Stock!UsedIn
<1>2. Stock!SumFunction(f) = SumOver(f, ids)
  BY <1>f, StockSumFunctionIs
<1>3. CASE IdOf(c, root) = None
  <2>1. ids = {}
    <3> SUFFICES ASSUME ids # {} PROVE FALSE
      OBVIOUS
    <3>1. ids \in SUBSET (DOMAIN c) /\ IsFiniteSet(DOMAIN c) /\ DOMAIN c \subseteq Int
          /\ None \notin Int
      BY <1>i DEF Stock!LatestInventories, IsBom, Stock!IsCatalog, IsFiniteSet, Stock!IsFiniteSet
    <3>2. IsFiniteSet(ids)
      BY <3>1, FS_Subset
    <3>3. Max(ids) \in ids
      BY <3>1, <3>2, MaxOf
    <3>4. IdOf(c, root) = Max(ids)
      BY <1>i, StockMaxIs DEF IdOf, Stock!LoadInventory, StockMax
    <3> QED
      BY <1>3, <3>1, <3>3, <3>4
  <2>2. SumOver(f, ids) = 0
    BY <2>1, SumEmpty
  <2> QED
    BY <1>1, <1>2, <1>3, <1>r, <2>2
<1>4. CASE IdOf(c, root) # None
  <2>d. PICK id : id = IdOf(c, root)
    OBVIOUS
  <2>1. id \in ids /\ LinesIn(c, root) \in Seq(Line) /\ LinesIn(c, root) = c[id].lines
    BY <1>4, <1>i, <2>d, IdIs DEF Holds, LinesIn
  <2>2. \A i \in ids : i = id
    <3> SUFFICES ASSUME NEW i \in ids, i # id PROVE FALSE
      OBVIOUS
    <3>1. /\ i \in DOMAIN c /\ c[i].owner = root /\ id \in DOMAIN c /\ c[id].owner = root
          /\ c[i].version <= c[id].version /\ c[id].version <= c[i].version
      BY <1>i, <2>1 DEF Stock!LatestInventories
    <3>2. c[i].version \in Nat /\ c[id].version \in Nat
      BY <3>1 DEF IsBom, Stock!IsCatalog
    <3>3. c[i].version = c[id].version
      BY <3>1, <3>2
    <3> QED
      BY <1>r, <3>1, <3>3 DEF Plain
  <2>3. f[id] = Stock!Amount(LinesIn(c, root), part, spare)
    BY <1>f, <2>1
  <2>4. Stock!Amount(LinesIn(c, root), part, spare) \in Int
    BY <2>1, AmountType
  <2>5. ids = {id} /\ IsFiniteSet({id})
    BY <2>1, <2>2, FS_Singleton
  <2>6. Numbers(f, ids)
    BY <2>3, <2>4, <2>5 DEF Numbers
  <2>7. \A y \in ids \ {id} : f[y] = 0
    BY <2>2
  <2>8. SumOver(f, ids) = f[id]
    BY <2>1, <2>6, <2>7, SumOne
  <2> QED
    BY <1>1, <1>2, <1>4, <1>r, <2>3, <2>8
<1> QED
  BY <1>3, <1>4, <1>r

(* BomCountsCopies, for a bill of materials and for the usage of a part.   *)
LEMMA UsageIs ==
  ASSUME NEW c, Stock!IsCatalog(c), NEW owner, Plain(c, owner), NEW part
  PROVE  Stock!UsedIn(c, owner, part, FALSE) + Stock!UsedIn(c, owner, part, TRUE) =
           PartTotal(Stock!BillOfMaterials(c, [owner |-> owner, spares |-> TRUE, strict |-> FALSE]).found,
                     part)
<1>q. PICK q : q = [owner |-> owner, spares |-> TRUE, strict |-> FALSE]
  OBVIOUS
<1>1. q.owner = owner /\ q.spares = TRUE /\ q.spares \in BOOLEAN /\ q.strict \in BOOLEAN
  BY <1>q
<1>o. PICK O : O = Stock!Owners(c) \cup {q.owner}
  OBVIOUS
<1>2. IsBom(c, q, O)
  BY <1>1, <1>o, QuestionIs
<1>3. Plain(c, q.owner)
  BY <1>1
<1>b. PICK b : b = PartTotal(Stock!BillOfMaterials(c, q).found, part)
  OBVIOUS
<1>4. b = IF IdOf(c, q.owner) = None THEN 0 ELSE Direct(LinesIn(c, q.owner), part, q.spares)
  BY <1>2, <1>3, <1>b, PlainExpansion
<1>5. \A spare : Stock!UsedIn(c, q.owner, part, spare) =
           IF IdOf(c, q.owner) = None THEN 0
           ELSE Stock!Amount(LinesIn(c, q.owner), part, spare)
  BY <1>2, <1>3, PlainUsed
<1>6. Stock!UsedIn(c, q.owner, part, FALSE) + Stock!UsedIn(c, q.owner, part, TRUE) = b
  <2>l. PICK lines : lines = LinesIn(c, q.owner)
    OBVIOUS
  <2>x. PICK x : x = Stock!UsedIn(c, q.owner, part, FALSE)
    OBVIOUS
  <2>y. PICK y : y = Stock!UsedIn(c, q.owner, part, TRUE)
    OBVIOUS
  <2>v. PICK v : v = Stock!Amount(lines, part, FALSE)
    OBVIOUS
  <2>w. PICK w : w = Stock!Amount(lines, part, TRUE)
    OBVIOUS
  <2>i. PICK id : id = IdOf(c, q.owner)
    OBVIOUS
  <2>1. x = (IF id = None THEN 0 ELSE v) /\ y = (IF id = None THEN 0 ELSE w)
    BY <1>5, <2>l, <2>x, <2>y, <2>v, <2>w, <2>i
  <2>2. Direct(lines, part, q.spares) = v + w
    BY <1>1, <2>v, <2>w DEF Direct
  <2>3. b = IF id = None THEN 0 ELSE v + w
    BY <1>4, <2>2, <2>i, <2>l
  <2>4. x + y = b
    BY <2>1, <2>3
  <2> QED
    BY <2>4, <2>x, <2>y
<1> QED
  BY <1>1, <1>6, <1>b, <1>q

(***************************************************************************)
(* A bill of materials counts each part as often as the sets and minifigs  *)
(* it is in are contained, and usage_stats counts in the inventories of an *)
(* owner what its expansion does (inventory.py, expand and its multiplier; *)
(* queries.py, usage_stats).                                               *)
(***************************************************************************)
THEOREM BomCountsCopiesAlways == Spec => []BomCountsCopies
<1>1. Asked => BomCountsCopies
  <2> SUFFICES ASSUME Asked PROVE BomCountsCopies
    OBVIOUS
  <2>c. PICK c : c = question.catalog
    OBVIOUS
  <2>1. ASSUME Answered("bom"), answer.error = None PROVE CopiesCounted
    <3>q. PICK q : q = question.query
      OBVIOUS
    <3>o. PICK O : O = Stock!Owners(c) \cup {q.owner}
      OBVIOUS
    <3>1. question \in BomQuestions /\ answer = BomAnswer
      BY <2>1 DEF Asked, Given, Answered
    <3>2. IsBom(c, q, O)
      <4>1. Stock!IsCatalog(c) /\ q.spares \in BOOLEAN /\ q.strict \in BOOLEAN
        BY <3>1, <2>c, <3>q, BomAssumption
      <4> QED
        BY <4>1, <3>o, QuestionIs
    <3>3. answer = Stock!BillOfMaterials(c, q)
      BY <3>1, <2>c, <3>q DEF BomAnswer
    <3>4. ASSUME NEW part PROVE PartTotal(answer.found, part) = SumFunction(CountedOver(c, q, part, O))
      <4>1. Stock!BillOfMaterials(c, q).error = None
        BY <2>1, <3>3
      <4>2. PartTotal(Stock!BillOfMaterials(c, q).found, part) = SumFunction(CountedOver(c, q, part, O))
        BY <3>2, <4>1, ExpansionCounts
      <4> QED
        BY <3>3, <4>2
    <3>5. ASSUME NEW part
          PROVE  PartTotal(answer.found, part) =
                   SumFunction(CountedOver(question.catalog, question.query, part,
                                           Stock!Owners(question.catalog) \cup {question.query.owner}))
      BY <3>4, <3>o, <3>q, <2>c
    <3> HIDE DEF PartTotal
    <3> QED
      BY <3>5 DEF CopiesCounted, PartTotal, CountedOver, Stock!Total
  <2>2. ASSUME Answered("usage") PROVE UsageCounted
    <3>p. PICK part : part = question.part
      OBVIOUS
    <3>w. PICK owner : owner = question.owner
      OBVIOUS
    <3>1. question \in UsageQuestions /\ answer = UsageAnswer
      BY <2>2 DEF Asked, Given, Answered
    <3>2. Stock!IsCatalog(c)
      BY <3>1, <2>c, BomAssumption
    <3>3. /\ answer.regular = Stock!UsedIn(c, owner, part, FALSE)
          /\ answer.spare = Stock!UsedIn(c, owner, part, TRUE)
      BY <3>1, <2>c, <3>p, <3>w DEF UsageAnswer
    <3>4. Plain(c, owner) =>
            answer.regular + answer.spare =
              PartTotal(Stock!BillOfMaterials(c, [owner |-> owner, spares |-> TRUE,
                                                  strict |-> FALSE]).found, part)
      BY <3>2, <3>3, UsageIs
    <3>5. Plain(question.catalog, question.owner) =>
            answer.regular + answer.spare =
              PartTotal(Stock!BillOfMaterials(question.catalog,
                          [owner |-> question.owner, spares |-> TRUE, strict |-> FALSE]).found,
                        question.part)
      BY <3>4, <2>c, <3>p, <3>w
    <3> QED
      BY <3>5 DEF UsageCounted, Plain, PartTotal, Stock!Total
  <2> QED
    BY <2>1, <2>2 DEF BomCountsCopies
<1> QED
  BY <1>1, AskedAlways, PTL
==============================================================================
