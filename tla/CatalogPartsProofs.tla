-------------------------- MODULE CatalogPartsProofs --------------------------
(***************************************************************************)
(* The items of files, the substitutes of a part and the validation of a   *)
(* bill of materials, for data of any size.                                *)
(*                                                                         *)
(* A fold over a sequence is a run over its numbers (FoldIs), and what it  *)
(* adds up is compared number by number (SumGrows).  The search for        *)
(* substitutes expands its candidates in the order of their distance: what *)
(* is nearer than a candidate was seen, and what is next to one that was   *)
(* expanded (Reached, PartExpanded).  Validation looks at the first ring   *)
(* of that search (NearbyFound).                                           *)
(***************************************************************************)
EXTENDS CatalogQueriesProofs

-----------------------------------------------------------------------------
FileMax == \A S : Files!Max(S) = Max(S)

LEMMA FilesMax == FileMax
BY DEF FileMax, Files!Max, Max

(* The quantities of a part and colour, item after item. *)
Counted(items, key, n, r) ==
  /\ r \in [0 .. n -> Int] /\ r[0] = 0
  /\ \A k \in 1 .. n : r[k] = IF Files!KeyOf(items[k]) = key
                                THEN r[k - 1] + items[k].quantity ELSE r[k - 1]
  /\ Files!QuantityOf(items, key) = r[n]

LEMMA CountedIs ==
  ASSUME NEW n \in Nat, NEW items, DOMAIN items = 1 .. n,
         \A k \in 1 .. n : items[k].quantity \in Int, NEW key
  PROVE  \E r : Counted(items, key, n, r)
<1> DEFINE Step(k, x) == IF Files!KeyOf(items[k]) = key THEN x + items[k].quantity ELSE x
           step == [k \in 1 .. n |-> [x \in Int |-> Step(k, x)]]
           Equation(iter) ==
             iter = [s \in SUBSET (DOMAIN items) |->
                       IF s = {} THEN 0
                       ELSE Step(Files!Max(s), iter[s \ {Files!Max(s)}])]
<1>1. step \in [1 .. n -> [Int -> Int]] /\ 0 \in Int
  OBVIOUS
<1>2. ASSUME NEW k \in 1 .. n, NEW x \in Int PROVE step[k][x] = Step(k, x)
  OBVIOUS
<1> HIDE DEF step
<1> PICK g \in [SUBSET (1 .. n) -> Int] : Folds(Int, 0, step, n, g)
  BY <1>1, FoldExists
<1>3. Equation(g)
  <2>1. ASSUME NEW s \in SUBSET (1 .. n), s # {}
        PROVE  g[s] = Step(Files!Max(s), g[s \ {Files!Max(s)}])
    <3> PICK x : x = Max(s)
      OBVIOUS
    <3>1. x \in 1 .. n
      BY <2>1, MaxIs
    <3>2. g[s] = step[x][g[s \ {x}]] /\ g[s \ {x}] \in Int
      BY <2>1 DEF Folds
    <3>3. Files!Max(s) = x
      BY FilesMax DEF FileMax
    <3> HIDE DEF Step
    <3> QED
      BY <1>2, <3>1, <3>2, <3>3
  <2>2. g[{}] = 0 /\ g = [s \in SUBSET (1 .. n) |-> g[s]]
    BY DEF Folds
  <2> HIDE DEF Step
  <2> QED
    BY <2>1, <2>2
<1>i. PICK iter : iter = CHOOSE f : Equation(f)
  OBVIOUS
<1>4. Equation(iter)
  BY <1>3, <1>i
<1>5. Files!QuantityOf(items, key) = iter[DOMAIN items]
  BY <1>i DEF Files!QuantityOf, Files!FoldLeft, Files!MapThenFoldSet
<1>6. RunTo(Int, 0, step, n, iter[1 .. n])
  <2>1. iter[{}] = 0
    BY <1>4
  <2>2. ASSUME NEW s \in SUBSET (1 .. n), s # {}, iter[s \ {Max(s)}] \in Int
        PROVE  iter[s] = step[Max(s)][iter[s \ {Max(s)}]]
    <3> PICK x : x = Max(s)
      OBVIOUS
    <3>1. x \in 1 .. n
      BY <2>2, MaxIs
    <3>2. Files!Max(s) = x
      BY FilesMax DEF FileMax
    <3>3. iter[s] = Step(Files!Max(s), iter[s \ {Files!Max(s)}])
      BY <1>4, <2>2
    <3> HIDE DEF Step, Equation
    <3> QED
      BY <1>2, <2>2, <3>1, <3>2, <3>3
  <2> HIDE DEF Step, Equation
  <2>3. FoldsFrom(Int, 0, step, n, iter)
    BY <2>1, <2>2 DEF FoldsFrom
  <2> QED
    BY <1>1, <2>3, FoldIs
<1> PICK run : FoldRun(Int, 0, step, n, run) /\ run[n] = iter[1 .. n]
  BY <1>6 DEF RunTo
<1>7. ASSUME NEW k \in 1 .. n PROVE run[k] = Step(k, run[k - 1])
  <2>1. run[k] = step[k][run[k - 1]] /\ run[k - 1] \in Int
    BY DEF FoldRun
  <2> HIDE DEF Step
  <2> QED
    BY <1>2, <2>1
<1>8. Files!QuantityOf(items, key) = run[n]
  BY <1>5
<1>9. Counted(items, key, n, run)
  BY <1>7, <1>8 DEF Counted, FoldRun
<1> QED
  BY <1>9

(* The quantities of all items. *)
LEMMA TotalIs ==
  ASSUME NEW n \in Nat, NEW items, DOMAIN items = 1 .. n,
         \A k \in 1 .. n : items[k].quantity \in Int
  PROVE  \E r : Sums(r, [k \in 1 .. n |-> items[k].quantity], n)
                /\ Files!TotalQuantity(items) = r[n]
<1> DEFINE Step(k, x) == x + items[k].quantity
           step == [k \in 1 .. n |-> [x \in Int |-> Step(k, x)]]
           Equation(iter) ==
             iter = [s \in SUBSET (DOMAIN items) |->
                       IF s = {} THEN 0
                       ELSE Step(Files!Max(s), iter[s \ {Files!Max(s)}])]
<1>1. step \in [1 .. n -> [Int -> Int]] /\ 0 \in Int
  OBVIOUS
<1>2. ASSUME NEW k \in 1 .. n, NEW x \in Int PROVE step[k][x] = Step(k, x)
  OBVIOUS
<1> HIDE DEF step
<1> PICK g \in [SUBSET (1 .. n) -> Int] : Folds(Int, 0, step, n, g)
  BY <1>1, FoldExists
<1>3. Equation(g)
  <2>1. ASSUME NEW s \in SUBSET (1 .. n), s # {}
        PROVE  g[s] = Step(Files!Max(s), g[s \ {Files!Max(s)}])
    <3> PICK x : x = Max(s)
      OBVIOUS
    <3>1. x \in 1 .. n
      BY <2>1, MaxIs
    <3>2. g[s] = step[x][g[s \ {x}]] /\ g[s \ {x}] \in Int
      BY <2>1 DEF Folds
    <3>3. Files!Max(s) = x
      BY FilesMax DEF FileMax
    <3> HIDE DEF Step
    <3> QED
      BY <1>2, <3>1, <3>2, <3>3
  <2>2. g[{}] = 0 /\ g = [s \in SUBSET (1 .. n) |-> g[s]]
    BY DEF Folds
  <2> HIDE DEF Step
  <2> QED
    BY <2>1, <2>2
<1>i. PICK iter : iter = CHOOSE f : Equation(f)
  OBVIOUS
<1>4. Equation(iter)
  BY <1>3, <1>i
<1>5. Files!TotalQuantity(items) = iter[DOMAIN items]
  BY <1>i DEF Files!TotalQuantity, Files!FoldLeft, Files!MapThenFoldSet
<1>6. RunTo(Int, 0, step, n, iter[1 .. n])
  <2>1. iter[{}] = 0
    BY <1>4
  <2>2. ASSUME NEW s \in SUBSET (1 .. n), s # {}, iter[s \ {Max(s)}] \in Int
        PROVE  iter[s] = step[Max(s)][iter[s \ {Max(s)}]]
    <3> PICK x : x = Max(s)
      OBVIOUS
    <3>1. x \in 1 .. n
      BY <2>2, MaxIs
    <3>2. Files!Max(s) = x
      BY FilesMax DEF FileMax
    <3>3. iter[s] = Step(Files!Max(s), iter[s \ {Files!Max(s)}])
      BY <1>4, <2>2
    <3> HIDE DEF Step, Equation
    <3> QED
      BY <1>2, <2>2, <3>1, <3>2, <3>3
  <2> HIDE DEF Step, Equation
  <2>3. FoldsFrom(Int, 0, step, n, iter)
    BY <2>1, <2>2 DEF FoldsFrom
  <2> QED
    BY <1>1, <2>3, FoldIs
<1> PICK run : FoldRun(Int, 0, step, n, run) /\ run[n] = iter[1 .. n]
  BY <1>6 DEF RunTo
<1>7. ASSUME NEW k \in 1 .. n PROVE run[k] = Step(k, run[k - 1])
  <2>1. run[k] = step[k][run[k - 1]] /\ run[k - 1] \in Int
    BY DEF FoldRun
  <2> HIDE DEF Step
  <2> QED
    BY <1>2, <2>1
<1>8. Files!TotalQuantity(items) = run[n]
  BY <1>5
<1>9. Sums(run, [k \in 1 .. n |-> items[k].quantity], n)
  BY <1>7 DEF Sums, FoldRun
<1> QED
  BY <1>8, <1>9

-----------------------------------------------------------------------------
SystemNames == Files!ToSet(Files!Systems)
KeySet == (SystemNames \X Int) \X (SystemNames \X Int)

LEMMA ItemsAre ==
  ASSUME NEW items, Files!IsItems(items), NEW n, n = Len(items)
  PROVE  /\ n \in Nat /\ DOMAIN items = 1 .. n
         /\ \A k \in 1 .. n : /\ items[k].quantity \in Nat \ {0}
                              /\ Files!KeyOf(items[k]) \in KeySet
                              /\ items[k] = Files!Item(Files!KeyOf(items[k]), items[k].quantity)
<1>d. PICK D : D = [part : SystemNames \X Int, color : SystemNames \X Int, quantity : Nat \ {0}]
  OBVIOUS
<1>1. items \in Seq(D)
  BY <1>d DEF Files!IsItems, SystemNames
<1>2. n \in Nat /\ DOMAIN items = 1 .. n /\ \A k \in 1 .. n : items[k] \in D
  BY <1>1, LenProperties, ElementOfSeq
<1>3. ASSUME NEW x \in D
      PROVE  /\ x.quantity \in Nat \ {0} /\ Files!KeyOf(x) \in KeySet
             /\ x = Files!Item(Files!KeyOf(x), x.quantity)
  BY <1>d DEF Files!KeyOf, Files!Item, KeySet
<1> QED
  BY <1>2, <1>3

LEMMA OrderIs ==
  ASSUME NEW a \in SystemNames, NEW b \in SystemNames
  PROVE  Files!Order(a) \in Int /\ (Files!Order(a) = Files!Order(b) => a = b)
<1>1. DOMAIN Files!Systems = 1 .. 5
  BY DEF Files!Systems
<1>2. ASSUME NEW x \in SystemNames
      PROVE  Files!Order(x) \in 1 .. 5 /\ Files!Systems[Files!Order(x)] = x
  <2>1. \E i \in DOMAIN Files!Systems : Files!Systems[i] = x
    BY DEF SystemNames, Files!ToSet
  <2> QED
    BY <1>1, <2>1 DEF Files!Order
<1> QED
  BY <1>2

(* The order of the keys, one component after the other. *)
LEMMA BeforeIs ==
  ASSUME NEW a \in KeySet, NEW b \in KeySet,
         NEW a1, a1 = Files!Order(a[1][1]), NEW a2, a2 = a[1][2],
         NEW a3, a3 = Files!Order(a[2][1]), NEW a4, a4 = a[2][2],
         NEW b1, b1 = Files!Order(b[1][1]), NEW b2, b2 = b[1][2],
         NEW b3, b3 = Files!Order(b[2][1]), NEW b4, b4 = b[2][2]
  PROVE  Files!KeyBefore(a, b) <=>
           \/ a1 < b1 \/ (a1 = b1 /\ a2 < b2) \/ (a1 = b1 /\ a2 = b2 /\ a3 < b3)
           \/ (a1 = b1 /\ a2 = b2 /\ a3 = b3 /\ a4 < b4)
<1>u. PICK u : u = <<a1, a2, a3, a4>>
  OBVIOUS
<1>v. PICK v : v = <<b1, b2, b3, b4>>
  OBVIOUS
<1>1. Files!KeyBefore(a, b) <=>
        \E i \in 1 .. 4 : u[i] < v[i] /\ \A j \in 1 .. (i - 1) : u[j] = v[j]
  BY <1>u, <1>v DEF Files!KeyBefore
<1>2. /\ u[1] = a1 /\ u[2] = a2 /\ u[3] = a3 /\ u[4] = a4
      /\ v[1] = b1 /\ v[2] = b2 /\ v[3] = b3 /\ v[4] = b4
  BY <1>u, <1>v
<1>3. /\ 1 .. 4 = {1, 2, 3, 4} /\ 1 .. (1 - 1) = {} /\ 1 .. (2 - 1) = {1}
      /\ 1 .. (3 - 1) = {1, 2} /\ 1 .. (4 - 1) = {1, 2, 3}
  OBVIOUS
<1> QED
  BY <1>1, <1>2, <1>3

(* Sorted lists a finite set of keys. *)
SortedBy(S) == {p \in S \X S : Files!KeyBefore(p[1], p[2])}

LEMMA KeysOrdered ==
  ASSUME NEW S \in SUBSET KeySet
  PROVE  StrictOrder(S, SortedBy(S))
<1> PICK R : R = SortedBy(S)
  OBVIOUS
<1>1. \A x, y \in S : <<x, y>> \in R <=> Files!KeyBefore(x, y)
  BY DEF SortedBy
<1>2. ASSUME NEW x \in S
      PROVE  Files!Order(x[1][1]) \in Int /\ x[1][2] \in Int
             /\ Files!Order(x[2][1]) \in Int /\ x[2][2] \in Int
  BY OrderIs DEF KeySet
<1>3. ASSUME NEW x \in S, NEW y \in S,
             Files!Order(x[1][1]) = Files!Order(y[1][1]), x[1][2] = y[1][2],
             Files!Order(x[2][1]) = Files!Order(y[2][1]), x[2][2] = y[2][2]
      PROVE  x = y
  <2>1. x[1][1] = y[1][1] /\ x[2][1] = y[2][1]
    BY <1>3, OrderIs DEF KeySet
  <2> QED
    BY <1>3, <2>1 DEF KeySet
<1>4. ASSUME NEW x \in S PROVE <<x, x>> \notin R
  BY <1>1, <1>2, BeforeIs
<1>5. ASSUME NEW x \in S, NEW y \in S, x # y PROVE <<x, y>> \in R \/ <<y, x>> \in R
  <2>1. \/ Files!Order(x[1][1]) # Files!Order(y[1][1]) \/ x[1][2] # y[1][2]
        \/ Files!Order(x[2][1]) # Files!Order(y[2][1]) \/ x[2][2] # y[2][2]
    BY <1>3, <1>5
  <2>2. Files!KeyBefore(x, y) \/ Files!KeyBefore(y, x)
    BY <1>2, <2>1, BeforeIs
  <2> QED
    BY <1>1, <2>2
<1>6. ASSUME NEW x \in S, NEW y \in S, NEW z \in S, <<x, y>> \in R, <<y, z>> \in R
      PROVE  <<x, z>> \in R
  BY <1>1, <1>2, <1>6, BeforeIs
<1> QED
  BY <1>4, <1>5, <1>6 DEF StrictOrder

LEMMA SortedIs ==
  ASSUME NEW S \in SUBSET KeySet, IsFiniteSet(S)
  PROVE  Cardinality(S) \in Nat /\ Lists(Files!Sorted(S), S, SortedBy(S))
<1> PICK R : R = SortedBy(S)
  OBVIOUS
<1> PICK n : n = Cardinality(S)
  OBVIOUS
<1>1. \A T : Files!Cardinality(T) = Cardinality(T)
  BY DEF Files!Cardinality, Cardinality
<1> PICK f : f = Files!Sorted(S)
  OBVIOUS
<1>2. StrictOrder(S, R)
  BY KeysOrdered
<1>3. f = [i \in 1 .. Files!Cardinality(S) |->
             CHOOSE x \in S : Files!Cardinality({y \in S : Files!KeyBefore(y, x)}) = i - 1]
  BY DEF Files!Sorted, Files!Ordered
<1>4. ASSUME NEW x \in S
      PROVE  Files!Cardinality({y \in S : Files!KeyBefore(y, x)})
               = Cardinality(Predecessors(S, R, x))
  <2>1. {y \in S : Files!KeyBefore(y, x)} = Predecessors(S, R, x)
    BY DEF Predecessors, SortedBy
  <2> QED
    BY <1>1, <2>1
<1>5. n \in Nat /\ Files!Cardinality(S) = n
  BY <1>1, FS_CardinalityType
<1>6. ASSUME NEW i \in 1 .. n
      PROVE  f[i] \in S /\ Cardinality(Predecessors(S, R, f[i])) = i - 1
  <2>1. \E x \in S : Files!Cardinality({y \in S : Files!KeyBefore(y, x)}) = i - 1
    BY <1>2, <1>4, PlaceTaken
  <2>2. f[i] \in S /\ Files!Cardinality({y \in S : Files!KeyBefore(y, f[i])}) = i - 1
    BY <1>3, <1>5, <2>1
  <2> QED
    BY <1>4, <2>2
<1>7. f \in [1 .. n -> S]
  BY <1>3, <1>5, <1>6
<1> QED
  BY <1>2, <1>5, <1>6, <1>7, ListIs

(* There is only one such list. *)
LEMMA ListUnique ==
  ASSUME NEW S, IsFiniteSet(S), NEW R, StrictOrder(S, R),
         NEW f, Lists(f, S, R), NEW g, Lists(g, S, R)
  PROVE  f = g
<1> PICK n : n = Cardinality(S)
  OBVIOUS
<1>1. f \in [1 .. n -> S] /\ g \in [1 .. n -> S] /\ n \in Nat
  BY FS_CardinalityType DEF Lists
<1>2. ASSUME NEW i \in 1 .. n PROVE f[i] = g[i]
  <2>1. f[i] \in S /\ g[i] \in S
    BY <1>1
  <2>2. Cardinality(Predecessors(S, R, f[i])) = i - 1
        /\ Cardinality(Predecessors(S, R, g[i])) = i - 1
    BY DEF Lists
  <2>3. ~(<<f[i], g[i]>> \in R) /\ ~(<<g[i], f[i]>> \in R)
    BY <1>1, <2>1, <2>2, PredecessorsGrow
  <2> QED
    BY <2>1, <2>3 DEF StrictOrder
<1> QED
  BY <1>1, <1>2

LEMMA OneTo ==
  ASSUME NEW n \in Nat
  PROVE  IsFiniteSet(1 .. n) /\ Cardinality(1 .. n) = n
BY FS_Interval

LEMMA KeysAre ==
  ASSUME NEW items, Files!IsItems(items), NEW n, n = Len(items)
  PROVE  /\ Files!Keys(items) \in SUBSET KeySet /\ IsFiniteSet(Files!Keys(items))
         /\ Cardinality(Files!Keys(items)) <= n
         /\ [k \in 1 .. n |-> Files!KeyOf(items[k])]
              \in Surjection(1 .. n, Files!Keys(items))
<1> PICK S : S = Files!Keys(items)
  OBVIOUS
<1> PICK f : f = [k \in 1 .. n |-> Files!KeyOf(items[k])]
  OBVIOUS
<1>1. n \in Nat /\ DOMAIN items = 1 .. n /\ \A k \in 1 .. n : Files!KeyOf(items[k]) \in KeySet
  BY ItemsAre
<1>2. S = {Files!KeyOf(items[k]) : k \in 1 .. n}
  BY <1>1 DEF Files!Keys
<1>3. f \in [1 .. n -> S] /\ \A x \in S : \E k \in 1 .. n : f[k] = x
  BY <1>2
<1>4. f \in Surjection(1 .. n, S)
  BY <1>3 DEF Surjection
<1>5. IsFiniteSet(1 .. n) /\ Cardinality(1 .. n) = n
  BY <1>1, OneTo
<1>6. IsFiniteSet(S) /\ Cardinality(S) <= n
  BY <1>4, <1>5, FS_Surjection
<1>7. S \in SUBSET KeySet
  BY <1>1, <1>2
<1> QED
  BY <1>4, <1>6, <1>7

-----------------------------------------------------------------------------
(* The quantity of a part and colour that is there, or is not. *)
LEMMA QuantityIs ==
  ASSUME NEW items, Files!IsItems(items), NEW key, NEW q, q = Files!QuantityOf(items, key)
  PROVE  /\ q \in Nat
         /\ key \in Files!Keys(items) => q # 0
         /\ key \notin Files!Keys(items) => q = 0
<1> PICK n : n = Len(items)
  OBVIOUS
<1>1. /\ n \in Nat /\ DOMAIN items = 1 .. n
      /\ \A k \in 1 .. n : items[k].quantity \in Nat \ {0}
  BY ItemsAre
<1>i. \A k \in 1 .. n : items[k].quantity \in Int
  BY <1>1
<1>2. \E r : Counted(items, key, n, r)
  BY <1>1, <1>i, CountedIs
<1> PICK r : Counted(items, key, n, r)
  BY <1>2
<1>3. /\ r[0] = 0 /\ q = r[n]
      /\ \A k \in 1 .. n : r[k] = IF Files!KeyOf(items[k]) = key
                                    THEN r[k - 1] + items[k].quantity ELSE r[k - 1]
  BY DEF Counted
<1> DEFINE Seen(k) == \E i \in 1 .. k : Files!KeyOf(items[i]) = key
           T == {k \in Nat : k <= n => r[k] \in Nat /\ (r[k] # 0 <=> Seen(k))}
<1>4. 0 \in T
  BY <1>3
<1>5. ASSUME NEW k \in Nat, k \in T PROVE k + 1 \in T
  <2> SUFFICES ASSUME k + 1 <= n PROVE r[k + 1] \in Nat /\ (r[k + 1] # 0 <=> Seen(k + 1))
    OBVIOUS
  <2>j. PICK j : j = k + 1
    OBVIOUS
  <2>1. j \in 1 .. n /\ j - 1 = k /\ 1 .. j = (1 .. k) \cup {j}
    BY <2>j
  <2>2. r[k] \in Nat /\ (r[k] # 0 <=> Seen(k))
    BY <1>5
  <2>3. Seen(j) <=> Seen(k) \/ Files!KeyOf(items[j]) = key
    BY <2>1
  <2>4. r[j] = IF Files!KeyOf(items[j]) = key THEN r[k] + items[j].quantity ELSE r[k]
    BY <1>3, <2>1
  <2>5. items[j].quantity \in Nat \ {0}
    BY <1>1, <2>1
  <2> HIDE DEF Seen
  <2>6. r[j] \in Nat /\ (r[j] # 0 <=> Seen(j))
    BY <2>2, <2>3, <2>4, <2>5
  <2> QED
    BY <2>j, <2>6
<1> HIDE DEF T
<1>6. n \in T
  BY <1>1, <1>4, <1>5, Induct
<1>7. key \in Files!Keys(items) <=> Seen(n)
  BY <1>1 DEF Files!Keys
<1> QED
  BY <1>1, <1>3, <1>6, <1>7 DEF T

LEMMA QuantityOfOne ==
  ASSUME NEW items, Files!IsItems(items), NEW i \in DOMAIN items,
         \A j \in DOMAIN items : j # i => Files!KeyOf(items[j]) # Files!KeyOf(items[i])
  PROVE  Files!QuantityOf(items, Files!KeyOf(items[i])) = items[i].quantity
<1> PICK n : n = Len(items)
  OBVIOUS
<1> PICK key : key = Files!KeyOf(items[i])
  OBVIOUS
<1>1. /\ n \in Nat /\ DOMAIN items = 1 .. n
      /\ \A k \in 1 .. n : items[k].quantity \in Nat \ {0}
  BY ItemsAre
<1>i. \A k \in 1 .. n : items[k].quantity \in Int
  BY <1>1
<1>2. \E r : Counted(items, key, n, r)
  BY <1>1, <1>i, CountedIs
<1> PICK r : Counted(items, key, n, r)
  BY <1>2
<1>3. /\ r[0] = 0 /\ Files!QuantityOf(items, key) = r[n]
      /\ \A k \in 1 .. n : r[k] = IF Files!KeyOf(items[k]) = key
                                    THEN r[k - 1] + items[k].quantity ELSE r[k - 1]
  BY DEF Counted
<1> DEFINE T == {k \in Nat : k <= n => r[k] = IF k < i THEN 0 ELSE items[i].quantity}
<1>4. 0 \in T
  BY <1>1, <1>3
<1>5. ASSUME NEW k \in Nat, k \in T PROVE k + 1 \in T
  <2> SUFFICES ASSUME k + 1 <= n
               PROVE  r[k + 1] = IF k + 1 < i THEN 0 ELSE items[i].quantity
    OBVIOUS
  <2>j. PICK j : j = k + 1
    OBVIOUS
  <2>1. j \in 1 .. n /\ j - 1 = k /\ i \in 1 .. n
    BY <1>1, <2>j
  <2>2. r[k] = IF k < i THEN 0 ELSE items[i].quantity
    BY <1>5, <2>1
  <2>3. r[j] = IF Files!KeyOf(items[j]) = key THEN r[k] + items[j].quantity ELSE r[k]
    BY <1>3, <2>1
  <2>4. CASE j = i
    BY <1>1, <2>j, <2>1, <2>2, <2>3, <2>4
  <2>5. CASE j # i
    <3>1. Files!KeyOf(items[j]) # key
      BY <1>1, <2>1, <2>5
    <3>2. k < i <=> j < i
      BY <2>j, <2>1, <2>5
    <3> QED
      BY <2>j, <2>2, <2>3, <3>1, <3>2
  <2> QED
    BY <2>4, <2>5
<1> HIDE DEF T
<1>6. n \in T
  BY <1>1, <1>4, <1>5, Induct
<1>7. ~(n < i) /\ n <= n
  BY <1>1
<1> QED
  BY <1>3, <1>6, <1>7 DEF T

LEMMA NormalizeIs ==
  ASSUME NEW rows, Files!IsItems(rows), NEW S, S = Files!Keys(rows),
         NEW keys, keys = Files!Sorted(S), NEW items, items = Files!Normalize(rows).items,
         NEW m, m = Cardinality(S)
  PROVE  /\ m \in Nat /\ IsFiniteSet(S) /\ S \in SUBSET KeySet /\ Lists(keys, S, SortedBy(S))
         /\ Files!IsItems(items) /\ Len(items) = m /\ DOMAIN items = 1 .. m
         /\ \A i \in 1 .. m : /\ Files!KeyOf(items[i]) = keys[i]
                              /\ items[i].quantity = Files!QuantityOf(rows, keys[i])
<1>1. IsFiniteSet(S) /\ S \in SUBSET KeySet
  BY KeysAre
<1>2. m \in Nat /\ Lists(keys, S, SortedBy(S))
  BY <1>1, SortedIs
<1>3. keys \in [1 .. m -> S] /\ DOMAIN keys = 1 .. m
  BY <1>2 DEF Lists
<1>4. items = [i \in DOMAIN keys |-> Files!Item(keys[i], Files!QuantityOf(rows, keys[i]))]
  BY DEF Files!Normalize, Files!RowQuantity
<1>d. PICK D : D = [part : SystemNames \X Int, color : SystemNames \X Int, quantity : Nat \ {0}]
  OBVIOUS
<1>5. ASSUME NEW key \in KeySet, NEW q \in Nat \ {0}
      PROVE  /\ Files!Item(key, q) \in D /\ Files!KeyOf(Files!Item(key, q)) = key
             /\ Files!Item(key, q).quantity = q
  BY <1>d DEF Files!Item, Files!KeyOf, KeySet
<1>6. ASSUME NEW i \in 1 .. m
      PROVE  /\ items[i] \in D /\ Files!KeyOf(items[i]) = keys[i]
             /\ items[i].quantity = Files!QuantityOf(rows, keys[i])
  <2>1. keys[i] \in S /\ keys[i] \in KeySet
    BY <1>1, <1>3
  <2>2. Files!QuantityOf(rows, keys[i]) \in Nat \ {0}
    BY <2>1, QuantityIs
  <2>3. items[i] = Files!Item(keys[i], Files!QuantityOf(rows, keys[i]))
    BY <1>3, <1>4
  <2> QED
    BY <1>5, <2>1, <2>2, <2>3
<1>7. items \in [1 .. m -> D]
  BY <1>3, <1>4, <1>6
<1>8. items \in Seq(D) /\ Len(items) = m /\ DOMAIN items = 1 .. m
  BY <1>2, <1>7, SequenceOf
<1>9. Files!IsItems(items)
  BY <1>d, <1>8 DEF Files!IsItems, SystemNames
<1> QED
  BY <1>1, <1>2, <1>6, <1>8, <1>9

(* Key after key the quantities are those of the rows. *)
LEMMA TotalKept ==
  ASSUME NEW rows, Files!IsItems(rows)
  PROVE  Files!TotalQuantity(Files!Normalize(rows).items) = Files!TotalQuantity(rows)
<1> PICK n : n = Len(rows)
  OBVIOUS
<1> PICK S : S = Files!Keys(rows)
  OBVIOUS
<1> PICK keys : keys = Files!Sorted(S)
  OBVIOUS
<1> PICK items : items = Files!Normalize(rows).items
  OBVIOUS
<1> PICK m : m = Cardinality(S)
  OBVIOUS
<1>1. /\ n \in Nat /\ DOMAIN rows = 1 .. n
      /\ \A k \in 1 .. n : rows[k].quantity \in Nat \ {0}
  BY ItemsAre
<1>2. /\ m \in Nat /\ Lists(keys, S, SortedBy(S)) /\ DOMAIN items = 1 .. m
      /\ \A i \in 1 .. m : items[i].quantity = Files!QuantityOf(rows, keys[i])
  BY NormalizeIs
<1>3. /\ keys \in [1 .. m -> S] /\ \A x \in S : \E i \in 1 .. m : keys[i] = x
      /\ \A i, j \in 1 .. m : keys[i] = keys[j] => i = j
  <2>1. keys \in [1 .. m -> S] /\ \A x \in S : \E i \in 1 .. m : keys[i] = x
    BY <1>2 DEF Lists
  <2>2. ASSUME NEW i \in 1 .. m, NEW j \in 1 .. m, keys[i] = keys[j] PROVE i = j
    <3>1. Cardinality(Predecessors(S, SortedBy(S), keys[i])) = i - 1
          /\ Cardinality(Predecessors(S, SortedBy(S), keys[j])) = j - 1
      BY <1>2 DEF Lists
    <3> QED
      BY <1>2, <2>2, <3>1
  <2> QED
    BY <2>1, <2>2
<1>i. \A k \in 1 .. n : rows[k].quantity \in Int
  BY <1>1
<1>4. \A key : \E r : Counted(rows, key, n, r)
  BY <1>1, <1>i, CountedIs
<1> DEFINE run == [i \in 1 .. m |-> CHOOSE r : Counted(rows, keys[i], n, r)]
           amounts(k) == [i \in 1 .. m |-> run[i][k]]
<1>5. ASSUME NEW i \in 1 .. m
      PROVE  /\ \A k \in 0 .. n : run[i][k] \in Int
             /\ run[i][0] = 0 /\ run[i][n] = Files!QuantityOf(rows, keys[i])
             /\ \A k \in 1 .. n : run[i][k] = IF Files!KeyOf(rows[k]) = keys[i]
                                    THEN run[i][k - 1] + rows[k].quantity ELSE run[i][k - 1]
  <2> PICK r : r = run[i]
    OBVIOUS
  <2>1. Counted(rows, keys[i], n, r)
    BY <1>4
  <2> HIDE DEF run
  <2> QED
    BY <2>1 DEF Counted
<1> HIDE DEF run
<1>6. \E r : Sums(r, [k \in 1 .. n |-> rows[k].quantity], n) /\ Files!TotalQuantity(rows) = r[n]
  BY <1>1, <1>i, TotalIs
<1> PICK total : /\ Sums(total, [k \in 1 .. n |-> rows[k].quantity], n)
                 /\ Files!TotalQuantity(rows) = total[n]
  BY <1>6
<1>7. total[0] = 0 /\ \A k \in 1 .. n : total[k] = total[k - 1] + rows[k].quantity
  BY DEF Sums
<1> DEFINE T == {k \in Nat : k <= n => \A s : Sums(s, amounts(k), m) => s[m] = total[k]}
<1>8. 0 \in T
  <2> SUFFICES ASSUME NEW s, Sums(s, amounts(0), m) PROVE s[m] = total[0]
    OBVIOUS
  <2> PICK a : a = amounts(0)
    OBVIOUS
  <2>1. \A i \in 1 .. m : a[i] = 0
    BY <1>5
  <2>2. s[m] = 0
    BY <1>2, <2>1, SumOfZeros
  <2> QED
    BY <1>7, <2>2
<1>9. ASSUME NEW k \in Nat, k \in T PROVE k + 1 \in T
  <2> SUFFICES ASSUME k + 1 <= n, NEW t, Sums(t, amounts(k + 1), m) PROVE t[m] = total[k + 1]
    OBVIOUS
  <2>l. PICK l : l = k + 1
    OBVIOUS
  <2>1. l \in 1 .. n /\ l - 1 = k /\ k \in 0 .. n
    BY <2>l
  <2>a. PICK a : a = amounts(k)
    OBVIOUS
  <2>b. PICK b : b = amounts(l)
    OBVIOUS
  <2>q. PICK q : q = rows[l].quantity
    OBVIOUS
  <2>2. \A i \in 1 .. m : a[i] = run[i][k] /\ b[i] = run[i][l]
    BY <2>a, <2>b
  <2>3. \A i \in 1 .. m : a[i] \in Int
    BY <1>5, <2>1, <2>2
  <2>4. a \in [1 .. m -> Int]
    BY <2>3, <2>a
  <2>5. \E s : Sums(s, a, m)
    BY <1>2, <2>4, SumsExist
  <2> PICK s : Sums(s, a, m)
    BY <2>5
  <2>6. s[m] = total[k]
    BY <1>9, <2>a, <2>1
  <2>7. Files!KeyOf(rows[l]) \in S
    BY <1>1, <2>1 DEF Files!Keys
  <2> PICK j \in 1 .. m : keys[j] = Files!KeyOf(rows[l])
    BY <1>3, <2>7
  <2>8. b[j] = a[j] + q
    BY <1>5, <2>1, <2>2, <2>q
  <2>9. ASSUME NEW i \in 1 .. m, i # j PROVE b[i] = a[i]
    <3>1. keys[i] # Files!KeyOf(rows[l])
      BY <1>3, <2>9
    <3> QED
      BY <1>5, <2>1, <2>2, <3>1
  <2>10. q \in Int /\ Sums(t, b, m)
    BY <1>1, <2>1, <2>l, <2>b, <2>q
  <2>11. Sums(s, a, m) /\ m \in Nat /\ j \in 1 .. m
    BY <1>2
  <2>12. t[m] = s[m] + q
    BY <2>3, <2>8, <2>9, <2>10, <2>11, SumGrows
  <2>13. total[l] = total[k] + q
    BY <1>7, <2>1, <2>q
  <2> QED
    BY <2>l, <2>6, <2>12, <2>13
<1> HIDE DEF T
<1>10. n \in T
  BY <1>1, <1>8, <1>9, Induct
<1>11. \A i \in 1 .. m : items[i].quantity \in Int
  <2>1. 0 \in 0 .. n /\ n \in 0 .. n
    BY <1>1
  <2> QED
    BY <1>2, <1>5, <2>1
<1>12. \E r : Sums(r, [i \in 1 .. m |-> items[i].quantity], m) /\ Files!TotalQuantity(items) = r[m]
  BY <1>2, <1>11, TotalIs
<1> PICK r : Sums(r, [i \in 1 .. m |-> items[i].quantity], m) /\ Files!TotalQuantity(items) = r[m]
  BY <1>12
<1>13. [i \in 1 .. m |-> items[i].quantity] = amounts(n)
  BY <1>2, <1>5
<1>14. Sums(r, amounts(n), m)
  BY <1>13
<1>15. r[m] = total[n]
  BY <1>1, <1>10, <1>14 DEF T
<1> QED
  BY <1>15

-----------------------------------------------------------------------------
LEMMA MoreThanOne ==
  ASSUME NEW T, IsFiniteSet(T)
  PROVE  /\ Cardinality(T) \in Nat
         /\ Cardinality(T) > 1 <=> \E x, y \in T : x # y
         /\ Cardinality(T) = 0 <=> T = {}
<1>1. Cardinality(T) \in Nat /\ (Cardinality(T) = 0 <=> T = {})
  BY FS_CardinalityType, FS_EmptySet
<1>2. Cardinality(T) = 1 <=> \E x : T = {x}
  BY FS_Singleton
<1>3. T # {} => ((\E x : T = {x}) <=> ~ \E x, y \in T : x # y)
  OBVIOUS
<1>4. T = {} => ~ \E x, y \in T : x # y
  OBVIOUS
<1>5. CASE T = {}
  BY <1>1, <1>4, <1>5
<1>6. CASE T # {}
  <2>1. Cardinality(T) # 0
    BY <1>1, <1>6
  <2>2. Cardinality(T) = 1 <=> ~ \E x, y \in T : x # y
    BY <1>2, <1>3, <1>6
  <2>n. PICK n : n = Cardinality(T)
    OBVIOUS
  <2>3. n \in Nat /\ n # 0 /\ (n > 1 <=> n # 1)
    BY <1>1, <2>1, <2>n
  <2> QED
    BY <1>6, <2>n, <2>2, <2>3
<1> QED
  BY <1>5, <1>6

(* As many keys as rows, if no two rows have the same one. *)
LEMMA KeysFewer ==
  ASSUME NEW rows, Files!IsItems(rows), NEW n, n = Len(rows),
         NEW m, m = Cardinality(Files!Keys(rows))
  PROVE  /\ n \in Nat /\ m \in Nat /\ m <= n
         /\ m = n <=> \A i, j \in 1 .. n : i # j => Files!KeyOf(rows[i]) # Files!KeyOf(rows[j])
<1>s. PICK S : S = Files!Keys(rows)
  OBVIOUS
<1>f. PICK f : f = [k \in 1 .. n |-> Files!KeyOf(rows[k])]
  OBVIOUS
<1>1. IsFiniteSet(S) /\ Cardinality(S) <= n /\ f \in Surjection(1 .. n, S)
  BY <1>s, <1>f, KeysAre
<1>2. n \in Nat
  BY ItemsAre
<1>3. Cardinality(S) \in Nat
  BY <1>1, FS_CardinalityType
<1>4. IsFiniteSet(1 .. n) /\ Cardinality(1 .. n) = n
  BY <1>2, OneTo
<1>5. Cardinality(S) = n <=> f \in Injection(1 .. n, S)
  BY <1>1, <1>4, FS_Surjection
<1>6. f \in Injection(1 .. n, S) <=> \A i, j \in 1 .. n : f[i] = f[j] => i = j
  BY <1>1 DEF Injection, Surjection, IsInjective
<1>7. \A i \in 1 .. n : f[i] = Files!KeyOf(rows[i])
  BY <1>f
<1> QED
  BY <1>s, <1>1, <1>2, <1>3, <1>5, <1>6, <1>7

LEMMA SortedNone ==
  ASSUME NEW S \in SUBSET KeySet, IsFiniteSet(S)
  PROVE  Files!Sorted(S) = <<>> <=> S = {}
<1>l. PICK list : list = Files!Sorted(S)
  OBVIOUS
<1>m. PICK m : m = Cardinality(S)
  OBVIOUS
<1>1. m \in Nat /\ list \in [1 .. m -> S]
  BY <1>l, <1>m, SortedIs DEF Lists
<1>2. list \in Seq(S) /\ Len(list) = m
  BY <1>1, SequenceOf
<1>3. list = <<>> <=> m = 0
  BY <1>2, EmptySeq
<1> QED
  BY <1>l, <1>m, <1>3, MoreThanOne

(* The reported keys are those of several rows. *)
LEMMA DuplicatesAre ==
  ASSUME NEW rows, Files!IsItems(rows)
  PROVE  Len(Files!Normalize(rows).items) < Len(rows)
           <=> Files!Normalize(rows).duplicates # <<>>
<1>n. PICK n : n = Len(rows)
  OBVIOUS
<1>m. PICK m : m = Cardinality(Files!Keys(rows))
  OBVIOUS
<1>d. PICK D : D = {key \in Files!Keys(rows) : Files!Occurrences(rows, key) > 1}
  OBVIOUS
<1>1. Files!Normalize(rows).duplicates = Files!Sorted(D)
  BY <1>d DEF Files!Normalize
<1>2. Len(Files!Normalize(rows).items) = m
  BY <1>m, NormalizeIs
<1>3. /\ n \in Nat /\ m \in Nat /\ m <= n
      /\ m = n <=> \A i, j \in 1 .. n : i # j => Files!KeyOf(rows[i]) # Files!KeyOf(rows[j])
  BY <1>n, <1>m, KeysFewer
<1>4. Files!Keys(rows) \in SUBSET KeySet /\ IsFiniteSet(Files!Keys(rows))
  BY KeysAre
<1>5. D \in SUBSET KeySet /\ IsFiniteSet(D)
  BY <1>4, <1>d, FS_Subset
<1>6. Files!Sorted(D) = <<>> <=> D = {}
  BY <1>5, SortedNone
<1>7. DOMAIN rows = 1 .. n
  BY <1>n, ItemsAre
<1>8. ASSUME NEW key
      PROVE  Files!Occurrences(rows, key) > 1 <=>
               \E i, j \in 1 .. n : /\ i # j
                                    /\ Files!KeyOf(rows[i]) = key /\ Files!KeyOf(rows[j]) = key
  <2>t. PICK T : T = {i \in 1 .. n : Files!KeyOf(rows[i]) = key}
    OBVIOUS
  <2>1. Files!Occurrences(rows, key) = Cardinality(T)
    BY <1>7, <2>t DEF Files!Occurrences, Files!Cardinality, Cardinality
  <2>2. IsFiniteSet(T)
    BY <1>3, <2>t, OneTo, FS_Subset
  <2>3. Cardinality(T) > 1 <=> \E i, j \in T : i # j
    BY <2>2, MoreThanOne
  <2> QED
    BY <2>t, <2>1, <2>3
<1>9. D = {} <=> \A i, j \in 1 .. n : i # j => Files!KeyOf(rows[i]) # Files!KeyOf(rows[j])
  <2>1. \A i \in 1 .. n : Files!KeyOf(rows[i]) \in Files!Keys(rows)
    BY <1>7 DEF Files!Keys
  <2> QED
    BY <1>d, <1>8, <2>1
<1> QED
  BY <1>n, <1>1, <1>2, <1>3, <1>6, <1>9

LEMMA ItemsOrdered ==
  ASSUME NEW rows, Files!IsItems(rows), NEW items, items = Files!Normalize(rows).items,
         NEW i \in DOMAIN items, NEW j \in DOMAIN items, i < j
  PROVE  Files!KeyBefore(Files!KeyOf(items[i]), Files!KeyOf(items[j]))
<1>s. PICK S : S = Files!Keys(rows)
  OBVIOUS
<1>k. PICK keys : keys = Files!Sorted(S)
  OBVIOUS
<1>m. PICK m : m = Cardinality(S)
  OBVIOUS
<1>1. /\ Lists(keys, S, SortedBy(S)) /\ DOMAIN items = 1 .. m
      /\ \A h \in 1 .. m : Files!KeyOf(items[h]) = keys[h]
  BY <1>s, <1>k, <1>m, NormalizeIs
<1>2. <<keys[i], keys[j]>> \in SortedBy(S)
  BY <1>m, <1>1 DEF Lists
<1>3. Files!KeyBefore(keys[i], keys[j])
  BY <1>2 DEF SortedBy
<1> QED
  BY <1>1, <1>3

(* Items in order have each key once, so the last is the only one. *)
LEMMA LastIs ==
  ASSUME NEW rows, Files!IsItems(rows), NEW items, items = Files!Normalize(rows).items,
         NEW key
  PROVE  Files!LastQuantity(items, key) = Files!QuantityOf(rows, key)
<1>s. PICK S : S = Files!Keys(rows)
  OBVIOUS
<1>k. PICK keys : keys = Files!Sorted(S)
  OBVIOUS
<1>m. PICK m : m = Cardinality(S)
  OBVIOUS
<1>1. /\ Lists(keys, S, SortedBy(S)) /\ DOMAIN items = 1 .. m /\ m \in Nat
      /\ \A h \in 1 .. m : /\ Files!KeyOf(items[h]) = keys[h]
                           /\ items[h].quantity = Files!QuantityOf(rows, keys[h])
  BY <1>s, <1>k, <1>m, NormalizeIs
<1>2. /\ \A h \in 1 .. m : keys[h] \in S
      /\ \A x \in S : \E h \in 1 .. m : keys[h] = x
      /\ \A h \in 1 .. m : Cardinality(Predecessors(S, SortedBy(S), keys[h])) = h - 1
  BY <1>m, <1>1 DEF Lists
<1>o. PICK own : own = {h \in 1 .. m : keys[h] = key}
  OBVIOUS
<1>3. Files!LastQuantity(items, key) = IF own = {} THEN 0 ELSE items[Files!Max(own)].quantity
  <2>1. own = {h \in DOMAIN items : Files!KeyOf(items[h]) = key}
    BY <1>1, <1>o
  <2> QED
    BY <2>1 DEF Files!LastQuantity
<1>4. CASE key \in S
  <2>1. own # {} /\ own \in SUBSET (1 .. m)
    BY <1>2, <1>4, <1>o
  <2>2. Files!Max(own) \in own
    BY <1>1, <2>1, MaxIs, FilesMax DEF FileMax
  <2>3. Files!Max(own) \in 1 .. m /\ keys[Files!Max(own)] = key
    BY <1>o, <2>2
  <2> QED
    BY <1>1, <1>3, <2>1, <2>3
<1>5. CASE key \notin S
  <2>1. own = {}
    BY <1>2, <1>5, <1>o
  <2>2. Files!QuantityOf(rows, key) = 0
    BY <1>s, <1>5, QuantityIs
  <2> QED
    BY <1>3, <2>1, <2>2
<1> QED
  BY <1>4, <1>5

(* What is in order already stays as it is. *)
LEMMA NormalAgain ==
  ASSUME NEW items, Files!IsItems(items),
         \A i, j \in DOMAIN items : i < j =>
           Files!KeyBefore(Files!KeyOf(items[i]), Files!KeyOf(items[j]))
  PROVE  Files!Normalize(items).items = items
<1>s. PICK S : S = Files!Keys(items)
  OBVIOUS
<1>k. PICK keys : keys = Files!Sorted(S)
  OBVIOUS
<1>m. PICK m : m = Cardinality(S)
  OBVIOUS
<1>i. PICK again : again = Files!Normalize(items).items
  OBVIOUS
<1>n. PICK n : n = Len(items)
  OBVIOUS
<1>r. PICK R : R = SortedBy(S)
  OBVIOUS
<1>f. PICK f : f = [k \in 1 .. n |-> Files!KeyOf(items[k])]
  OBVIOUS
<1>1. /\ n \in Nat /\ DOMAIN items = 1 .. n
      /\ \A k \in 1 .. n : items[k] = Files!Item(Files!KeyOf(items[k]), items[k].quantity)
  BY <1>n, ItemsAre
<1>2. /\ IsFiniteSet(S) /\ S \in SUBSET KeySet /\ Lists(keys, S, R)
      /\ DOMAIN again = 1 .. m /\ m \in Nat
      /\ \A h \in 1 .. m : /\ Files!KeyOf(again[h]) = keys[h]
                           /\ again[h].quantity = Files!QuantityOf(items, keys[h])
  BY <1>s, <1>k, <1>m, <1>i, <1>r, NormalizeIs
<1>3. Files!IsItems(again) /\ Len(again) = m
  BY <1>s, <1>k, <1>m, <1>i, NormalizeIs
<1>4. StrictOrder(S, R)
  BY <1>2, <1>r, KeysOrdered
<1>5. \A i \in 1 .. n : f[i] \in S /\ f[i] = Files!KeyOf(items[i])
  BY <1>1, <1>f, <1>s DEF Files!Keys
<1>6. \A i, j \in 1 .. n : i < j => <<f[i], f[j]>> \in R
  BY <1>1, <1>5, <1>r DEF SortedBy
<1>7. ASSUME NEW i \in 1 .. n, NEW j \in 1 .. n, i # j PROVE f[i] # f[j]
  <2>1. i < j \/ j < i
    BY <1>1, <1>7
  <2>2. <<f[i], f[j]>> \in R \/ <<f[j], f[i]>> \in R
    BY <1>6, <2>1
  <2> QED
    BY <1>4, <1>5, <2>2 DEF StrictOrder
<1>8. m = n
  BY <1>s, <1>m, <1>n, <1>5, <1>7, KeysFewer
<1>9. Lists(f, S, R)
  <2>1. f \in [1 .. n -> S]
    BY <1>5, <1>f
  <2>2. ASSUME NEW i \in 1 .. n PROVE Cardinality(Predecessors(S, R, f[i])) = i - 1
    <3>p. PICK P : P = Predecessors(S, R, f[i])
      OBVIOUS
    <3>b. PICK b : b = i - 1
      OBVIOUS
    <3>g. PICK g : g = [j \in 1 .. b |-> f[j]]
      OBVIOUS
    <3>1. b \in Nat /\ \A j \in 1 .. b : j \in 1 .. n /\ j < i
      BY <1>1, <3>b
    <3>2. \A j \in 1 .. n : f[j] \in P <=> j < i
      <4> SUFFICES ASSUME NEW j \in 1 .. n PROVE f[j] \in P <=> j < i
        OBVIOUS
      <4>1. f[j] \in P <=> <<f[j], f[i]>> \in R
        BY <1>5, <3>p DEF Predecessors
      <4>2. j < i => <<f[j], f[i]>> \in R
        BY <1>6
      <4>3. i < j => <<f[i], f[j]>> \in R
        BY <1>6
      <4>4. ~(<<f[j], f[i]>> \in R /\ <<f[i], f[j]>> \in R) /\ <<f[i], f[i]>> \notin R
        BY <1>4, <1>5 DEF StrictOrder
      <4> QED
        BY <1>1, <4>1, <4>2, <4>3, <4>4
    <3>3. \A x \in P : \E j \in 1 .. b : f[j] = x
      <4> SUFFICES ASSUME NEW x \in P PROVE \E j \in 1 .. b : f[j] = x
        OBVIOUS
      <4>1. x \in S
        BY <3>p DEF Predecessors
      <4>2. \E j \in 1 .. n : f[j] = x
        BY <1>1, <1>5, <1>s, <4>1 DEF Files!Keys
      <4>3. PICK j \in 1 .. n : f[j] = x
        BY <4>2
      <4>4. j < i
        BY <3>2, <4>3
      <4>5. j \in 1 .. b
        BY <1>1, <3>b, <4>4
      <4> QED
        BY <4>3, <4>5
    <3>4. g \in [1 .. b -> P]
      BY <3>1, <3>2, <3>g
    <3>5. g \in Surjection(1 .. b, P)
      BY <3>3, <3>4, <3>g DEF Surjection
    <3>6. g \in Injection(1 .. b, P)
      BY <1>7, <3>1, <3>4, <3>g DEF Injection, IsInjective
    <3>7. IsFiniteSet(1 .. b) /\ Cardinality(1 .. b) = b
      BY <3>1, OneTo
    <3> QED
      BY <3>p, <3>b, <3>5, <3>6, <3>7, FS_Surjection
  <2> QED
    BY <1>2, <1>4, <1>8, <1>m, <2>1, <2>2, ListIs
<1>10. f = keys
  BY <1>2, <1>4, <1>9, ListUnique
<1>11. ASSUME NEW i \in 1 .. n PROVE again[i] = items[i]
  <2>1. Files!KeyOf(again[i]) = Files!KeyOf(items[i])
    BY <1>2, <1>5, <1>8, <1>10
  <2>2. \A j \in DOMAIN items : j # i => Files!KeyOf(items[j]) # Files!KeyOf(items[i])
    BY <1>1, <1>5, <1>7
  <2>3. Files!QuantityOf(items, Files!KeyOf(items[i])) = items[i].quantity
    BY <1>1, <2>2, QuantityOfOne
  <2>4. again[i].quantity = items[i].quantity
    BY <1>2, <1>5, <1>8, <1>10, <2>3
  <2>5. again[i] = Files!Item(Files!KeyOf(again[i]), again[i].quantity)
    BY <1>3, <1>8, ItemsAre
  <2> QED
    BY <1>1, <2>1, <2>4, <2>5
<1>12. again = items
  <2>1. \E D : items \in Seq(D) /\ again \in Seq(D)
    BY <1>3 DEF Files!IsItems
  <2>2. PICK D : items \in Seq(D) /\ again \in Seq(D)
    BY <2>1
  <2> QED
    BY <1>3, <1>8, <1>11, <1>n, <2>2, SeqEqual
<1> QED
  BY <1>i, <1>12

-----------------------------------------------------------------------------
LEMMA SumsSame ==
  ASSUME NEW n \in Nat, NEW a, NEW r, NEW s, Sums(r, a, n), Sums(s, a, n)
  PROVE  r[n] = s[n]
<1> DEFINE T == {k \in Nat : k <= n => r[k] = s[k]}
<1>1. 0 \in T
  BY DEF Sums
<1>2. ASSUME NEW k \in Nat, k \in T PROVE k + 1 \in T
  <2> SUFFICES ASSUME k + 1 <= n PROVE r[k + 1] = s[k + 1]
    OBVIOUS
  <2> PICK i : i = k + 1
    OBVIOUS
  <2>1. i \in 1 .. n /\ i - 1 = k
    OBVIOUS
  <2> QED
    BY <1>2, <2>1 DEF Sums
<1> HIDE DEF T
<1>3. n \in T
  BY <1>1, <1>2, Induct
<1> QED
  BY <1>3 DEF T

(* What a file without a bad row is read as, before it is normalized. *)
ItemsOf(source) ==
  [i \in DOMAIN source.rows |->
     Files!Item(<<<<Files!FileSystems(source)[1], source.rows[i].part>>,
                  <<Files!FileSystems(source)[2], source.rows[i].color>>>>,
                source.rows[i].quantity)]

HeaderRead(source) ==
  source.format = "bricklink_xml" \/ Files!Columns \subseteq source.header

AllReadable(source) == \A i \in DOMAIN source.rows : Files!Readable(source.rows[i])

LEMMA ReadBomIs ==
  ASSUME NEW source, Files!IsSource(source), NEW bom, bom = Files!ReadBom(source),
         None \notin {"header", "AttributeError"}, None \notin Int
  PROVE  /\ bom.error = None <=> AllReadable(source) /\ HeaderRead(source)
         /\ bom.error = None => bom = Files!Normalize(ItemsOf(source))
         /\ bom.error # None => bom.items = <<>>
<1>b. PICK bad : bad = {i \in DOMAIN source.rows : ~Files!Readable(source.rows[i])}
  OBVIOUS
<1>n. PICK n : n = Len(source.rows)
  OBVIOUS
<1>1. n \in Nat /\ DOMAIN source.rows = 1 .. n
  <2>1. \E D : source.rows \in Seq(D)
    BY DEF Files!IsSource
  <2>2. PICK D : source.rows \in Seq(D)
    BY <2>1
  <2> QED
    BY <1>n, <2>2, LenProperties
<1>2. bom = IF ~HeaderRead(source) THEN Files!Refused("header")
            ELSE IF bad # {} THEN Files!Refused(Files!RowError(source, Files!Min(bad)))
            ELSE Files!Normalize(ItemsOf(source))
  BY <1>b DEF Files!ReadBom, ItemsOf, HeaderRead
<1>3. bad # {} => Files!RowError(source, Files!Min(bad)) # None
  <2> SUFFICES ASSUME bad # {} PROVE Files!RowError(source, Files!Min(bad)) # None
    OBVIOUS
  <2>m. bad \in SUBSET (1 .. n)
    BY <1>1, <1>b
  <2>1. bad \subseteq Nat
    BY <1>1, <2>m
  <2>2. \E x \in bad : \A y \in bad : x <= y
    BY <2>1, MinIs
  <2>3. Files!Min(bad) \in bad
    BY <2>2 DEF Files!Min
  <2>k. PICK k : k = Files!Min(bad)
    OBVIOUS
  <2>4. k \in 1 .. n
    BY <2>m, <2>3, <2>k
  <2>5. k \in Int
    BY <1>1, <2>4
  <2> QED
    BY <2>5, <2>k DEF Files!RowError
<1>4. AllReadable(source) <=> bad = {}
  BY <1>b DEF AllReadable
<1>5. CASE ~HeaderRead(source)
  BY <1>2, <1>5 DEF Files!Refused
<1>6. CASE HeaderRead(source) /\ bad # {}
  BY <1>2, <1>3, <1>4, <1>6 DEF Files!Refused
<1>7. CASE HeaderRead(source) /\ bad = {}
  <2>1. bom = Files!Normalize(ItemsOf(source))
    BY <1>2, <1>7
  <2>2. bom.error = None
    BY <2>1 DEF Files!Normalize
  <2> QED
    BY <1>4, <1>7, <2>1, <2>2
<1> QED
  BY <1>5, <1>6, <1>7

LEMMA ItemsOfAre ==
  ASSUME NEW source, Files!IsSource(source), AllReadable(source), None \notin Int,
         NEW rows, rows = ItemsOf(source), NEW n, n = Len(source.rows)
  PROVE  /\ Files!IsItems(rows) /\ Len(rows) = n /\ n \in Nat
         /\ DOMAIN rows = 1 .. n /\ DOMAIN source.rows = 1 .. n
         /\ \A i \in 1 .. n : rows[i].quantity = source.rows[i].quantity
<1>c. PICK C : C = [part : Int \cup {None}, color : Int \cup {None}, quantity : Int \cup {None}]
  OBVIOUS
<1>d. PICK D : D = [part : SystemNames \X Int, color : SystemNames \X Int, quantity : Nat \ {0}]
  OBVIOUS
<1>s. PICK systems : systems = Files!FileSystems(source)
  OBVIOUS
<1>1. systems \in SystemNames \X SystemNames /\ source.rows \in Seq(C)
  BY <1>c, <1>s DEF Files!IsSource, SystemNames
<1>2. n \in Nat /\ DOMAIN source.rows = 1 .. n /\ \A i \in 1 .. n : source.rows[i] \in C
  BY <1>1, LenProperties, ElementOfSeq
<1>3. ASSUME NEW row \in C, Files!Readable(row)
      PROVE  row.part \in Int /\ row.color \in Int /\ row.quantity \in Nat \ {0}
  BY <1>c, <1>3 DEF Files!Readable
<1>4. ASSUME NEW i \in 1 .. n
      PROVE  rows[i] \in D /\ rows[i].quantity = source.rows[i].quantity
  <2>r. PICK row : row = source.rows[i]
    OBVIOUS
  <2>1. row.part \in Int /\ row.color \in Int /\ row.quantity \in Nat \ {0}
    BY <1>2, <1>3, <2>r DEF AllReadable
  <2>2. rows[i] = [part |-> <<systems[1], row.part>>, color |-> <<systems[2], row.color>>,
                   quantity |-> row.quantity]
    BY <1>2, <1>s, <2>r DEF ItemsOf, Files!Item
  <2>3. systems[1] \in SystemNames /\ systems[2] \in SystemNames
    BY <1>1
  <2> QED
    BY <1>d, <2>r, <2>1, <2>2, <2>3
<1>5. rows \in [1 .. n -> D]
  BY <1>2, <1>4 DEF ItemsOf
<1>6. rows \in Seq(D) /\ Len(rows) = n /\ DOMAIN rows = 1 .. n
  BY <1>2, <1>5, SequenceOf
<1>7. Files!IsItems(rows)
  BY <1>d, <1>6 DEF Files!IsItems, SystemNames
<1> QED
  BY <1>2, <1>4, <1>6, <1>7

(***************************************************************************)
(* The items of a file have as many pieces in all as its rows, each part   *)
(* and colour once and in order, and the reported keys are there exactly if*)
(* rows were put together; a difference added to the old quantities gives  *)
(* the new ones.  For files of any length and any systems (bom.py,         *)
(* Bom.normalize, Bom.diff and the from_ methods).                         *)
(***************************************************************************)
THEOREM QuantitiesKeptAlways == Spec => []QuantitiesKept
<1>0. None \notin Int /\ None \notin {"header", "AttributeError"}
  BY StatusAssumption, FileAssumption
<1>1. ASSUME Asked, Answered("file"), answer.bom.error = None
      PROVE  LET items == answer.bom.items
             IN  /\ Files!TotalQuantity(items) = Files!TotalQuantity(question.rows)
                 /\ \A i, j \in DOMAIN items :
                      i < j => Files!KeyBefore(Files!KeyOf(items[i]), Files!KeyOf(items[j]))
                 /\ Len(items) < Len(question.rows) <=> answer.bom.duplicates # <<>>
  <2>1. question \in FileQuestions /\ answer.bom = Files!ReadBom(question)
    BY <1>1 DEF Asked, Given, Answered, FileAnswer
  <2>s. PICK source : source = question
    OBVIOUS
  <2>b. PICK bom : bom = answer.bom
    OBVIOUS
  <2>r. PICK rows : rows = ItemsOf(source)
    OBVIOUS
  <2>n. PICK n : n = Len(source.rows)
    OBVIOUS
  <2>2. Files!IsSource(source)
    BY <2>1, <2>s, FileAssumption
  <2>3. bom = Files!ReadBom(source) /\ bom.error = None
    BY <1>1, <2>1, <2>s, <2>b
  <2>4. AllReadable(source) /\ bom = Files!Normalize(rows)
    BY <1>0, <2>2, <2>3, <2>r, ReadBomIs
  <2>5. /\ Files!IsItems(rows) /\ Len(rows) = n /\ n \in Nat
        /\ DOMAIN rows = 1 .. n /\ DOMAIN source.rows = 1 .. n
        /\ \A i \in 1 .. n : rows[i].quantity = source.rows[i].quantity
    BY <1>0, <2>2, <2>4, <2>r, <2>n, ItemsOfAre
  <2>6. Files!TotalQuantity(bom.items) = Files!TotalQuantity(rows)
    BY <2>4, <2>5, TotalKept
  <2>7. Files!TotalQuantity(rows) = Files!TotalQuantity(source.rows)
    <3>a. PICK a : a = [k \in 1 .. n |-> rows[k].quantity]
      OBVIOUS
    <3>1. a = [k \in 1 .. n |-> source.rows[k].quantity]
      BY <2>5, <3>a
    <3>2. \A k \in 1 .. n : rows[k].quantity \in Int
      BY <2>5, ItemsAre
    <3>3. \A k \in 1 .. n : source.rows[k].quantity \in Int
      BY <2>5, <3>2
    <3>4. \E r : Sums(r, a, n) /\ Files!TotalQuantity(rows) = r[n]
      BY <2>5, <3>2, <3>a, TotalIs
    <3>5. \E s : Sums(s, a, n) /\ Files!TotalQuantity(source.rows) = s[n]
      BY <2>5, <3>1, <3>3, TotalIs
    <3> QED
      BY <2>5, <3>4, <3>5, SumsSame
  <2>8. Len(bom.items) < n <=> bom.duplicates # <<>>
    BY <2>4, <2>5, DuplicatesAre
  <2>9. \A i, j \in DOMAIN bom.items :
          i < j => Files!KeyBefore(Files!KeyOf(bom.items[i]), Files!KeyOf(bom.items[j]))
    BY <2>4, <2>5, ItemsOrdered
  <2> QED
    BY <2>s, <2>b, <2>n, <2>6, <2>7, <2>8, <2>9
<1>2. ASSUME Asked, Answered("diff"), NEW key
      PROVE  LET delta == IF key \in DOMAIN answer
                            THEN answer[key].after - answer[key].before ELSE 0
             IN  Files!QuantityOf(question.before, key) + delta =
                   Files!QuantityOf(question.after, key)
  <2>1. question \in DiffQuestions /\ answer = DiffAnswer
    BY <1>2 DEF Asked, Given, Answered
  <2>b. PICK before : before = Files!Normalize(question.before).items
    OBVIOUS
  <2>a. PICK after : after = Files!Normalize(question.after).items
    OBVIOUS
  <2>p. PICK p : p = Files!QuantityOf(question.before, key)
    OBVIOUS
  <2>q. PICK q : q = Files!QuantityOf(question.after, key)
    OBVIOUS
  <2>2. Files!IsItems(question.before) /\ Files!IsItems(question.after)
    BY <2>1, FileAssumption
  <2>3. p \in Nat /\ q \in Nat
    BY <2>2, <2>p, <2>q, QuantityIs
  <2>4. Files!LastQuantity(before, key) = p /\ Files!LastQuantity(after, key) = q
    BY <2>2, <2>b, <2>a, <2>p, <2>q, LastIs
  <2>5. p # q => key \in Files!Keys(before) \cup Files!Keys(after)
    <3>1. key \notin Files!Keys(before) => Files!LastQuantity(before, key) = 0
      BY DEF Files!Keys, Files!LastQuantity
    <3>2. key \notin Files!Keys(after) => Files!LastQuantity(after, key) = 0
      BY DEF Files!Keys, Files!LastQuantity
    <3> QED
      BY <2>4, <3>1, <3>2
  <2>k. PICK keys : keys = {k \in Files!Keys(before) \cup Files!Keys(after) :
                              Files!LastQuantity(before, k) # Files!LastQuantity(after, k)}
    OBVIOUS
  <2>6. answer = [k \in keys |-> [before |-> Files!LastQuantity(before, k),
                                  after  |-> Files!LastQuantity(after, k)]]
    BY <2>1, <2>a, <2>b, <2>k DEF DiffAnswer, Files!DiffBoms
  <2>7. CASE p = q
    <3>1. key \notin keys
      BY <2>4, <2>7, <2>k
    <3>2. key \notin DOMAIN answer
      BY <2>6, <3>1
    <3>3. p + 0 = q
      BY <2>3, <2>7
    <3> QED
      BY <2>p, <2>q, <3>2, <3>3
  <2>8. CASE p # q
    <3>1. key \in keys
      BY <2>4, <2>5, <2>8, <2>k
    <3>2. key \in DOMAIN answer /\ answer[key].before = p /\ answer[key].after = q
      BY <2>4, <2>6, <3>1
    <3>d. PICK delta : delta = IF key \in DOMAIN answer
                                 THEN answer[key].after - answer[key].before ELSE 0
      OBVIOUS
    <3>3. delta = q - p
      BY <3>2, <3>d
    <3>4. p + delta = q
      BY <2>3, <3>3
    <3> QED
      BY <2>p, <2>q, <3>4, <3>d
  <2> QED
    BY <2>7, <2>8
<1>3. Asked => QuantitiesKept
  BY <1>1, <1>2 DEF QuantitiesKept
<1> QED
  BY <1>3, AskedAlways, PTL

(***************************************************************************)
(* No cell of an export begins like a formula, and an export read back     *)
(* gives the items it was made of, unless an identifier had to be escaped, *)
(* for any items (exports.py, escape_csv_formula; bom.py,                  *)
(* to_rebrickable_csv and from_rebrickable_csv).                           *)
(***************************************************************************)
THEOREM ExportsReadBackAlways == Spec => []ExportsReadBack
<1>0. /\ None \notin Int /\ None \notin {"header", "AttributeError"}
      /\ FormulaIds \subseteq Int /\ \A id \in FormulaIds : -id \notin FormulaIds
  BY StatusAssumption, FileAssumption
<1>1. ASSUME Asked, Answered("file"), answer.export # None
      PROVE  LET back == Files!ReadBom(answer.export).items
             IN  /\ \A row \in ToSet(answer.export.rows) : row.part \notin FormulaIds
                 /\ (\A item \in ToSet(answer.bom.items) : item.part[2] \notin FormulaIds) =>
                      back = answer.bom.items
  <2>i. PICK items : items = answer.bom.items
    OBVIOUS
  <2>e. PICK export : export = answer.export
    OBVIOUS
  <2>n. PICK n : n = Len(items)
    OBVIOUS
  <2>1. /\ question \in FileQuestions /\ answer.bom = Files!ReadBom(question)
        /\ export = Files!ExportBom(items)
    BY <1>1, <2>i, <2>e DEF Asked, Given, Answered, FileAnswer
  <2>2. /\ Files!IsItems(items)
        /\ \A i, j \in DOMAIN items :
             i < j => Files!KeyBefore(Files!KeyOf(items[i]), Files!KeyOf(items[j]))
    <3>s. PICK source : source = question
      OBVIOUS
    <3>b. PICK bom : bom = answer.bom
      OBVIOUS
    <3>1. Files!IsSource(source) /\ bom = Files!ReadBom(source)
      BY <2>1, <3>s, <3>b, FileAssumption
    <3>2. CASE bom.error = None
      <4>r. PICK rows : rows = ItemsOf(source)
        OBVIOUS
      <4>1. AllReadable(source) /\ bom = Files!Normalize(rows)
        BY <1>0, <3>1, <3>2, <4>r, ReadBomIs
      <4>2. Files!IsItems(rows)
        BY <1>0, <3>1, <4>1, <4>r, ItemsOfAre
      <4>3. items = Files!Normalize(rows).items
        BY <2>i, <3>b, <4>1
      <4> QED
        BY <4>2, <4>3, NormalizeIs, ItemsOrdered
    <3>3. CASE bom.error # None
      <4>1. items = <<>>
        BY <1>0, <2>i, <3>1, <3>3, <3>b, ReadBomIs
      <4>2. DOMAIN items = {} /\ \A D : items \in Seq(D)
        BY <4>1
      <4> QED
        BY <4>2 DEF Files!IsItems
    <3> QED
      BY <3>2, <3>3
  <2>3. /\ n \in Nat /\ DOMAIN items = 1 .. n
        /\ \A i \in 1 .. n : /\ items[i].quantity \in Nat \ {0}
                             /\ items[i].part \in SystemNames \X Int
                             /\ items[i].color \in SystemNames \X Int
                             /\ items[i] = Files!Item(Files!KeyOf(items[i]), items[i].quantity)
    <3>1. /\ n \in Nat /\ DOMAIN items = 1 .. n
          /\ \A i \in 1 .. n : /\ items[i].quantity \in Nat \ {0}
                               /\ Files!KeyOf(items[i]) \in KeySet
                               /\ items[i] = Files!Item(Files!KeyOf(items[i]), items[i].quantity)
      BY <2>2, <2>n, ItemsAre
    <3>2. ASSUME NEW x, Files!KeyOf(x) \in KeySet
          PROVE  x.part \in SystemNames \X Int /\ x.color \in SystemNames \X Int
      BY <3>2 DEF Files!KeyOf, KeySet
    <3> QED
      BY <3>1, <3>2
  <2>4. /\ export.format = "rebrickable_csv" /\ export.header = Files!Columns /\ export.partless = {}
        /\ export.rows = [i \in 1 .. n |-> [part     |-> Files!Escape(items[i].part[2]),
                                            color    |-> items[i].color[2],
                                            quantity |-> items[i].quantity]]
        /\ \A i \in 1 .. n : items[i].part[1] = "rebrickable"
                             /\ items[i].color[1] = "rebrickable"
    <3>1. ~ \E i \in DOMAIN items :
               items[i].part[1] # "rebrickable" \/ items[i].color[1] # "rebrickable"
      BY <1>1, <2>1, <2>e DEF Files!ExportBom
    <3>2. export = [format |-> "rebrickable_csv", header |-> Files!Columns, partless |-> {},
                    rows   |-> [i \in DOMAIN items |->
                                  [part     |-> Files!Escape(items[i].part[2]),
                                   color    |-> items[i].color[2],
                                   quantity |-> items[i].quantity]]]
      BY <2>1, <3>1 DEF Files!ExportBom
    <3> QED
      BY <2>3, <3>1, <3>2
  <2>5. \A id \in Int : Files!Escape(id) \in Int /\ Files!Escape(id) \notin FormulaIds
    BY <1>0 DEF Files!Escape
  <2>6. \A row \in ToSet(export.rows) : row.part \notin FormulaIds
    <3> SUFFICES ASSUME NEW i \in 1 .. n PROVE export.rows[i].part \notin FormulaIds
      BY <2>4 DEF ToSet
    <3>1. items[i].part[2] \in Int
      BY <2>3
    <3>2. export.rows[i].part = Files!Escape(items[i].part[2])
      BY <2>4
    <3> QED
      BY <2>5, <3>1, <3>2
  <2>7. ASSUME \A item \in ToSet(items) : item.part[2] \notin FormulaIds
        PROVE  Files!ReadBom(export).items = items
    <3>1. ASSUME NEW i \in 1 .. n
          PROVE  export.rows[i] = [part |-> items[i].part[2], color |-> items[i].color[2],
                                   quantity |-> items[i].quantity]
                 /\ items[i].part[2] \in Int /\ items[i].color[2] \in Int
      <4>1. items[i].part[2] \notin FormulaIds
        BY <2>3, <2>7 DEF ToSet
      <4> QED
        BY <2>3, <2>4, <4>1 DEF Files!Escape
    <3>2. Files!FileSystems(export) = <<"rebrickable", "rebrickable">>
      BY <2>4 DEF Files!FileSystems
    <3>3. "rebrickable" \in SystemNames
      <4>1. 5 \in DOMAIN Files!Systems /\ Files!Systems[5] = "rebrickable"
        BY DEF Files!Systems
      <4> QED
        BY <4>1 DEF SystemNames, Files!ToSet
    <3>c. PICK C : C = [part : Int \cup {None}, color : Int \cup {None},
                        quantity : Int \cup {None}]
      OBVIOUS
    <3>4. ASSUME NEW i \in 1 .. n
          PROVE  export.rows[i] \in C /\ Files!Readable(export.rows[i])
      <4>r. PICK row : row = export.rows[i]
        OBVIOUS
      <4>1. row = [part |-> items[i].part[2], color |-> items[i].color[2],
                   quantity |-> items[i].quantity]
        BY <3>1, <4>r
      <4>2. row.part \in Int /\ row.color \in Int /\ row.quantity \in Nat \ {0}
        <5>p. PICK p : p = items[i].part[2]
          OBVIOUS
        <5>c. PICK c : c = items[i].color[2]
          OBVIOUS
        <5>q. PICK q : q = items[i].quantity
          OBVIOUS
        <5>1. p \in Int /\ c \in Int
          BY <3>1, <5>p, <5>c
        <5>2. q \in Nat \ {0}
          BY <2>3, <5>q
        <5>3. row = [part |-> p, color |-> c, quantity |-> q]
          BY <4>1, <5>p, <5>c, <5>q
        <5> QED
          BY <5>1, <5>2, <5>3
      <4>3. row \in C
        BY <3>c, <4>1, <4>2
      <4>4. Files!Readable(row)
        BY <1>0, <4>2 DEF Files!Readable
      <4> QED
        BY <4>r, <4>3, <4>4
    <3>5. export.rows \in [1 .. n -> C]
      BY <2>4, <3>4
    <3>6. export.rows \in Seq(C) /\ DOMAIN export.rows = 1 .. n
      BY <2>3, <3>5, SequenceOf
    <3>7. Files!IsSource(export)
      BY <2>4, <3>2, <3>3, <3>6, <3>c DEF Files!IsSource, SystemNames
    <3>8. AllReadable(export)
      BY <3>4, <3>6 DEF AllReadable
    <3>9. Files!ReadBom(export) = Files!Normalize(ItemsOf(export))
      <4>1. HeaderRead(export)
        BY <2>4 DEF HeaderRead
      <4> QED
        BY <1>0, <3>7, <3>8, <4>1, ReadBomIs
    <3>10. ItemsOf(export) = items
      <4>o. PICK rows : rows = ItemsOf(export)
        OBVIOUS
      <4>1. Files!IsItems(rows) /\ Len(rows) = Len(export.rows)
        BY <1>0, <3>7, <3>8, <4>o, ItemsOfAre
      <4>2. Len(export.rows) = n
        BY <2>3, <3>5, SequenceOf
      <4>3. ASSUME NEW i \in 1 .. n PROVE rows[i] = items[i]
        <5>1. rows[i] = Files!Item(<<<<"rebrickable", items[i].part[2]>>,
                                     <<"rebrickable", items[i].color[2]>>>>, items[i].quantity)
          <6>r. PICK row : row = export.rows[i]
            OBVIOUS
          <6>s. PICK s : s = Files!FileSystems(export)
            OBVIOUS
          <6>1. rows[i] = Files!Item(<<<<s[1], row.part>>, <<s[2], row.color>>>>, row.quantity)
            BY <3>6, <4>o, <6>r, <6>s DEF ItemsOf
          <6>2. s[1] = "rebrickable" /\ s[2] = "rebrickable"
            BY <3>2, <6>s
          <6>3. /\ row.part = items[i].part[2] /\ row.color = items[i].color[2]
                /\ row.quantity = items[i].quantity
            <7>1. row = [part |-> items[i].part[2], color |-> items[i].color[2],
                         quantity |-> items[i].quantity]
              BY <3>1, <6>r
            <7> QED
              BY <7>1
          <6> QED
            BY <6>1, <6>2, <6>3
        <5>2. /\ items[i].part = <<"rebrickable", items[i].part[2]>>
              /\ items[i].color = <<"rebrickable", items[i].color[2]>>
          BY <2>3, <2>4
        <5>3. Files!KeyOf(items[i]) = <<items[i].part, items[i].color>>
          BY DEF Files!KeyOf
        <5> QED
          BY <2>3, <5>1, <5>2, <5>3
      <4>4. \E D : items \in Seq(D) /\ rows \in Seq(D)
        BY <2>2, <4>1 DEF Files!IsItems
      <4>5. PICK D : items \in Seq(D) /\ rows \in Seq(D)
        BY <4>4
      <4> QED
        BY <2>n, <4>o, <4>1, <4>2, <4>3, <4>5, SeqEqual
    <3> QED
      BY <2>2, <3>9, <3>10, NormalAgain
  <2> QED
    BY <2>i, <2>e, <2>6, <2>7
<1>2. Asked => ExportsReadBack
  BY <1>1 DEF ExportsReadBack
<1> QED
  BY <1>2, AskedAlways, PTL

-----------------------------------------------------------------------------
SomeTypes == Links!ToSet(Links!RelationshipTypes)

(* A query of the relations asks for those that have the part at this end. *)
Asks(query, r, part) ==
  \/ query.direction # "children" /\ r.child = part
  \/ query.direction # "parents" /\ r.parent = part

Adjacent(relations, query, part, x) ==
  \E r \in relations : Asks(query, r, part) /\ Links!Offered(query, r) /\ x = Links!Other(r, part)

LEMMA RankIs ==
  ASSUME NEW a \in SomeTypes, NEW b \in SomeTypes
  PROVE  Links!Rank(a) \in Int /\ (Links!Rank(a) = Links!Rank(b) => a = b)
<1>1. DOMAIN Links!RelationshipTypes = 1 .. 6
  BY DEF Links!RelationshipTypes
<1>2. ASSUME NEW x \in SomeTypes
      PROVE  Links!Rank(x) \in 1 .. 6 /\ Links!RelationshipTypes[Links!Rank(x)] = x
  <2>1. \E i \in DOMAIN Links!RelationshipTypes : Links!RelationshipTypes[i] = x
    BY DEF SomeTypes, Links!ToSet
  <2> QED
    BY <1>1, <2>1 DEF Links!Rank
<1> QED
  BY <1>2

RelationsBefore(S) == {p \in S \X S : Links!Before(p[1], p[2])}

LEMMA RelationsOrdered ==
  ASSUME NEW S \in SUBSET [type : SomeTypes, child : Nat, parent : Nat]
  PROVE  StrictOrder(S, RelationsBefore(S))
<1>r. PICK R : R = RelationsBefore(S)
  OBVIOUS
<1>1. ASSUME NEW x \in S, NEW y \in S
      PROVE  <<x, y>> \in R <=>
               \/ Links!Rank(x.type) < Links!Rank(y.type)
               \/ Links!Rank(x.type) = Links!Rank(y.type) /\ x.child < y.child
               \/ /\ Links!Rank(x.type) = Links!Rank(y.type) /\ x.child = y.child
                  /\ x.parent < y.parent
  BY <1>r DEF RelationsBefore, Links!Before
<1>2. ASSUME NEW x \in S
      PROVE  Links!Rank(x.type) \in Int /\ x.child \in Int /\ x.parent \in Int
  BY RankIs
<1>3. ASSUME NEW x \in S, NEW y \in S, Links!Rank(x.type) = Links!Rank(y.type),
             x.child = y.child, x.parent = y.parent
      PROVE  x = y
  <2>1. x.type = y.type
    BY <1>3, RankIs
  <2> QED
    BY <1>3, <2>1
<1>4. ASSUME NEW x \in S PROVE <<x, x>> \notin R
  BY <1>1, <1>2
<1>5. ASSUME NEW x \in S, NEW y \in S, x # y PROVE <<x, y>> \in R \/ <<y, x>> \in R
  <2>1. \/ Links!Rank(x.type) # Links!Rank(y.type)
        \/ x.child # y.child \/ x.parent # y.parent
    BY <1>3, <1>5
  <2> QED
    BY <1>1, <1>2, <2>1
<1>6. ASSUME NEW x \in S, NEW y \in S, NEW z \in S, <<x, y>> \in R, <<y, z>> \in R
      PROVE  <<x, z>> \in R
  BY <1>1, <1>2, <1>6
<1> QED
  BY <1>r, <1>4, <1>5, <1>6 DEF StrictOrder

(* The rows of a query are the relations with the part at that end. *)
RowsFor(relations, query, part, n, rows) ==
  /\ n \in Nat /\ DOMAIN rows = 1 .. n
  /\ \A k \in 1 .. n : rows[k] \in relations /\ Asks(query, rows[k], part)
  /\ \A r \in relations : Asks(query, r, part) => \E k \in 1 .. n : rows[k] = r

LEMMA RowsAre ==
  ASSUME NEW relations, Links!IsTable(relations), NEW query, NEW part,
         NEW rows, rows = Links!Relationships(relations, part, query.direction, SomeTypes)
  PROVE  \E n : RowsFor(relations, query, part, n, rows)
<1>s. PICK S : S = {r \in relations : Asks(query, r, part)}
  OBVIOUS
<1>r. PICK R : R = RelationsBefore(S)
  OBVIOUS
<1>n. PICK n : n = Cardinality(S)
  OBVIOUS
<1>1. /\ IsFiniteSet(relations)
      /\ relations \subseteq [type : SomeTypes, child : Nat, parent : Nat]
  <2>1. Links!IsFiniteSet(relations) => IsFiniteSet(relations)
    BY DEF Links!IsFiniteSet, IsFiniteSet
  <2> QED
    BY <2>1 DEF Links!IsTable, SomeTypes
<1>2. /\ S \in SUBSET [type : SomeTypes, child : Nat, parent : Nat]
      /\ IsFiniteSet(S)
  BY <1>1, <1>s, FS_Subset
<1>3. StrictOrder(S, R)
  BY <1>2, <1>r, RelationsOrdered
<1>4. \A T : Links!Cardinality(T) = Cardinality(T)
  BY DEF Links!Cardinality, Cardinality
<1>5. S = {r \in relations :
             /\ r.type \in SomeTypes
             /\ \/ query.direction # "children" /\ r.child = part
                \/ query.direction # "parents" /\ r.parent = part}
  BY <1>1, <1>s DEF Asks
<1>6. rows = [i \in 1 .. Links!Cardinality(S) |->
                CHOOSE x \in S : Links!Cardinality({y \in S : Links!Before(y, x)}) = i - 1]
  BY <1>5 DEF Links!Relationships, Links!Ordered
<1>7. ASSUME NEW x \in S
      PROVE  Links!Cardinality({y \in S : Links!Before(y, x)})
               = Cardinality(Predecessors(S, R, x))
  <2>1. {y \in S : Links!Before(y, x)} = Predecessors(S, R, x)
    BY <1>r DEF Predecessors, RelationsBefore
  <2> QED
    BY <1>4, <2>1
<1>8. n \in Nat /\ Links!Cardinality(S) = n
  BY <1>2, <1>4, <1>n, FS_CardinalityType
<1>9. ASSUME NEW i \in 1 .. n
      PROVE  rows[i] \in S /\ Cardinality(Predecessors(S, R, rows[i])) = i - 1
  <2>1. \E x \in S : Links!Cardinality({y \in S : Links!Before(y, x)}) = i - 1
    BY <1>2, <1>3, <1>7, <1>n, PlaceTaken
  <2>2. /\ rows[i] \in S
        /\ Links!Cardinality({y \in S : Links!Before(y, rows[i])}) = i - 1
    BY <1>6, <1>8, <2>1
  <2> QED
    BY <1>7, <2>2
<1>10. rows \in [1 .. n -> S]
  BY <1>6, <1>8, <1>9
<1>11. Lists(rows, S, R)
  BY <1>2, <1>3, <1>9, <1>10, <1>n, ListIs
<1>12. RowsFor(relations, query, part, n, rows)
  BY <1>8, <1>10, <1>11, <1>n, <1>s DEF Lists, RowsFor
<1> QED
  BY <1>12

-----------------------------------------------------------------------------
(* The states of the search for substitutes. *)
Evidence == [candidate : Nat, type : SomeTypes, path : Seq(Nat)]

Searches == [seen    : SUBSET Nat,
             pending : Seq([part : Nat, path : Seq(Nat)]),
             results : Seq(Evidence)]

LEMMA ConsiderTyped ==
  ASSUME NEW query, NEW current \in [part : Nat, path : Seq(Nat)], NEW s \in Searches,
         NEW r \in [type : SomeTypes, child : Nat, parent : Nat]
  PROVE  Links!Consider(query, current, s, r) \in Searches
<1>c. PICK c : c = Links!Other(r, current.part)
  OBVIOUS
<1>p. PICK path : path = Append(current.path, c)
  OBVIOUS
<1>e. PICK e : e = [part |-> c, path |-> path]
  OBVIOUS
<1>v. PICK v : v = [candidate |-> c, type |-> r.type, path |-> path]
  OBVIOUS
<1>1. c \in Nat
  BY <1>c DEF Links!Other
<1>2. path \in Seq(Nat)
  BY <1>1, <1>p, AppendProperties
<1>3. e \in [part : Nat, path : Seq(Nat)]
  BY <1>1, <1>2, <1>e
<1>4. v \in Evidence
  BY <1>1, <1>2, <1>v DEF Evidence
<1>5. /\ s.seen \in SUBSET Nat /\ s.pending \in Seq([part : Nat, path : Seq(Nat)])
      /\ s.results \in Seq(Evidence)
  BY DEF Searches
<1>a. PICK a : a = s.seen \cup {c}
  OBVIOUS
<1>b. PICK b : b = Append(s.pending, e)
  OBVIOUS
<1>d. PICK d : d = Append(s.results, v)
  OBVIOUS
<1>6. /\ a \in SUBSET Nat /\ b \in Seq([part : Nat, path : Seq(Nat)])
      /\ d \in Seq(Evidence)
  BY <1>1, <1>3, <1>4, <1>5, <1>a, <1>b, <1>d, AppendProperties
<1>7. \/ Links!Consider(query, current, s, r) = s
      \/ Links!Consider(query, current, s, r) = [seen |-> a, pending |-> b, results |-> d]
  BY <1>c, <1>p, <1>e, <1>v, <1>a, <1>b, <1>d DEF Links!Consider
<1>8. [seen |-> a, pending |-> b, results |-> d] \in Searches
  BY <1>6 DEF Searches
<1> QED
  BY <1>7, <1>8

-----------------------------------------------------------------------------
(* The expansion of a part as one step for each row. *)
ExpansionIs(relations, query, current, first, next, n, rows, run) ==
  /\ n \in Nat /\ run \in [0 .. n -> Searches] /\ run[0] = first /\ run[n] = next
  /\ \A k \in 1 .. n : run[k] = Links!Consider(query, current, run[k - 1], rows[k])
  /\ IF Len(current.path) - 1 >= query.max_depth
       THEN n = 0 ELSE RowsFor(relations, query, current.part, n, rows)

LEMMA LinksMaxIs == \A S : Links!Max(S) = Max(S)
BY DEF Links!Max, Max

LEMMA ExpansionExists ==
  ASSUME NEW relations, Links!IsTable(relations), NEW query, NEW state \in Searches,
         state.pending # <<>>, NEW current, current = Head(state.pending),
         NEW first, first = [state EXCEPT !.pending = Tail(state.pending)],
         NEW next, next = Links!Expanded(relations, query, state)
  PROVE  /\ current \in [part : Nat, path : Seq(Nat)] /\ first \in Searches
         /\ \E n, rows, run : ExpansionIs(relations, query, current, first, next, n, rows, run)
<1>0. current \in [part : Nat, path : Seq(Nat)] /\ first \in Searches
  <2>1. /\ state.pending \in Seq([part : Nat, path : Seq(Nat)])
        /\ state.seen \in SUBSET Nat /\ state.results \in Seq(Evidence)
    BY DEF Searches
  <2>2. /\ Head(state.pending) \in [part : Nat, path : Seq(Nat)]
        /\ Tail(state.pending) \in Seq([part : Nat, path : Seq(Nat)])
    BY <2>1, HeadTailProperties
  <2>3. first = [seen |-> state.seen, pending |-> Tail(state.pending),
                 results |-> state.results]
    BY DEF Searches
  <2> QED
    BY <2>1, <2>2, <2>3 DEF Searches
<1>w. PICK rows : rows = IF Len(current.path) - 1 >= query.max_depth THEN <<>>
                         ELSE Links!Relationships(relations, current.part, query.direction,
                                                  SomeTypes)
  OBVIOUS
<1>1. \E n : /\ n \in Nat /\ DOMAIN rows = 1 .. n /\ \A k \in 1 .. n : rows[k] \in relations
             /\ IF Len(current.path) - 1 >= query.max_depth
                  THEN n = 0 ELSE RowsFor(relations, query, current.part, n, rows)
  <2>1. CASE Len(current.path) - 1 >= query.max_depth
    <3>1. rows = <<>> /\ 1 .. 0 = {}
      BY <1>w, <2>1
    <3>2. DOMAIN rows = 1 .. 0
      BY <3>1
    <3> QED
      BY <2>1, <3>1, <3>2
  <2>2. CASE ~(Len(current.path) - 1 >= query.max_depth)
    <3>1. rows = Links!Relationships(relations, current.part, query.direction, SomeTypes)
      BY <1>w, <2>2
    <3>2. PICK n : RowsFor(relations, query, current.part, n, rows)
      BY <3>1, RowsAre
    <3> QED
      BY <2>2, <3>2 DEF RowsFor
  <2> QED
    BY <2>1, <2>2
<1>2. PICK n : /\ n \in Nat /\ DOMAIN rows = 1 .. n /\ \A k \in 1 .. n : rows[k] \in relations
               /\ IF Len(current.path) - 1 >= query.max_depth
                    THEN n = 0 ELSE RowsFor(relations, query, current.part, n, rows)
  BY <1>1
<1> DEFINE Step(k, s) == Links!Consider(query, current, s, rows[k])
           step == [k \in 1 .. n |-> [s \in Searches |-> Step(k, s)]]
           Equation(iter) ==
             iter = [s \in SUBSET (DOMAIN rows) |->
                       IF s = {} THEN first
                       ELSE Step(Links!Max(s), iter[s \ {Links!Max(s)}])]
<1>3. ASSUME NEW k \in 1 .. n, NEW s \in Searches PROVE Step(k, s) \in Searches
  <2>1. rows[k] \in [type : SomeTypes, child : Nat, parent : Nat]
    BY <1>2 DEF Links!IsTable, SomeTypes
  <2> QED
    BY <1>0, <2>1, ConsiderTyped
<1>4. step \in [1 .. n -> [Searches -> Searches]]
  <2> HIDE DEF Step
  <2> QED
    BY <1>3
<1>5. ASSUME NEW k \in 1 .. n, NEW s \in Searches PROVE step[k][s] = Step(k, s)
  <2> HIDE DEF Step
  <2> QED
    OBVIOUS
<1> HIDE DEF step
<1>6. PICK g \in [SUBSET (1 .. n) -> Searches] : Folds(Searches, first, step, n, g)
  BY <1>0, <1>2, <1>4, FoldExists
<1>7. Equation(g)
  <2>1. ASSUME NEW s \in SUBSET (1 .. n), s # {}
        PROVE  g[s] = Step(Links!Max(s), g[s \ {Links!Max(s)}])
    <3>x. PICK x : x = Max(s)
      OBVIOUS
    <3>1. x \in 1 .. n
      BY <1>2, <2>1, <3>x, MaxIs
    <3>2. g[s] = step[x][g[s \ {x}]] /\ g[s \ {x}] \in Searches
      BY <1>6, <2>1, <3>x DEF Folds
    <3>3. Links!Max(s) = x
      BY <3>x, LinksMaxIs
    <3> HIDE DEF Step
    <3> QED
      BY <1>5, <3>1, <3>2, <3>3
  <2>2. g[{}] = first /\ g = [s \in SUBSET (1 .. n) |-> g[s]]
    BY <1>6 DEF Folds
  <2> HIDE DEF Step
  <2> QED
    BY <1>2, <2>1, <2>2
<1>i. PICK iter : iter = CHOOSE f : Equation(f)
  OBVIOUS
<1>8. Equation(iter)
  BY <1>7, <1>i
<1>9. next = iter[DOMAIN rows]
  <2>1. Links!TakeNext(state.pending) = <<current, Tail(state.pending)>>
    BY DEF Links!TakeNext
  <2> QED
    BY <1>i, <1>w, <2>1 DEF Links!Expanded, Links!FoldLeft, Links!MapThenFoldSet, SomeTypes
<1>10. RunTo(Searches, first, step, n, iter[1 .. n])
  <2>1. iter[{}] = first
    BY <1>8
  <2>2. ASSUME NEW s \in SUBSET (1 .. n), s # {}, iter[s \ {Max(s)}] \in Searches
        PROVE  iter[s] = step[Max(s)][iter[s \ {Max(s)}]]
    <3>x. PICK x : x = Max(s)
      OBVIOUS
    <3>1. x \in 1 .. n
      BY <1>2, <2>2, <3>x, MaxIs
    <3>2. Links!Max(s) = x
      BY <3>x, LinksMaxIs
    <3>3. iter[s] = Step(Links!Max(s), iter[s \ {Links!Max(s)}])
      BY <1>2, <1>8, <2>2
    <3> HIDE DEF Step, Equation
    <3> QED
      BY <1>5, <2>2, <3>x, <3>1, <3>2, <3>3
  <2> HIDE DEF Step, Equation
  <2>3. FoldsFrom(Searches, first, step, n, iter)
    BY <2>1, <2>2 DEF FoldsFrom
  <2> QED
    BY <1>0, <1>2, <1>4, <2>3, FoldIs
<1>11. PICK run : FoldRun(Searches, first, step, n, run) /\ run[n] = iter[1 .. n]
  BY <1>10 DEF RunTo
<1>12. ASSUME NEW k \in 1 .. n PROVE run[k] = Step(k, run[k - 1])
  <2>1. run[k] = step[k][run[k - 1]] /\ run[k - 1] \in Searches
    BY <1>2, <1>11 DEF FoldRun
  <2> HIDE DEF Step
  <2> QED
    BY <1>5, <2>1
<1>13. ExpansionIs(relations, query, current, first, next, n, rows, run)
  BY <1>2, <1>9, <1>11, <1>12 DEF ExpansionIs, FoldRun
<1> QED
  BY <1>0, <1>13

-----------------------------------------------------------------------------
(* The parts so many steps away and no nearer. *)
RingsAre(ring, relations, query) ==
  /\ DOMAIN ring = 0 .. query.max_depth /\ ring[0] = {query.part}
  /\ \A n \in 1 .. query.max_depth : \A x :
       x \in ring[n] <=> /\ \E p \in ring[n - 1] : Adjacent(relations, query, p, x)
                         /\ \A m \in 0 .. (n - 1) : x \notin ring[m]

LEMMA DistanceIs ==
  ASSUME NEW relations, NEW query, query.max_depth \in Nat
  PROVE  RingsAre(Distance(relations, query), relations, query)
<1>d. PICK d : d = query.max_depth
  OBVIOUS
<1> DEFINE Steps(part) ==
             {Links!Other(r, part) :
                r \in {q \in relations :
                         /\ Links!Offered(query, q)
                         /\ \/ query.direction # "children" /\ q.child = part
                            \/ query.direction # "parents" /\ q.parent = part}}
           Next1(g, n) == (UNION {Steps(part) : part \in g[n - 1]})
                           \ UNION {g[m] : m \in 0..(n - 1)}
           Body(g, n) == IF n = 0 THEN {query.part} ELSE Next1(g, n)
           Equation(k, g) == g = [n \in 0..k |-> Body(g, n)]
           T == {k \in Nat : \E g : Equation(k, g)}
<1>1. ASSUME NEW part, NEW x PROVE x \in Steps(part) <=> Adjacent(relations, query, part, x)
  BY DEF Adjacent, Asks
<1> HIDE DEF Steps
<1>2. 0 \in T
  <2>g. PICK g : g = [n \in 0 .. 0 |-> {query.part}]
    OBVIOUS
  <2>1. \A n \in 0 .. 0 : Body(g, n) = {query.part}
    OBVIOUS
  <2> HIDE DEF Body
  <2>2. Equation(0, g)
    BY <2>g, <2>1
  <2> QED
    BY <2>2
<1>3. ASSUME NEW k \in Nat, k \in T PROVE k + 1 \in T
  <2>1. PICK g : Equation(k, g)
    BY <1>3
  <2>l. PICK l : l = k + 1
    OBVIOUS
  <2>v. PICK v : v = Next1(g, l)
    OBVIOUS
  <2>h. PICK h : h = [n \in 0 .. l |-> IF n = l THEN v ELSE g[n]]
    OBVIOUS
  <2>2. \A n \in 0 .. k : h[n] = g[n] /\ n \in 0 .. l
    BY <2>h, <2>l
  <2>3. ASSUME NEW n \in 0 .. k PROVE Body(h, n) = Body(g, n)
    <3>1. CASE n = 0
      BY <3>1
    <3>2. CASE n # 0
      <4>1. n - 1 \in 0 .. k /\ \A m \in 0 .. (n - 1) : m \in 0 .. k
        BY <3>2
      <4>2. h[n - 1] = g[n - 1] /\ \A m \in 0 .. (n - 1) : h[m] = g[m]
        BY <2>2, <4>1
      <4>3. Next1(h, n) = Next1(g, n)
        BY <4>2
      <4> QED
        BY <3>2, <4>3
    <3> QED
      BY <3>1, <3>2
  <2>4. Body(h, l) = v
    <3>1. l # 0 /\ l - 1 \in 0 .. k /\ \A m \in 0 .. (l - 1) : m \in 0 .. k
      BY <2>l
    <3>2. h[l - 1] = g[l - 1] /\ \A m \in 0 .. (l - 1) : h[m] = g[m]
      BY <2>2, <3>1
    <3>3. Next1(h, l) = Next1(g, l)
      BY <3>2
    <3> QED
      BY <2>v, <3>1, <3>3
  <2> HIDE DEF Body
  <2>5. \A n \in 0 .. l : h[n] = Body(h, n)
    <3> SUFFICES ASSUME NEW n \in 0 .. l PROVE h[n] = Body(h, n)
      OBVIOUS
    <3>1. CASE n = l
      BY <2>4, <2>h, <3>1
    <3>2. CASE n # l
      <4>1. n \in 0 .. k
        BY <2>l, <3>2
      <4>2. g[n] = Body(g, n)
        BY <2>1, <4>1
      <4> QED
        BY <2>2, <2>3, <4>1, <4>2
    <3> QED
      BY <3>1, <3>2
  <2>6. h = [n \in 0 .. l |-> h[n]]
    BY <2>h
  <2>7. Equation(l, h)
    BY <2>5, <2>6
  <2> HIDE DEF Equation
  <2> QED
    BY <2>l, <2>7
<1> HIDE DEF T
<1>4. d \in T
  BY <1>d, <1>2, <1>3, Induct
<1>r. PICK ring : ring = CHOOSE g : Equation(d, g)
  OBVIOUS
<1>5. Equation(d, ring)
  <2>1. \E g : Equation(d, g)
    BY <1>4 DEF T
  <2> HIDE DEF Equation
  <2> QED
    BY <1>r, <2>1
<1>6. Distance(relations, query) = ring
  BY <1>d, <1>r DEF Distance, Steps
<1>7. DOMAIN ring = 0 .. d /\ \A n \in 0 .. d : ring[n] = Body(ring, n)
  <2> HIDE DEF Body
  <2> QED
    BY <1>5
<1>8. ring[0] = {query.part}
  <2>1. 0 \in 0 .. d
    BY <1>d
  <2>2. ring[0] = Body(ring, 0)
    BY <1>7, <2>1
  <2> QED
    BY <2>2
<1>9. ASSUME NEW n \in 1 .. d, NEW x
      PROVE  x \in ring[n] <=> /\ \E p \in ring[n - 1] : Adjacent(relations, query, p, x)
                               /\ \A m \in 0 .. (n - 1) : x \notin ring[m]
  <2>1. ring[n] = Next1(ring, n)
    <3>1. n \in 0 .. d /\ n # 0
      BY <1>d
    <3>2. ring[n] = Body(ring, n)
      BY <1>7, <3>1
    <3> HIDE DEF Next1
    <3> QED
      BY <3>1, <3>2
  <2>2. x \in UNION {Steps(part) : part \in ring[n - 1]}
          <=> \E p \in ring[n - 1] : Adjacent(relations, query, p, x)
    BY <1>1
  <2>3. x \in UNION {ring[m] : m \in 0..(n - 1)} <=> \E m \in 0 .. (n - 1) : x \in ring[m]
    OBVIOUS
  <2> QED
    BY <2>1, <2>2, <2>3
<1> QED
  BY <1>d, <1>6, <1>7, <1>8, <1>9 DEF RingsAre

-----------------------------------------------------------------------------
(* The part itself and the candidates so far, with their distances. *)
Places(s) == 0 .. Len(s.results)
PartOf(query, s, i) == IF i = 0 THEN query.part ELSE s.results[i].candidate
FarOf(s, i) == IF i = 0 THEN 0 ELSE Len(s.results[i].path) - 1

Known(query, s) ==
  /\ \A x : x \in s.seen <=> \E i \in Places(s) : PartOf(query, s, i) = x
  /\ \A i, j \in Places(s) : i # j => PartOf(query, s, i) # PartOf(query, s, j)

Placed(query, ring, s) ==
  /\ \A i \in Places(s) : /\ FarOf(s, i) \in 0 .. query.max_depth
                          /\ PartOf(query, s, i) \in ring[FarOf(s, i)]
  /\ \A i \in 1 .. Len(s.results) :
       FarOf(s, i) >= 1 /\ Links!Last(s.results[i].path) = s.results[i].candidate

Orderly(s) == \A i, j \in Places(s) : i < j => FarOf(s, i) <= FarOf(s, j)

(* Whatever is nearer than a candidate was seen. *)
Covered(ring, s) ==
  \A j \in Places(s) : \A m \in Nat : m < FarOf(s, j) => ring[m] \subseteq s.seen

(* From number k on they wait. *)
Queued(query, s, k) ==
  /\ Len(s.pending) = Len(s.results) + 1 - k
  /\ \A j \in 1 .. Len(s.pending) :
       /\ s.pending[j].part = PartOf(query, s, k + j - 1)
       /\ Len(s.pending[j].path) - 1 = FarOf(s, k + j - 1)

Full(query, s) == Len(s.results) >= query.max_candidates

(* What is adjacent to those before number k was seen. *)
Explored(relations, query, s, k) ==
  \A i \in Places(s) : i < k /\ FarOf(s, i) < query.max_depth =>
    \A x : Adjacent(relations, query, PartOf(query, s, i), x) => x \in s.seen

Within(s, d) == \A i \in Places(s) : FarOf(s, i) <= d + 1

Sound(query, ring, s) ==
  /\ s \in Searches /\ Len(s.results) <= query.max_candidates
  /\ Known(query, s) /\ Placed(query, ring, s) /\ Orderly(s) /\ Covered(ring, s)

(* Before number k is expanded. *)
Reached(relations, query, ring, s, k) ==
  /\ Sound(query, ring, s)
  /\ k <= Len(s.results) + 1 /\ Queued(query, s, k)
  /\ Full(query, s) \/ Explored(relations, query, s, k)
  /\ k <= Len(s.results) => Within(s, FarOf(s, k))

(* While number k is expanded, which is d steps away. *)
Between(relations, query, ring, s, k, d) ==
  /\ Sound(query, ring, s)
  /\ k <= Len(s.results) /\ Queued(query, s, k + 1)
  /\ Full(query, s) \/ Explored(relations, query, s, k)
  /\ FarOf(s, k) = d /\ d < query.max_depth /\ Within(s, d)

LEMMA RingsDisjoint ==
  ASSUME NEW relations, NEW query, query.max_depth \in Nat,
         NEW ring, RingsAre(ring, relations, query),
         NEW m \in 0 .. query.max_depth, NEW n \in 0 .. query.max_depth,
         NEW x, x \in ring[m], x \in ring[n]
  PROVE  m = n
<1>d. PICK d : d = query.max_depth
  OBVIOUS
<1>1. \A i \in 1 .. d : \A y : y \in ring[i] => \A j \in 0 .. (i - 1) : y \notin ring[j]
  BY <1>d DEF RingsAre
<1>2. ~(m < n)
  <2> SUFFICES ASSUME m < n PROVE FALSE
    OBVIOUS
  <2>1. n \in 1 .. d /\ m \in 0 .. (n - 1)
    BY <1>d
  <2> QED
    BY <1>1, <2>1
<1>3. ~(n < m)
  <2> SUFFICES ASSUME n < m PROVE FALSE
    OBVIOUS
  <2>1. m \in 1 .. d /\ n \in 0 .. (m - 1)
    BY <1>d
  <2> QED
    BY <1>1, <2>1
<1> QED
  BY <1>2, <1>3

(* The parts as near as the one that is expanded were seen. *)
LEMMA NearSeen ==
  ASSUME NEW relations, NEW query, query.max_depth \in Nat,
         NEW ring, RingsAre(ring, relations, query),
         NEW s, NEW k \in Nat, NEW d,
         Between(relations, query, ring, s, k, d), ~Full(query, s)
  PROVE  d \in Nat /\ \A m \in 0 .. d : ring[m] \subseteq s.seen
<1>l. PICK l : l = Len(s.results)
  OBVIOUS
<1>1. /\ l \in Nat /\ k \in 0 .. l /\ Places(s) = 0 .. l
  <2>1. s.results \in Seq(Evidence)
    BY DEF Between, Sound, Searches
  <2>2. l \in Nat
    BY <1>l, <2>1, LenProperties
  <2> QED
    BY <1>l, <2>2 DEF Between, Places
<1>2. /\ FarOf(s, k) = d /\ d < query.max_depth
      /\ Explored(relations, query, s, k) /\ Known(query, s) /\ Orderly(s)
      /\ \A m \in Nat : m < d => ring[m] \subseteq s.seen
  BY <1>1 DEF Between, Sound, Covered
<1>3. \A i \in 0 .. l : /\ FarOf(s, i) \in 0 .. query.max_depth
                        /\ PartOf(query, s, i) \in ring[FarOf(s, i)]
  BY <1>1 DEF Between, Sound, Placed
<1>4. d \in Nat
  BY <1>1, <1>2, <1>3
<1>5. ring[d] \subseteq s.seen
  <2>1. CASE d = 0
    <3>1. ring[0] = {query.part} /\ PartOf(query, s, 0) = query.part /\ 0 \in Places(s)
      BY <1>1 DEF RingsAre, PartOf
    <3> QED
      BY <1>2, <2>1, <3>1 DEF Known
  <2>2. CASE d # 0
    <3> SUFFICES ASSUME NEW x \in ring[d] PROVE x \in s.seen
      OBVIOUS
    <3>c. PICK c : c = d - 1
      OBVIOUS
    <3>1. d \in 1 .. query.max_depth /\ c \in Nat /\ c < d /\ c \in 0 .. query.max_depth
      BY <1>2, <1>4, <2>2, <3>c
    <3>2. \E p \in ring[c] : Adjacent(relations, query, p, x)
      BY <3>1, <3>c DEF RingsAre
    <3>3. PICK p \in ring[c] : Adjacent(relations, query, p, x)
      BY <3>2
    <3>4. p \in s.seen
      BY <1>2, <3>1
    <3>5. PICK i \in 0 .. l : PartOf(query, s, i) = p
      BY <1>1, <1>2, <3>4 DEF Known
    <3>6. FarOf(s, i) = c
      BY <1>3, <3>1, <3>5, RingsDisjoint
    <3>7. ~(k < i) /\ k # i
      BY <1>1, <1>2, <1>4, <3>1, <3>6 DEF Orderly
    <3>8. i < k /\ FarOf(s, i) < query.max_depth
      <4>1. i < k
        BY <1>1, <3>7
      <4> QED
        BY <1>2, <1>4, <3>1, <3>6, <4>1
    <3> QED
      BY <1>1, <1>2, <3>3, <3>5, <3>8 DEF Explored
  <2> QED
    BY <2>1, <2>2
<1>6. ASSUME NEW m \in 0 .. d PROVE ring[m] \subseteq s.seen
  <2>1. m \in Nat /\ (m < d \/ m = d)
    BY <1>4
  <2> QED
    BY <1>2, <1>5, <2>1
<1> QED
  BY <1>4, <1>6

(* The state with one candidate more. *)
Lengthened(query, s, t, v, l) ==
  /\ l \in Nat /\ Len(t.results) = l + 1
  /\ Places(s) = 0 .. l /\ Places(t) = (0 .. l) \cup {l + 1}
  /\ \A i \in 0 .. l : PartOf(query, t, i) = PartOf(query, s, i) /\ FarOf(t, i) = FarOf(s, i)
  /\ PartOf(query, t, l + 1) = v.candidate /\ FarOf(t, l + 1) = Len(v.path) - 1
  /\ \A i \in 1 .. l : t.results[i] = s.results[i]
  /\ t.results[l + 1] = v

LEMMA OneMore ==
  ASSUME NEW query, NEW s \in Searches, NEW l, l = Len(s.results),
         NEW v \in Evidence, NEW t, t.results = Append(s.results, v)
  PROVE  Lengthened(query, s, t, v, l)
<1>1. s.results \in Seq(Evidence)
  BY DEF Searches
<1>2. l \in Nat
  BY <1>1, LenProperties
<1>3. Len(t.results) = l + 1 /\ t.results[l + 1] = v
      /\ \A i \in 1 .. l : t.results[i] = s.results[i]
  BY <1>1, AppendProperties
<1>4. Places(s) = 0 .. l /\ Places(t) = (0 .. l) \cup {l + 1}
  BY <1>2, <1>3 DEF Places
<1>5. ASSUME NEW i \in 0 .. l
      PROVE  PartOf(query, t, i) = PartOf(query, s, i) /\ FarOf(t, i) = FarOf(s, i)
  <2>1. i = 0 \/ i \in 1 .. l
    BY <1>2
  <2> QED
    BY <1>3, <2>1 DEF PartOf, FarOf
<1>6. PartOf(query, t, l + 1) = v.candidate /\ FarOf(t, l + 1) = Len(v.path) - 1
  <2>1. l + 1 # 0
    BY <1>2
  <2> QED
    BY <1>3, <2>1 DEF PartOf, FarOf
<1> QED
  BY <1>2, <1>3, <1>4, <1>5, <1>6 DEF Lengthened

-----------------------------------------------------------------------------
(* One row more was considered. *)
Considered(relations, query, ring, s, t, k, d, r, part) ==
  /\ Between(relations, query, ring, t, k, d)
  /\ s.seen \subseteq t.seen /\ PartOf(query, t, k) = part
  /\ Full(query, s) => t = s
  /\ Full(query, t) \/ (Links!Offered(query, r) => Links!Other(r, part) \in t.seen)

Onward(relations, query, ring, s, t, k, d) ==
  Between(relations, query, ring, t, k, d) /\ PartOf(query, t, k) = PartOf(query, s, k)

(* A candidate more: it is the next one away. *)
LEMMA Found ==
  ASSUME NEW relations, NEW query, query.max_depth \in Nat, query.max_candidates \in Nat,
         NEW ring, RingsAre(ring, relations, query),
         NEW s, NEW k \in Nat, NEW d, Between(relations, query, ring, s, k, d),
         ~Full(query, s),
         NEW c \in Nat, c \notin s.seen, Adjacent(relations, query, PartOf(query, s, k), c),
         NEW path \in Seq(Nat), Len(path) - 1 = d + 1, Links!Last(path) = c,
         NEW v \in Evidence, v.candidate = c, v.path = path,
         NEW e \in [part : Nat, path : Seq(Nat)], e.part = c, e.path = path,
         NEW t \in Searches, t.seen = s.seen \cup {c}, t.pending = Append(s.pending, e),
         t.results = Append(s.results, v)
  PROVE  Onward(relations, query, ring, s, t, k, d)
<1>l. PICK l : l = Len(s.results)
  OBVIOUS
<1>p. PICK p : p = Len(s.pending)
  OBVIOUS
<1>1. s \in Searches
  BY DEF Between, Sound
<1>2. /\ l \in Nat /\ Len(t.results) = l + 1
      /\ Places(s) = 0 .. l /\ Places(t) = (0 .. l) \cup {l + 1}
      /\ \A i \in 0 .. l : /\ PartOf(query, t, i) = PartOf(query, s, i)
                           /\ FarOf(t, i) = FarOf(s, i)
      /\ PartOf(query, t, l + 1) = c /\ FarOf(t, l + 1) = d + 1
      /\ \A i \in 1 .. l : t.results[i] = s.results[i]
      /\ t.results[l + 1] = v
  <2>1. Lengthened(query, s, t, v, l)
    BY <1>1, <1>l, OneMore
  <2>2. v.candidate = c /\ Len(v.path) - 1 = d + 1
    OBVIOUS
  <2> QED
    BY <2>1, <2>2 DEF Lengthened
<1>m. PICK max : max = query.max_depth
  OBVIOUS
<1>3. /\ k \in 0 .. l /\ FarOf(s, k) = d /\ d < query.max_depth /\ d \in Nat
      /\ Within(s, d) /\ Queued(query, s, k + 1) /\ Explored(relations, query, s, k)
      /\ Known(query, s) /\ Placed(query, ring, s) /\ Orderly(s) /\ Covered(ring, s)
      /\ ~(l >= query.max_candidates) /\ \A m \in 0 .. d : ring[m] \subseteq s.seen
  <2>1. d \in Nat /\ \A m \in 0 .. d : ring[m] \subseteq s.seen
    BY NearSeen
  <2> QED
    BY <1>2, <1>l, <2>1 DEF Between, Sound, Full
<1>4. c \in ring[d + 1]
  <2>e. PICK f : f = d + 1
    OBVIOUS
  <2>0. d \in Nat /\ max \in Nat /\ d < max
    BY <1>3, <1>m
  <2>1. f \in 1 .. query.max_depth /\ f - 1 = d
    <3>1. f \in 1 .. max /\ f - 1 = d
      BY <2>0, <2>e
    <3> QED
      BY <1>m, <3>1
  <2>2. PartOf(query, s, k) \in ring[f - 1]
    BY <1>2, <1>3, <2>1 DEF Placed
  <2>3. \A m \in 0 .. (f - 1) : c \notin ring[m]
    BY Zenon, <1>3, <2>1
  <2> QED
    BY <2>1, <2>2, <2>3, <2>e DEF RingsAre
<1>5. Known(query, t)
  <2>1. ASSUME NEW x PROVE x \in t.seen <=> \E i \in Places(t) : PartOf(query, t, i) = x
    <3>1. x \in s.seen <=> \E i \in 0 .. l : PartOf(query, s, i) = x
      BY <1>2, <1>3 DEF Known
    <3> QED
      BY <1>2, <3>1
  <2>2. ASSUME NEW i \in Places(t), NEW j \in Places(t), i # j
        PROVE  PartOf(query, t, i) # PartOf(query, t, j)
    <3>1. ASSUME NEW a \in 0 .. l PROVE PartOf(query, s, a) # c
      BY <1>2, <1>3 DEF Known
    <3>2. CASE i \in 0 .. l /\ j \in 0 .. l
      BY <1>2, <1>3, <2>2, <3>2 DEF Known
    <3>3. CASE i = l + 1 /\ j \in 0 .. l
      BY <1>2, <3>1, <3>3
    <3>4. CASE j = l + 1 /\ i \in 0 .. l
      BY <1>2, <3>1, <3>4
    <3> QED
      BY <1>2, <2>2, <3>2, <3>3, <3>4
  <2> QED
    BY <2>1, <2>2 DEF Known
<1>6. Placed(query, ring, t)
  <2>1. ASSUME NEW i \in Places(t)
        PROVE  FarOf(t, i) \in 0 .. query.max_depth /\ PartOf(query, t, i) \in ring[FarOf(t, i)]
    <3>1. CASE i \in 0 .. l
      BY <1>2, <1>3, <3>1 DEF Placed
    <3>2. CASE i = l + 1
      <4>1. d + 1 \in 0 .. query.max_depth
        BY <1>3
      <4> QED
        BY <1>2, <1>4, <3>2, <4>1
    <3> QED
      BY <1>2, <3>1, <3>2
  <2>2. ASSUME NEW i \in 1 .. Len(t.results)
        PROVE  FarOf(t, i) >= 1 /\ Links!Last(t.results[i].path) = t.results[i].candidate
    <3>1. CASE i \in 1 .. l
      <4>1. i \in 0 .. l /\ t.results[i] = s.results[i]
        BY <1>2, <3>1
      <4>2. FarOf(s, i) >= 1 /\ Links!Last(s.results[i].path) = s.results[i].candidate
        BY <1>3, <1>l, <3>1 DEF Placed
      <4> QED
        BY <1>2, <4>1, <4>2
    <3>2. CASE i = l + 1
      <4>1. d + 1 >= 1
        BY <1>3
      <4> QED
        BY <1>2, <3>2, <4>1
    <3>3. i \in 1 .. l \/ i = l + 1
      BY <1>2, <2>2
    <3> QED
      BY <3>1, <3>2, <3>3
  <2> QED
    BY <2>1, <2>2 DEF Placed
<1>7. ASSUME NEW i \in 0 .. l PROVE FarOf(s, i) <= d + 1 /\ FarOf(s, i) \in Nat
  <2>1. i \in Places(s)
    BY <1>2
  <2>2. FarOf(s, i) <= d + 1
    BY <1>3, <2>1 DEF Within
  <2>3. FarOf(s, i) \in 0 .. query.max_depth
    BY <1>3, <2>1 DEF Placed
  <2> QED
    BY <2>2, <2>3
<1>8. Orderly(t)
  <2>1. ASSUME NEW i \in Places(t), NEW j \in Places(t), i < j
        PROVE  FarOf(t, i) <= FarOf(t, j)
    <3>1. i \in 0 .. l
      BY <1>2, <2>1
    <3>2. CASE j \in 0 .. l
      BY <1>2, <1>3, <2>1, <3>1, <3>2 DEF Orderly
    <3>3. CASE j = l + 1
      BY <1>2, <1>7, <3>1, <3>3
    <3> QED
      BY <1>2, <3>2, <3>3
  <2> QED
    BY <2>1 DEF Orderly
<1>9. Covered(ring, t)
  <2>1. ASSUME NEW j \in Places(t), NEW m \in Nat, m < FarOf(t, j) PROVE ring[m] \subseteq t.seen
    <3>1. CASE j \in 0 .. l
      BY <1>2, <1>3, <2>1, <3>1 DEF Covered
    <3>2. CASE j = l + 1
      <4>1. m \in 0 .. d
        BY <1>2, <1>3, <2>1, <3>2
      <4> QED
        BY <1>3, <4>1
    <3> QED
      BY <1>2, <3>1, <3>2
  <2> QED
    BY <2>1 DEF Covered
<1>10. Queued(query, t, k + 1)
  <2>1. p \in Nat /\ s.pending \in Seq([part : Nat, path : Seq(Nat)])
    BY <1>1, <1>p, LenProperties DEF Searches
  <2>2. p = l + 1 - (k + 1)
    BY <1>3, <1>l, <1>p DEF Queued
  <2>3. /\ Len(t.pending) = p + 1 /\ t.pending[p + 1] = e
        /\ \A j \in 1 .. p : t.pending[j] = s.pending[j]
    BY <1>p, <2>1, AppendProperties
  <2>4. ASSUME NEW j \in 1 .. (p + 1)
        PROVE  /\ t.pending[j].part = PartOf(query, t, (k + 1) + j - 1)
               /\ Len(t.pending[j].path) - 1 = FarOf(t, (k + 1) + j - 1)
    <3>1. CASE j \in 1 .. p
      <4>i. PICK i : i = (k + 1) + j - 1
        OBVIOUS
      <4>1. i \in 0 .. l
        BY <1>2, <1>3, <2>1, <2>2, <3>1, <4>i
      <4>2. /\ s.pending[j].part = PartOf(query, s, i)
            /\ Len(s.pending[j].path) - 1 = FarOf(s, i)
        BY <1>3, <1>p, <3>1, <4>i DEF Queued
      <4> QED
        BY <1>2, <2>3, <3>1, <4>1, <4>2, <4>i
    <3>2. CASE j = p + 1
      <4>1. (k + 1) + j - 1 = l + 1
        BY <1>2, <1>3, <2>1, <2>2, <3>2
      <4> QED
        BY <1>2, <2>3, <3>2, <4>1
    <3>3. j \in 1 .. p \/ j = p + 1
      BY <2>1, <2>4
    <3> QED
      BY <3>1, <3>2, <3>3
  <2>5. Len(t.pending) = Len(t.results) + 1 - (k + 1)
    BY <1>2, <1>3, <2>1, <2>2, <2>3
  <2> QED
    BY <2>3, <2>4, <2>5 DEF Queued
<1>11. Explored(relations, query, t, k)
  <2>1. ASSUME NEW i \in Places(t), i < k, FarOf(t, i) < query.max_depth,
               NEW x, Adjacent(relations, query, PartOf(query, t, i), x)
        PROVE  x \in t.seen
    <3>1. i \in 0 .. l
      BY <1>2, <1>3, <2>1
    <3>2. x \in s.seen
      BY <1>2, <1>3, <2>1, <3>1 DEF Explored
    <3> QED
      BY <3>2
  <2> QED
    BY <2>1 DEF Explored
<1>12. Within(t, d)
  <2>1. ASSUME NEW i \in Places(t) PROVE FarOf(t, i) <= d + 1
    <3>1. CASE i \in 0 .. l
      BY <1>2, <1>7, <3>1
    <3>2. CASE i = l + 1
      BY <1>2, <1>3, <3>2
    <3> QED
      BY <1>2, <3>1, <3>2
  <2> QED
    BY <2>1 DEF Within
<1>13. Sound(query, ring, t)
  <2>1. Len(t.results) <= query.max_candidates
    BY <1>2, <1>3
  <2> QED
    BY <1>5, <1>6, <1>8, <1>9, <2>1 DEF Sound
<1> QED
  BY <1>2, <1>3, <1>10, <1>11, <1>12, <1>13 DEF Between, Onward

LEMMA RowConsidered ==
  ASSUME NEW relations, Links!IsTable(relations),
         NEW query, query.max_depth \in Nat, query.max_candidates \in Nat,
         NEW ring, RingsAre(ring, relations, query),
         NEW s, NEW k \in Nat, NEW d, Between(relations, query, ring, s, k, d),
         NEW current \in [part : Nat, path : Seq(Nat)],
         current.part = PartOf(query, s, k), Len(current.path) - 1 = d,
         NEW r \in relations, Asks(query, r, current.part),
         NEW t, t = Links!Consider(query, current, s, r)
  PROVE  Considered(relations, query, ring, s, t, k, d, r, current.part)
<1>c. PICK c : c = Links!Other(r, current.part)
  OBVIOUS
<1>p. PICK path : path = Append(current.path, c)
  OBVIOUS
<1>e. PICK e : e = [part |-> c, path |-> path]
  OBVIOUS
<1>v. PICK v : v = [candidate |-> c, type |-> r.type, path |-> path]
  OBVIOUS
<1>1. s \in Searches /\ r \in [type : SomeTypes, child : Nat, parent : Nat]
  BY DEF Between, Sound, Links!IsTable, SomeTypes
<1>2. t \in Searches
  BY <1>1, ConsiderTyped
<1>3. c \in Nat /\ r.type \in SomeTypes
  BY <1>1, <1>c DEF Links!Other
<1>4. /\ path \in Seq(Nat) /\ Len(path) = Len(current.path) + 1
      /\ path[Len(path)] = c /\ Len(current.path) \in Nat
  BY <1>3, <1>p, AppendProperties, LenProperties
<1>5. Links!Last(path) = c
  BY <1>4 DEF Links!Last
<1>6. v \in Evidence /\ v.candidate = c /\ v.path = path /\ e.part = c /\ e.path = path
  BY <1>3, <1>4, <1>v, <1>e DEF Evidence
<1>7. Full(query, s) \/ ~Links!Offered(query, r) \/ c \in s.seen => t = s
  BY <1>c DEF Links!Consider, Full
<1>8. CASE ~Full(query, s) /\ Links!Offered(query, r) /\ c \notin s.seen
  <2>1. t = [seen |-> s.seen \cup {c}, pending |-> Append(s.pending, e),
             results |-> Append(s.results, v)]
    BY <1>8, <1>c, <1>p, <1>e, <1>v DEF Links!Consider, Full
  <2>2. /\ t.seen = s.seen \cup {c} /\ t.pending = Append(s.pending, e)
        /\ t.results = Append(s.results, v)
    BY <2>1
  <2>3. Adjacent(relations, query, PartOf(query, s, k), c)
    BY <1>8, <1>c DEF Adjacent
  <2>4. Len(path) - 1 = d + 1
    BY <1>4
  <2>6. e \in [part : Nat, path : Seq(Nat)]
    BY <1>3, <1>4, <1>e
  <2>5. Onward(relations, query, ring, s, t, k, d)
    BY <2>6, <1>2, <1>3, <1>4, <1>5, <1>6, <1>8, <2>2, <2>3, <2>4, Found
  <2> QED
    BY <1>8, <1>c, <2>2, <2>5 DEF Considered, Onward
<1>9. CASE Full(query, s) \/ ~Links!Offered(query, r) \/ c \in s.seen
  <2>1. t = s
    BY <1>7, <1>9
  <2> QED
    BY <1>9, <1>c, <2>1 DEF Considered
<1> QED
  BY <1>8, <1>9

-----------------------------------------------------------------------------
(* The rows so far were considered. *)
Going(relations, query, ring, s, k, d, part, rows, m) ==
  /\ Between(relations, query, ring, s, k, d) /\ PartOf(query, s, k) = part
  /\ \/ Full(query, s)
     \/ \A j \in 1 .. m : Links!Offered(query, rows[j]) => Links!Other(rows[j], part) \in s.seen

LEMMA RowsConsidered ==
  ASSUME NEW relations, Links!IsTable(relations),
         NEW query, query.max_depth \in Nat, query.max_candidates \in Nat,
         NEW ring, RingsAre(ring, relations, query),
         NEW current \in [part : Nat, path : Seq(Nat)], NEW first, NEW next,
         NEW n, NEW rows, NEW run,
         ExpansionIs(relations, query, current, first, next, n, rows, run),
         NEW k \in Nat, NEW d, Between(relations, query, ring, first, k, d),
         current.part = PartOf(query, first, k), Len(current.path) - 1 = d
  PROVE  /\ n \in Nat /\ RowsFor(relations, query, current.part, n, rows)
         /\ Going(relations, query, ring, next, k, d, current.part, rows, n)
<1>p. PICK part : part = current.part
  OBVIOUS
<1>1. /\ n \in Nat /\ RowsFor(relations, query, part, n, rows)
      /\ run[0] = first /\ run[n] = next
      /\ \A m \in 1 .. n : run[m] = Links!Consider(query, current, run[m - 1], rows[m])
  <2>1. ~(Len(current.path) - 1 >= query.max_depth)
    <3>m. PICK max : max = query.max_depth
      OBVIOUS
    <3>1. Len(current.path) \in Nat
      BY LenProperties
    <3>2. d < max /\ max \in Nat /\ d \in Int
      BY <3>1, <3>m DEF Between
    <3>3. Len(current.path) - 1 = d
      OBVIOUS
    <3>4. ~(d >= max)
      BY <3>2
    <3> QED
      BY <3>3, <3>4, <3>m
  <2> QED
    BY <1>p, <2>1 DEF ExpansionIs
<1> DEFINE P(m) == Going(relations, query, ring, run[m], k, d, part, rows, m)
           T == {m \in Nat : m <= n => P(m)}
<1>2. 0 \in T
  <2>1. 1 .. 0 = {}
    OBVIOUS
  <2>2. Between(relations, query, ring, run[0], k, d) /\ PartOf(query, run[0], k) = part
    BY <1>1, <1>p
  <2>3. P(0)
    BY <2>1, <2>2 DEF Going
  <2> HIDE DEF P
  <2> QED
    BY <2>3
<1>3. ASSUME NEW m \in Nat, m \in T PROVE m + 1 \in T
  <2> SUFFICES ASSUME m + 1 <= n PROVE P(m + 1)
    <3> HIDE DEF P
    <3> QED
      OBVIOUS
  <2>j. PICK j : j = m + 1
    OBVIOUS
  <2>1. j \in 1 .. n /\ m <= n /\ j - 1 = m
    BY <1>1, <2>j
  <2>2. P(m)
    <3> HIDE DEF P
    <3> QED
      BY <1>3, <2>1
  <2>s. PICK s : s = run[m]
    OBVIOUS
  <2>t. PICK t : t = run[j]
    OBVIOUS
  <2>r. PICK r : r = rows[j]
    OBVIOUS
  <2>3. t = Links!Consider(query, current, s, r)
    BY <1>1, <2>1, <2>s, <2>t, <2>r
  <2>4. r \in relations /\ Asks(query, r, part)
    BY <1>1, <2>1, <2>r DEF RowsFor
  <2>5. /\ Between(relations, query, ring, s, k, d) /\ PartOf(query, s, k) = part
        /\ \/ Full(query, s)
           \/ \A i \in 1 .. m :
                Links!Offered(query, rows[i]) => Links!Other(rows[i], part) \in s.seen
    BY <2>2, <2>s DEF Going
  <2>6. Considered(relations, query, ring, s, t, k, d, r, part)
    BY <1>p, <2>3, <2>4, <2>5, RowConsidered
  <2>7. \/ Full(query, t)
        \/ \A i \in 1 .. j :
             Links!Offered(query, rows[i]) => Links!Other(rows[i], part) \in t.seen
    <3> SUFFICES ASSUME ~Full(query, t), NEW i \in 1 .. j, Links!Offered(query, rows[i])
                 PROVE  Links!Other(rows[i], part) \in t.seen
      OBVIOUS
    <3>1. CASE i = j
      BY <2>6, <2>r, <3>1 DEF Considered
    <3>2. CASE i # j
      <4>1. i \in 1 .. m
        BY <2>j, <3>2
      <4>2. ~Full(query, s)
        BY <2>6 DEF Considered
      <4> QED
        BY <2>5, <2>6, <4>1, <4>2 DEF Considered
    <3> QED
      BY <3>1, <3>2
  <2>8. Going(relations, query, ring, t, k, d, part, rows, j)
    BY <2>6, <2>7 DEF Going, Considered
  <2> QED
    BY <2>8, <2>j, <2>t
<1> HIDE DEF T
<1>4. n \in T
  BY <1>1, <1>2, <1>3, Induct
<1>5. P(n)
  <2> HIDE DEF P
  <2> QED
    BY <1>1, <1>4 DEF T
<1> QED
  BY <1>1, <1>5, <1>p

(* What was seen and found decides whether it is sound. *)
LEMMA SoundAgain ==
  ASSUME NEW query, NEW ring, NEW s, Sound(query, ring, s),
         NEW t \in Searches, t.seen = s.seen, t.results = s.results
  PROVE  /\ Sound(query, ring, t) /\ Places(t) = Places(s)
         /\ \A i : PartOf(query, t, i) = PartOf(query, s, i) /\ FarOf(t, i) = FarOf(s, i)
<1>1. /\ Places(t) = Places(s)
      /\ \A i : PartOf(query, t, i) = PartOf(query, s, i) /\ FarOf(t, i) = FarOf(s, i)
  BY DEF Places, PartOf, FarOf
<1>2. Known(query, t)
  BY <1>1 DEF Sound, Known
<1>3. Placed(query, ring, t)
  BY <1>1 DEF Sound, Placed
<1>4. Orderly(t)
  BY <1>1 DEF Sound, Orderly
<1>5. Covered(ring, t)
  BY <1>1 DEF Sound, Covered
<1> QED
  BY <1>1, <1>2, <1>3, <1>4, <1>5 DEF Sound

LEMMA PartExpanded ==
  ASSUME NEW relations, Links!IsTable(relations),
         NEW query, query.max_depth \in Nat, query.max_candidates \in Nat,
         NEW ring, RingsAre(ring, relations, query),
         NEW state, NEW k \in Nat, Reached(relations, query, ring, state, k),
         state.pending # <<>>, ~Full(query, state),
         NEW next, next = Links!Expanded(relations, query, state)
  PROVE  Reached(relations, query, ring, next, k + 1)
<1>d. PICK d : d = FarOf(state, k)
  OBVIOUS
<1>l. PICK l : l = Len(state.results)
  OBVIOUS
<1>q. PICK q : q = k + 1
  OBVIOUS
<1>m. PICK max : max = query.max_depth
  OBVIOUS
<1>c. PICK current : current = Head(state.pending)
  OBVIOUS
<1>f. PICK first : first = [state EXCEPT !.pending = Tail(state.pending)]
  OBVIOUS
<1>1. state \in Searches /\ Sound(query, ring, state)
  BY DEF Reached, Sound
<1>2. /\ state.pending \in Seq([part : Nat, path : Seq(Nat)])
      /\ l \in Nat /\ Len(state.pending) \in Nat
  BY <1>1, <1>l, LenProperties DEF Searches
<1>3. /\ Len(state.pending) >= 1 /\ k <= l /\ k \in 0 .. l /\ Places(state) = 0 .. l
      /\ current = state.pending[1]
      /\ Len(Tail(state.pending)) = Len(state.pending) - 1
      /\ \A j \in 1 .. (Len(state.pending) - 1) :
           Tail(state.pending)[j] = state.pending[j + 1]
  <2>1. Len(state.pending) # 0
    BY <1>2, EmptySeq
  <2>2. Len(state.pending) = l + 1 - k
    BY <1>l DEF Reached, Queued
  <2>3. Len(state.pending) >= 1 /\ k <= l /\ k \in 0 .. l
    BY <1>2, <2>1, <2>2
  <2>4. Places(state) = 0 .. l
    BY <1>l DEF Places
  <2>5. /\ current = state.pending[1]
        /\ Len(Tail(state.pending)) = Len(state.pending) - 1
        /\ \A j \in 1 .. (Len(state.pending) - 1) :
             Tail(state.pending)[j] = state.pending[j + 1]
    BY <1>2, <1>c, HeadTailProperties
  <2> QED
    BY <2>3, <2>4, <2>5
<1>4. /\ current \in [part : Nat, path : Seq(Nat)] /\ first \in Searches
      /\ \E n, rows, run :
           ExpansionIs(relations, query, current, first, next, n, rows, run)
  BY <1>1, <1>c, <1>f, ExpansionExists
<1>5. PICK n, rows, run : ExpansionIs(relations, query, current, first, next, n, rows, run)
  BY <1>4
<1>6. current.part = PartOf(query, state, k) /\ Len(current.path) - 1 = d
  <2>1. 1 \in 1 .. Len(state.pending) /\ k + 1 - 1 = k
    BY <1>2, <1>3
  <2> QED
    BY <1>3, <1>d, <2>1 DEF Reached, Queued
<1>7. first.seen = state.seen /\ first.results = state.results
      /\ first.pending = Tail(state.pending)
  BY <1>1, <1>f DEF Searches
<1>8. /\ Sound(query, ring, first) /\ Places(first) = Places(state)
      /\ \A i : PartOf(query, first, i) = PartOf(query, state, i)
                /\ FarOf(first, i) = FarOf(state, i)
  BY <1>1, <1>4, <1>7, SoundAgain
<1>9. Queued(query, first, q)
  <2>a. PICK a : a = Len(state.pending)
    OBVIOUS
  <2>3. a \in Nat /\ Len(first.pending) = a - 1 /\ Len(first.results) = l
    BY <1>2, <1>3, <1>7, <1>l, <2>a
  <2>4. a = l + 1 - k
    BY <1>l, <2>a DEF Reached, Queued
  <2>5. a - 1 = l + 1 - q
    BY <1>2, <1>q, <2>3, <2>4
  <2>1. Len(first.pending) = Len(first.results) + 1 - q
    BY <2>3, <2>5
  <2>2. ASSUME NEW j \in 1 .. Len(first.pending)
        PROVE  /\ first.pending[j].part = PartOf(query, first, q + j - 1)
               /\ Len(first.pending[j].path) - 1 = FarOf(first, q + j - 1)
    <3>i. PICK i : i = j + 1
      OBVIOUS
    <3>1. i \in 1 .. Len(state.pending) /\ q + j - 1 = k + i - 1
          /\ j \in 1 .. (Len(state.pending) - 1)
      <4>1. j \in 1 .. (a - 1)
        BY <2>3
      <4>2. j \in Int /\ 1 <= j /\ j + 1 <= a
        BY <2>3, <4>1
      <4>3. i \in 1 .. a /\ q + j - 1 = k + i - 1
        BY <1>q, <2>3, <3>i, <4>2
      <4> QED
        BY <2>a, <4>1, <4>3
    <3>2. first.pending[j] = state.pending[i]
      BY <1>3, <1>7, <3>1, <3>i
    <3>3. /\ state.pending[i].part = PartOf(query, state, k + i - 1)
          /\ Len(state.pending[i].path) - 1 = FarOf(state, k + i - 1)
      BY <3>1 DEF Reached, Queued
    <3> QED
      BY <1>8, <3>1, <3>2, <3>3
  <2> QED
    BY <2>1, <2>2 DEF Queued
<1>10. /\ Explored(relations, query, state, k) /\ Within(state, d)
       /\ Orderly(state) /\ Placed(query, ring, state)
  BY <1>3, <1>d, <1>l DEF Reached, Sound
<1>11. Explored(relations, query, first, k) /\ Within(first, d) /\ Orderly(first)
  <2>1. Explored(relations, query, first, k)
    BY <1>7, <1>8, <1>10 DEF Explored
  <2>2. Within(first, d)
    BY <1>8, <1>10 DEF Within
  <2> QED
    BY <1>8, <2>1, <2>2 DEF Sound
<1>12. d \in Nat /\ max \in Nat
  <2>1. FarOf(state, k) \in 0 .. query.max_depth
    BY <1>3, <1>10 DEF Placed
  <2> QED
    BY <1>d, <1>m, <2>1
<1>13. ASSUME NEW s, Sound(query, ring, s), Within(s, d), FarOf(s, k) = d,
              q <= Len(s.results)
       PROVE  Within(s, FarOf(s, q))
  <2>1. Len(s.results) \in Nat
    BY <1>13, LenProperties DEF Sound, Searches
  <2>2. k \in Places(s) /\ q \in Places(s) /\ k < q
    BY <1>13, <1>q, <2>1 DEF Places
  <2>e. PICK e : e = FarOf(s, q)
    OBVIOUS
  <2>3. d <= e /\ e \in Int
    <3>1. FarOf(s, k) <= FarOf(s, q)
      BY <1>13, <2>2 DEF Sound, Orderly
    <3>2. FarOf(s, q) \in 0 .. query.max_depth
      BY <1>13, <2>2 DEF Sound, Placed
    <3> QED
      BY <1>13, <2>e, <3>1, <3>2
  <2>4. ASSUME NEW i \in Places(s) PROVE FarOf(s, i) <= e + 1
    <3>1. FarOf(s, i) \in 0 .. query.max_depth
      BY <1>13 DEF Sound, Placed
    <3>2. FarOf(s, i) <= d + 1
      BY <1>13 DEF Within
    <3>g. PICK g : g = FarOf(s, i)
      OBVIOUS
    <3>3. g \in Int /\ g <= d + 1
      BY <3>1, <3>2, <3>g
    <3>4. g <= e + 1
      BY <1>12, <2>3, <3>3
    <3> QED
      BY <3>4, <3>g
  <2> QED
    BY <2>4, <2>e DEF Within
<1>14. CASE d >= max
  <2>1. next = first
    <3>1. n = 0 /\ run[0] = first /\ run[n] = next
      BY <1>5, <1>6, <1>14, <1>m DEF ExpansionIs
    <3> QED
      BY <3>1
  <2>2. Explored(relations, query, first, q)
    <3> SUFFICES ASSUME NEW i \in Places(first), i < q, FarOf(first, i) < query.max_depth,
                        NEW x, Adjacent(relations, query, PartOf(query, first, i), x)
                 PROVE  x \in first.seen
      BY DEF Explored
    <3>1. i # k
      BY <1>8, <1>12, <1>14, <1>d, <1>m
    <3>2. i < k
      BY <1>3, <1>8, <1>q, <3>1
    <3> QED
      BY <1>11, <3>2 DEF Explored
  <2>3. q <= Len(first.results) + 1
    BY <1>2, <1>3, <1>7, <1>l, <1>q
  <2>4. q <= Len(first.results) => Within(first, FarOf(first, q))
    BY <1>8, <1>11, <1>13, <1>d
  <2> QED
    BY <1>8, <1>9, <1>q, <2>1, <2>2, <2>3, <2>4 DEF Reached
<1>15. CASE d < max
  <2>1. Between(relations, query, ring, first, k, d)
    <3>1. k <= Len(first.results)
      BY <1>3, <1>7, <1>l
    <3> QED
      BY <1>8, <1>9, <1>11, <1>15, <1>d, <1>m, <1>q, <3>1 DEF Between
  <2>2. /\ n \in Nat /\ RowsFor(relations, query, current.part, n, rows)
        /\ Going(relations, query, ring, next, k, d, current.part, rows, n)
    BY <1>4, <1>5, <1>6, <1>8, <2>1, RowsConsidered
  <2>3. Between(relations, query, ring, next, k, d) /\ PartOf(query, next, k) = current.part
    BY <2>2 DEF Going
  <2>4. Len(next.results) \in Nat /\ k <= Len(next.results) /\ k \in Places(next)
    <3>1. next.results \in Seq(Evidence) /\ k <= Len(next.results)
      BY <2>3 DEF Between, Sound, Searches
    <3> QED
      BY <3>1, LenProperties DEF Places
  <2>5. Full(query, next) \/ Explored(relations, query, next, q)
    <3> SUFFICES ASSUME ~Full(query, next)
                 PROVE  Explored(relations, query, next, q)
      OBVIOUS
    <3> SUFFICES ASSUME NEW i \in Places(next), i < q, FarOf(next, i) < query.max_depth,
                        NEW x, Adjacent(relations, query, PartOf(query, next, i), x)
                 PROVE  x \in next.seen
      BY DEF Explored
    <3>1. CASE i = k
      <4>1. PICK r \in relations : /\ Asks(query, r, current.part) /\ Links!Offered(query, r)
                                   /\ x = Links!Other(r, current.part)
        BY <2>3, <3>1 DEF Adjacent
      <4>2. PICK j \in 1 .. n : rows[j] = r
        BY <2>2, <4>1 DEF RowsFor
      <4> QED
        BY <2>2, <4>1, <4>2 DEF Going
    <3>2. CASE i # k
      <4>1. i < k
        BY <1>q, <2>4, <3>2 DEF Places
      <4> QED
        BY <2>3, <4>1 DEF Between, Explored
    <3> QED
      BY <3>1, <3>2
  <2>6. q <= Len(next.results) + 1
    BY <1>q, <2>4
  <2>7. q <= Len(next.results) => Within(next, FarOf(next, q))
    BY <1>13, <2>3 DEF Between
  <2>8. Sound(query, ring, next) /\ Queued(query, next, q)
    BY <1>q, <2>3 DEF Between
  <2> QED
    BY <1>q, <2>5, <2>6, <2>7, <2>8 DEF Reached
<1> QED
  BY <1>12, <1>14, <1>15

-----------------------------------------------------------------------------
PartsOf(relations, query) ==
  {query.part} \cup UNION {{r.child, r.parent} : r \in relations}

LEMMA PartsFinite ==
  ASSUME NEW relations, Links!IsTable(relations), NEW query
  PROVE  /\ IsFiniteSet(PartsOf(relations, query))
         /\ Links!Cardinality(PartsOf(relations, query)) = Cardinality(PartsOf(relations, query))
<1>c. PICK C : C = {r.child : r \in relations}
  OBVIOUS
<1>p. PICK P : P = {r.parent : r \in relations}
  OBVIOUS
<1>1. IsFiniteSet(relations)
  <2>1. Links!IsFiniteSet(relations) => IsFiniteSet(relations)
    BY DEF Links!IsFiniteSet, IsFiniteSet
  <2> QED
    BY <2>1 DEF Links!IsTable
<1>2. IsFiniteSet(C)
  <2>f. PICK f : f = [r \in relations |-> r.child]
    OBVIOUS
  <2>1. f \in Surjection(relations, C)
    BY <1>c, <2>f DEF Surjection
  <2> QED
    BY <1>1, <2>1, FS_Surjection
<1>3. IsFiniteSet(P)
  <2>f. PICK f : f = [r \in relations |-> r.parent]
    OBVIOUS
  <2>1. f \in Surjection(relations, P)
    BY <1>p, <2>f DEF Surjection
  <2> QED
    BY <1>1, <2>1, FS_Surjection
<1>4. IsFiniteSet(C \cup P)
  BY <1>2, <1>3, FS_Union
<1>5. IsFiniteSet((C \cup P) \cup {query.part})
  BY <1>4, FS_AddElement
<1>6. PartsOf(relations, query) = (C \cup P) \cup {query.part}
  BY <1>c, <1>p DEF PartsOf
<1> QED
  BY <1>5, <1>6 DEF Links!Cardinality, Cardinality

(* Every part that is reached is one of them. *)
LEMMA RingsWithin ==
  ASSUME NEW relations, NEW query, query.max_depth \in Nat,
         NEW ring, RingsAre(ring, relations, query),
         NEW n \in 0 .. query.max_depth, NEW x \in ring[n]
  PROVE  x \in PartsOf(relations, query)
<1>1. CASE n = 0
  BY <1>1 DEF RingsAre, PartsOf
<1>2. CASE n # 0
  <2>1. n \in 1 .. query.max_depth
    BY <1>2
  <2>2. PICK p \in ring[n - 1] : Adjacent(relations, query, p, x)
    BY <2>1 DEF RingsAre
  <2>3. PICK r \in relations : x = Links!Other(r, p)
    BY <2>2 DEF Adjacent
  <2>4. x \in {r.child, r.parent}
    BY <2>3 DEF Links!Other
  <2> QED
    BY <2>4 DEF PartsOf
<1> QED
  BY <1>1, <1>2

(* So there are fewer candidates than parts. *)
LEMMA FewerThanParts ==
  ASSUME NEW relations, Links!IsTable(relations), NEW query, query.max_depth \in Nat,
         NEW ring, RingsAre(ring, relations, query),
         NEW s, Sound(query, ring, s), NEW N, N = Links!Cardinality(PartsOf(relations, query))
  PROVE  Len(s.results) \in Nat /\ N \in Nat /\ Len(s.results) + 1 <= N
<1>l. PICK l : l = Len(s.results)
  OBVIOUS
<1>p. PICK parts : parts = PartsOf(relations, query)
  OBVIOUS
<1>1. IsFiniteSet(parts) /\ N = Cardinality(parts) /\ N \in Nat
  BY <1>p, PartsFinite, FS_CardinalityType
<1>2. l \in Nat
  BY <1>l, LenProperties DEF Sound, Searches
<1>3. Places(s) = 0 .. l
  BY <1>l DEF Places
<1>f. PICK f : f = [i \in 0 .. l |-> PartOf(query, s, i)]
  OBVIOUS
<1>4. \A i \in 0 .. l : PartOf(query, s, i) \in parts
  <2> SUFFICES ASSUME NEW i \in 0 .. l PROVE PartOf(query, s, i) \in parts
    OBVIOUS
  <2>1. /\ FarOf(s, i) \in 0 .. query.max_depth
        /\ PartOf(query, s, i) \in ring[FarOf(s, i)]
    BY <1>3 DEF Sound, Placed
  <2> QED
    BY <1>p, <2>1, RingsWithin
<1>5. f \in Injection(0 .. l, parts)
  <2>1. ASSUME NEW i \in 0 .. l, NEW j \in 0 .. l, f[i] = f[j] PROVE i = j
    BY <1>3, <1>f, <2>1 DEF Sound, Known
  <2>2. f \in [0 .. l -> parts]
    BY <1>4, <1>f
  <2> QED
    BY <2>1, <2>2 DEF Injection, IsInjective
<1>6. Cardinality(0 .. l) = l + 1
  <2>1. 0 \in Int /\ l \in Int /\ ~(0 > l) /\ l - 0 + 1 = l + 1
    BY <1>2
  <2> QED
    BY <2>1, FS_Interval
<1>7. Cardinality(0 .. l) <= Cardinality(parts)
  BY <1>1, <1>5, FS_Injection
<1> QED
  BY <1>1, <1>2, <1>6, <1>7, <1>l

-----------------------------------------------------------------------------
Start(query) ==
  [seen    |-> {query.part},
   pending |-> <<[part |-> query.part, path |-> <<query.part>>]>>,
   results |-> <<>>]

Searched(relations, query, s) ==
  IF s.pending = <<>> \/ Len(s.results) >= query.max_candidates THEN s
  ELSE Links!Expanded(relations, query, s)

LEMMA SearchedTyped ==
  ASSUME NEW relations, Links!IsTable(relations), NEW query, NEW s \in Searches
  PROVE  Searched(relations, query, s) \in Searches
<1>1. CASE s.pending = <<>> \/ Len(s.results) >= query.max_candidates
  BY <1>1 DEF Searched
<1>2. CASE ~(s.pending = <<>> \/ Len(s.results) >= query.max_candidates)
  <2>t. PICK t : t = Links!Expanded(relations, query, s)
    OBVIOUS
  <2>c. PICK current : current = Head(s.pending)
    OBVIOUS
  <2>f. PICK first : first = [s EXCEPT !.pending = Tail(s.pending)]
    OBVIOUS
  <2>1. \E n, rows, run : ExpansionIs(relations, query, current, first, t, n, rows, run)
    BY <1>2, <2>t, <2>c, <2>f, ExpansionExists
  <2>2. PICK n, rows, run : ExpansionIs(relations, query, current, first, t, n, rows, run)
    BY <2>1
  <2>3. n \in Nat /\ run \in [0 .. n -> Searches] /\ run[n] = t
    BY <2>2 DEF ExpansionIs
  <2>4. t \in Searches
    BY <2>3
  <2> QED
    BY <1>2, <2>t, <2>4 DEF Searched
<1> QED
  BY <1>1, <1>2

LEMMA StartReached ==
  ASSUME NEW relations, NEW query, query.part \in Nat, query.max_depth \in Nat,
         query.max_candidates \in Nat, NEW ring, RingsAre(ring, relations, query),
         NEW s, s = Start(query)
  PROVE  s \in Searches /\ Reached(relations, query, ring, s, 0)
<1>e. PICK e : e = [part |-> query.part, path |-> <<query.part>>]
  OBVIOUS
<1>1. s = [seen |-> {query.part}, pending |-> <<e>>, results |-> <<>>]
  BY <1>e DEF Start
<1>2. s.seen = {query.part} /\ s.pending = <<e>> /\ s.results = <<>>
  BY <1>1
<1>3. s \in Searches
  <2>1. <<query.part>> \in Seq(Nat)
    OBVIOUS
  <2>2. e \in [part : Nat, path : Seq(Nat)]
    BY <1>e, <2>1
  <2>3. <<e>> \in Seq([part : Nat, path : Seq(Nat)]) /\ <<>> \in Seq(Evidence)
    BY <2>2
  <2> QED
    BY <1>1, <2>3 DEF Searches
<1>4. Len(s.results) = 0 /\ Places(s) = {0} /\ Len(s.pending) = 1
  BY <1>2 DEF Places
<1>5. PartOf(query, s, 0) = query.part /\ FarOf(s, 0) = 0
  BY DEF PartOf, FarOf
<1>6. Known(query, s)
  BY <1>2, <1>4, <1>5 DEF Known
<1>7. Placed(query, ring, s)
  <2>1. 0 \in 0 .. query.max_depth /\ query.part \in ring[0]
    BY DEF RingsAre
  <2>2. 1 .. Len(s.results) = {}
    BY <1>4
  <2> QED
    BY <1>4, <1>5, <2>1, <2>2 DEF Placed
<1>8. Orderly(s) /\ Covered(ring, s) /\ Within(s, FarOf(s, 0))
  BY <1>4, <1>5 DEF Orderly, Covered, Within
<1>9. Queued(query, s, 0)
  <2>1. 1 .. Len(s.pending) = {1} /\ 0 + 1 - 1 = 0 /\ 0 + 1 - 0 = 1
    BY <1>4
  <2>2. s.pending[1] = e /\ e.part = query.part /\ Len(e.path) - 1 = 0
    BY <1>2, <1>e
  <2> QED
    BY <1>4, <1>5, <2>1, <2>2 DEF Queued
<1>10. Explored(relations, query, s, 0)
  BY <1>4 DEF Explored
<1>11. Sound(query, ring, s)
  BY <1>3, <1>4, <1>6, <1>7, <1>8 DEF Sound
<1> QED
  BY <1>3, <1>4, <1>8, <1>9, <1>10, <1>11 DEF Reached

(* Nothing is left to expand, or there are enough candidates. *)
Drained(query, s) == s.pending = <<>> \/ Full(query, s)

LEMMA SubstitutesAre ==
  ASSUME NEW relations, Links!IsTable(relations),
         NEW query, query.part \in Nat, query.max_depth \in Nat, query.max_candidates \in Nat,
         NEW ring, RingsAre(ring, relations, query)
  PROVE  \E s : \E k \in Nat : /\ Reached(relations, query, ring, s, k) /\ Drained(query, s)
                               /\ Links!Substitutes(relations, query) = s.results
<1>p. PICK parts : parts = PartsOf(relations, query)
  OBVIOUS
<1>n. PICK N : N = Links!Cardinality(parts)
  OBVIOUS
<1>s. PICK start : start = Start(query)
  OBVIOUS
<1>0. start \in Searches /\ Reached(relations, query, ring, start, 0)
  BY <1>s, StartReached
<1>1. N \in Nat
  BY <1>n, <1>p, PartsFinite, FS_CardinalityType
<1> DEFINE Body(f, n) == IF n = 0 THEN start ELSE Searched(relations, query, f[n - 1])
           Equation(f) == f = [n \in 0 .. N |-> Body(f, n)]
<1>2. \E f : Equation(f)
  <2> DEFINE step == [s \in Searches |-> Searched(relations, query, s)]
  <2>1. step \in [Searches -> Searches]
    BY SearchedTyped
  <2>2. \A s \in Searches : step[s] = Searched(relations, query, s)
    OBVIOUS
  <2> HIDE DEF step
  <2>3. PICK f : f \in Runs(Searches, start, step)
    BY <1>0, <2>1, Recursion
  <2>4. f \in [Nat -> Searches] /\ f[0] = start /\ \A n \in Nat : f[n + 1] = step[f[n]]
    BY <2>3 DEF Runs
  <2>g. PICK g : g = [n \in 0 .. N |-> f[n]]
    OBVIOUS
  <2>5. ASSUME NEW n \in 0 .. N PROVE g[n] = Body(g, n)
    <3>1. CASE n = 0
      BY <2>4, <2>g, <3>1
    <3>2. CASE n # 0
      <4>1. n - 1 \in Nat /\ n - 1 + 1 = n /\ n - 1 \in 0 .. N
        BY <1>1, <3>2
      <4>2. f[n] = step[f[n - 1]] /\ f[n - 1] \in Searches
        BY <2>4, <4>1
      <4>3. g[n] = f[n] /\ g[n - 1] = f[n - 1]
        BY <2>g, <4>1
      <4> QED
        BY <2>2, <3>2, <4>2, <4>3
    <3> QED
      BY <3>1, <3>2
  <2> HIDE DEF Body
  <2>6. Equation(g)
    BY <2>5, <2>g
  <2> QED
    BY <2>6
<1>a. PICK after : after = CHOOSE f : Equation(f)
  OBVIOUS
<1>3. Equation(after)
  <2> HIDE DEF Equation
  <2> QED
    BY <1>2, <1>a
<1>4. Links!Substitutes(relations, query) = after[N].results
  BY <1>a, <1>n, <1>p, <1>s DEF Links!Substitutes, PartsOf, Start, Searched
<1>5. \A n \in 0 .. N : after[n] = Body(after, n)
  <2> HIDE DEF Body
  <2> QED
    BY <1>3
<1> HIDE DEF Equation
<1> DEFINE P(n) == \E k \in Nat : /\ Reached(relations, query, ring, after[n], k)
                                  /\ k = n \/ Drained(query, after[n])
           T == {n \in Nat : n <= N => P(n)}
<1>6. 0 \in T
  <2>1. after[0] = start
    <3>1. 0 \in 0 .. N
      BY <1>1
    <3> QED
      BY <1>5, <3>1
  <2>2. Reached(relations, query, ring, after[0], 0) /\ 0 \in Nat
    BY <1>0, <2>1
  <2> HIDE DEF Body
  <2> QED
    BY <2>2
<1>7. ASSUME NEW n \in Nat, n \in T PROVE n + 1 \in T
  <2> SUFFICES ASSUME n + 1 <= N PROVE P(n + 1)
    <3> HIDE DEF P
    <3> QED
      OBVIOUS
  <2>m. PICK m : m = n + 1
    OBVIOUS
  <2>s. PICK s : s = after[n]
    OBVIOUS
  <2>t. PICK t : t = after[m]
    OBVIOUS
  <2>1. m \in 0 .. N /\ m # 0 /\ m - 1 = n /\ n <= N
    BY <1>1, <2>m
  <2>2. t = Searched(relations, query, s)
    BY <1>5, <2>1, <2>s, <2>t
  <2>3. P(n)
    <3> HIDE DEF P
    <3> QED
      BY <1>7, <2>1
  <2>4. PICK k \in Nat : Reached(relations, query, ring, s, k) /\ (k = n \/ Drained(query, s))
    BY <2>3, <2>s
  <2>5. CASE Drained(query, s)
    <3>1. t = s
      BY <2>2, <2>5 DEF Searched, Drained, Full
    <3>2. Reached(relations, query, ring, t, k) /\ Drained(query, t)
      BY <2>4, <2>5, <3>1
    <3> QED
      BY <2>m, <2>t, <3>2
  <2>6. CASE ~Drained(query, s)
    <3>1. t = Links!Expanded(relations, query, s)
      BY <2>2, <2>6 DEF Searched, Drained, Full
    <3>2. s.pending # <<>> /\ ~Full(query, s) /\ k = n
      BY <2>4, <2>6 DEF Drained
    <3>3. Reached(relations, query, ring, t, k + 1)
      BY <2>4, <3>1, <3>2, PartExpanded
    <3>4. Reached(relations, query, ring, t, m) /\ m \in Nat
      BY <2>m, <3>2, <3>3
    <3> QED
      BY <2>m, <2>t, <3>4
  <2> QED
    BY <2>5, <2>6
<1> HIDE DEF T
<1>8. N \in T
  BY <1>1, <1>6, <1>7, Induct
<1>9. P(N)
  <2> HIDE DEF P
  <2> QED
    BY <1>1, <1>8 DEF T
<1>t. PICK t : t = after[N]
  OBVIOUS
<1>10. PICK k \in Nat : Reached(relations, query, ring, t, k) /\ (k = N \/ Drained(query, t))
  BY <1>9, <1>t
<1>11. Drained(query, t)
  <2> SUFFICES ASSUME ~Drained(query, t) PROVE FALSE
    OBVIOUS
  <2>l. PICK l : l = Len(t.results)
    OBVIOUS
  <2>p. PICK p : p = Len(t.pending)
    OBVIOUS
  <2>1. l \in Nat /\ l + 1 <= N
    BY <1>10, <1>n, <1>p, <2>l, FewerThanParts DEF Reached
  <2>2. p \in Nat /\ p # 0
    <3>1. t.pending \in Seq([part : Nat, path : Seq(Nat)]) /\ t.pending # <<>>
      BY <1>10 DEF Reached, Sound, Searches, Drained
    <3> QED
      BY <2>p, <3>1, LenProperties, EmptySeq
  <2>3. p = l + 1 - k
    BY <1>10, <2>l, <2>p DEF Reached, Queued
  <2>4. k = N
    BY <1>10
  <2> QED
    BY <1>1, <2>1, <2>2, <2>3, <2>4
<1> QED
  BY <1>4, <1>10, <1>11, <1>t

-----------------------------------------------------------------------------
(* When everything was expanded, every part within max_depth was seen. *)
LEMMA AllSeen ==
  ASSUME NEW relations, NEW query, query.max_depth \in Nat,
         NEW ring, RingsAre(ring, relations, query),
         NEW s, NEW k \in Nat, Reached(relations, query, ring, s, k),
         s.pending = <<>>, ~Full(query, s), NEW m \in 0 .. query.max_depth
  PROVE  ring[m] \subseteq s.seen
<1>d. PICK d : d = query.max_depth
  OBVIOUS
<1>l. PICK l : l = Len(s.results)
  OBVIOUS
<1>1. l \in Nat /\ Places(s) = 0 .. l
  <2>1. s.results \in Seq(Evidence)
    BY DEF Reached, Sound, Searches
  <2> QED
    BY <1>l, <2>1, LenProperties DEF Places
<1>2. k = l + 1
  <2>1. Len(s.pending) = 0
    OBVIOUS
  <2>2. Len(s.pending) = l + 1 - k
    BY <1>l DEF Reached, Queued
  <2> QED
    BY <1>1, <2>1, <2>2
<1>3. /\ Known(query, s) /\ Explored(relations, query, s, k)
      /\ \A i \in 0 .. l : /\ FarOf(s, i) \in 0 .. query.max_depth
                           /\ PartOf(query, s, i) \in ring[FarOf(s, i)]
  BY <1>1 DEF Reached, Sound, Placed
<1> DEFINE T == {n \in Nat : n <= d => ring[n] \subseteq s.seen}
<1>4. 0 \in T
  <2>1. 0 \in Places(s) /\ PartOf(query, s, 0) = query.part /\ ring[0] = {query.part}
    BY <1>1 DEF PartOf, RingsAre
  <2> QED
    BY <1>3, <2>1 DEF Known
<1>5. ASSUME NEW n \in Nat, n \in T PROVE n + 1 \in T
  <2> SUFFICES ASSUME n + 1 <= d, NEW x \in ring[n + 1] PROVE x \in s.seen
    OBVIOUS
  <2>q. PICK q : q = n + 1
    OBVIOUS
  <2>1. q \in 1 .. query.max_depth /\ q - 1 = n /\ n \in 0 .. query.max_depth /\ n < d
    BY <1>d, <2>q
  <2>2. \E p \in ring[n] : Adjacent(relations, query, p, x)
    BY <2>1, <2>q DEF RingsAre
  <2>3. PICK p \in ring[n] : Adjacent(relations, query, p, x)
    BY <2>2
  <2>4. p \in s.seen
    <3>1. n <= d => ring[n] \subseteq s.seen
      BY <1>5
    <3>2. n <= d
      <4>1. d \in Nat /\ n < d
        BY <1>d, <2>1
      <4> QED
        BY <4>1
    <3> QED
      BY <2>3, <3>1, <3>2
  <2>5. PICK i \in 0 .. l : PartOf(query, s, i) = p
    BY <1>1, <1>3, <2>4 DEF Known
  <2>6. FarOf(s, i) = n
    <3>f. PICK f : f = FarOf(s, i)
      OBVIOUS
    <3>1. f \in 0 .. query.max_depth /\ p \in ring[f]
      BY <1>3, <2>5, <3>f
    <3>2. n \in 0 .. query.max_depth /\ p \in ring[n]
      BY <2>1, <2>3
    <3>3. f = n
      BY <3>1, <3>2, RingsDisjoint
    <3> QED
      BY <3>3, <3>f
  <2>7. i < k /\ FarOf(s, i) < query.max_depth
    BY <1>1, <1>2, <1>d, <2>1, <2>6
  <2> QED
    BY <1>1, <1>3, <2>3, <2>5, <2>7 DEF Explored
<1> HIDE DEF T
<1>6. m \in T
  BY <1>4, <1>5, Induct
<1> QED
  BY <1>6, <1>d DEF T

(* What SubstitutesNearest says of an answer. *)
NearestOf(ring, found, all, query, given) ==
  /\ \A i, j \in DOMAIN given :
       i < j => /\ Len(given[i].path) - 1 <= Len(given[j].path) - 1
                /\ given[i].candidate # given[j].candidate
  /\ \A e \in ToSet(given) :
       e.candidate \in ring[Len(e.path) - 1] /\ Last(e.path) = e.candidate
  /\ found \subseteq all
  /\ found = all \/ (/\ Len(given) = query.max_candidates
                     /\ \A part \in all \ found : given # <<>> =>
                          part \notin UNION {ring[n] : n \in 1..(Len(Last(given).path) - 1 - 1)})

Nearest(relations, query, given) ==
  NearestOf(Distance(relations, query), {e.candidate : e \in ToSet(given)},
            UNION {Distance(relations, query)[n] : n \in 1..query.max_depth}, query, given)

SomeSteps(query, given) ==
  /\ given \in Seq(Evidence)
  /\ \A i \in 1 .. Len(given) : Len(given[i].path) - 1 \in 1 .. query.max_depth

LEMMA EvidenceIs ==
  ASSUME NEW relations, Links!IsTable(relations),
         NEW query, query.part \in Nat, query.max_depth \in Nat, query.max_candidates \in Nat,
         NEW given, given = Links!Substitutes(relations, query)
  PROVE  SomeSteps(query, given)
<1>r. PICK ring : ring = Distance(relations, query)
  OBVIOUS
<1>1. RingsAre(ring, relations, query)
  BY <1>r, DistanceIs
<1>2. \E s : \E k \in Nat : /\ Reached(relations, query, ring, s, k) /\ Drained(query, s)
                            /\ given = s.results
  BY <1>1, SubstitutesAre
<1>3. PICK s : Sound(query, ring, s) /\ given = s.results
  BY <1>2 DEF Reached
<1>4. given \in Seq(Evidence) /\ Len(given) \in Nat
  BY <1>3, LenProperties DEF Sound, Searches
<1>5. ASSUME NEW i \in 1 .. Len(given)
      PROVE  Len(given[i].path) - 1 \in 1 .. query.max_depth
  <2>f. PICK far : far = FarOf(s, i)
    OBVIOUS
  <2>1. i \in Places(s) /\ far = Len(given[i].path) - 1
    BY <1>3, <1>4, <2>f DEF Places, FarOf
  <2>2. far \in 0 .. query.max_depth /\ far >= 1
    BY <1>3, <2>1, <2>f DEF Sound, Placed
  <2> QED
    BY <2>1, <2>2
<1> QED
  BY <1>4, <1>5 DEF SomeSteps

LEMMA NearestIs ==
  ASSUME NEW relations, Links!IsTable(relations),
         NEW query, query.part \in Nat, query.max_depth \in Nat, query.max_candidates \in Nat,
         NEW given, given = Links!Substitutes(relations, query)
  PROVE  Nearest(relations, query, given)
<1>d. PICK d : d = query.max_depth
  OBVIOUS
<1>r. PICK ring : ring = Distance(relations, query)
  OBVIOUS
<1>1. RingsAre(ring, relations, query)
  BY <1>r, DistanceIs
<1>2. \E s : \E k \in Nat : /\ Reached(relations, query, ring, s, k) /\ Drained(query, s)
                            /\ given = s.results
  BY <1>1, SubstitutesAre
<1>3. PICK s : \E k \in Nat : /\ Reached(relations, query, ring, s, k) /\ Drained(query, s)
                              /\ given = s.results
  BY <1>2
<1>4. PICK k \in Nat : /\ Reached(relations, query, ring, s, k) /\ Drained(query, s)
                       /\ given = s.results
  BY <1>3
<1>l. PICK l : l = Len(given)
  OBVIOUS
<1>5. /\ l \in Nat /\ DOMAIN given = 1 .. l /\ Places(s) = 0 .. l
      /\ l <= query.max_candidates
  <2>1. s.results \in Seq(Evidence) /\ l <= query.max_candidates
    BY <1>4, <1>l DEF Reached, Sound, Searches
  <2> QED
    BY <1>4, <1>l, <2>1, LenProperties DEF Places
<1>6. ASSUME NEW i \in 1 .. l
      PROVE  /\ i \in Places(s) /\ i # 0
             /\ PartOf(query, s, i) = given[i].candidate
             /\ FarOf(s, i) = Len(given[i].path) - 1
  BY <1>4, <1>5 DEF PartOf, FarOf
<1>7. /\ Known(query, s) /\ Placed(query, ring, s) /\ Orderly(s) /\ Covered(ring, s)
  BY <1>4 DEF Reached, Sound
<1>f. PICK found : found = {e.candidate : e \in ToSet(given)}
  OBVIOUS
<1>a. PICK all : all = UNION {ring[n] : n \in 1 .. d}
  OBVIOUS
<1>8. \A x : x \in found <=> \E i \in 1 .. l : given[i].candidate = x
  BY <1>5, <1>f DEF ToSet
<1>9. \A x : x \in all <=> \E n \in 1 .. d : x \in ring[n]
  BY <1>a
<1>10. ASSUME NEW i \in 1 .. l
       PROVE  /\ FarOf(s, i) \in 1 .. d /\ given[i].candidate \in ring[FarOf(s, i)]
              /\ Last(given[i].path) = given[i].candidate
  <2>1. FarOf(s, i) \in 0 .. query.max_depth /\ PartOf(query, s, i) \in ring[FarOf(s, i)]
    BY <1>6, <1>7 DEF Placed
  <2>2. FarOf(s, i) >= 1 /\ Links!Last(given[i].path) = given[i].candidate
    BY <1>4, <1>7, <1>l DEF Placed
  <2>3. FarOf(s, i) \in 1 .. d
    BY <1>d, <2>1, <2>2
  <2> QED
    BY <1>6, <2>1, <2>2, <2>3 DEF Links!Last, Last
<1>11. ASSUME NEW i \in 1 .. l, NEW j \in 1 .. l, i < j
       PROVE  /\ FarOf(s, i) <= FarOf(s, j)
              /\ given[i].candidate # given[j].candidate
  <2>1. i \in Places(s) /\ j \in Places(s) /\ i # j
    BY <1>6, <1>11
  <2> QED
    BY <1>6, <1>7, <1>11, <2>1 DEF Orderly, Known
<1>12. found \subseteq all
  BY <1>8, <1>9, <1>10
(* What was seen of the parts away is found. *)
<1>13. ASSUME NEW n \in 1 .. d, NEW x \in ring[n], x \in s.seen PROVE x \in found
  <2>1. PICK i \in Places(s) : PartOf(query, s, i) = x
    BY <1>7, <1>13 DEF Known
  <2>2. i # 0
    <3> SUFFICES ASSUME i = 0 PROVE FALSE
      OBVIOUS
    <3>1. x \in ring[0]
      BY <1>1, <2>1 DEF PartOf, RingsAre
    <3>2. n \in 0 .. query.max_depth /\ 0 \in 0 .. query.max_depth /\ n # 0
      BY <1>d
    <3> QED
      BY <1>1, <1>13, <3>1, <3>2, RingsDisjoint
  <2>3. i \in 1 .. l
    BY <1>5, <2>1, <2>2
  <2> QED
    BY <1>6, <1>8, <2>1, <2>3
<1>14. \/ found = all
       \/ /\ l = query.max_candidates
          /\ \A part \in all \ found : given # <<>> =>
               part \notin UNION {ring[n] : n \in 1 .. (Len(Last(given).path) - 1 - 1)}
  <2>1. CASE Full(query, s)
    <3>1. l = query.max_candidates
      BY <1>4, <1>5, <1>l, <2>1 DEF Full
    <3>2. ASSUME NEW part \in all \ found, given # <<>>,
                 NEW n \in 1 .. (Len(Last(given).path) - 1 - 1), part \in ring[n]
          PROVE  FALSE
      <4>1. l \in 1 .. l /\ Last(given) = given[l]
        <5>1. given \in Seq(Evidence)
          BY <1>4 DEF Reached, Sound, Searches
        <5>2. l # 0
          BY <1>l, <3>2, <5>1, EmptySeq
        <5> QED
          BY <1>5, <1>l, <5>2 DEF Last
      <4>f. PICK far : far = FarOf(s, l)
        OBVIOUS
      <4>2. far = Len(Last(given).path) - 1 /\ far \in 1 .. d /\ l \in Places(s)
        BY <1>6, <1>10, <4>1, <4>f
      <4>3. n \in 1 .. (far - 1)
        BY <3>2, <4>2
      <4>4. n \in Nat /\ n < far /\ n \in 1 .. d
        BY <1>d, <4>2, <4>3
      <4>5. ring[n] \subseteq s.seen
        BY <1>7, <4>2, <4>4, <4>f DEF Covered
      <4>6. part \in found
        BY <1>13, <3>2, <4>4, <4>5
      <4> QED
        BY <3>2, <4>6
    <3> QED
      BY <3>1, <3>2
  <2>2. CASE ~Full(query, s)
    <3>1. s.pending = <<>>
      BY <1>4, <2>2 DEF Drained
    <3>2. ASSUME NEW x \in all PROVE x \in found
      <4>1. PICK n \in 1 .. d : x \in ring[n]
        BY <1>9
      <4>2. n \in 0 .. query.max_depth
        BY <1>d
      <4>3. ring[n] \subseteq s.seen
        BY <1>1, <1>4, <2>2, <3>1, <4>2, AllSeen
      <4> QED
        BY <1>13, <4>1, <4>3
    <3> QED
      BY <1>12, <3>2
  <2> QED
    BY <2>1, <2>2
<1>15. \A i, j \in DOMAIN given :
         i < j => /\ Len(given[i].path) - 1 <= Len(given[j].path) - 1
                  /\ given[i].candidate # given[j].candidate
  BY <1>5, <1>6, <1>11
<1>16. \A e \in ToSet(given) : e.candidate \in ring[Len(e.path) - 1] /\ Last(e.path) = e.candidate
  <2> SUFFICES ASSUME NEW i \in 1 .. l
               PROVE  /\ given[i].candidate \in ring[Len(given[i].path) - 1]
                      /\ Last(given[i].path) = given[i].candidate
    BY <1>5 DEF ToSet
  <2> QED
    BY <1>6, <1>10
<1>17. \/ found = all
       \/ /\ Len(given) = query.max_candidates
          /\ \A part \in all \ found : given # <<>> =>
               part \notin UNION {ring[n] : n \in 1 .. (Len(Last(given).path) - 1 - 1)}
  BY <1>14, <1>l
<1> QED
  <2>1. Distance(relations, query) = ring
    BY <1>r
  <2>2. {e.candidate : e \in ToSet(given)} = found
    BY <1>f
  <2>3. UNION {Distance(relations, query)[n] : n \in 1 .. query.max_depth} = all
    BY <1>a, <1>d, <1>r
  <2>4. NearestOf(ring, found, all, query, given)
    BY <1>12, <1>15, <1>16, <1>17 DEF NearestOf
  <2> QED
    BY <2>1, <2>2, <2>3, <2>4 DEF Nearest

(***************************************************************************)
(* Substitutes come nearest first, each once and by a shortest path, all of*)
(* them within max_depth or else the nearest max_candidates, for any table *)
(* of relations and any query (session.py, Session.substitutes).           *)
(***************************************************************************)
THEOREM SubstitutesNearestAlways == Spec => []SubstitutesNearest
<1>1. ASSUME Asked, Answered("substitutes")
      PROVE  Nearest(question.relations, question.query, answer)
  <2>q. PICK q : q = question
    OBVIOUS
  <2>1. q \in SubstituteQuestions /\ answer = SubstitutesAnswer
    BY <1>1, <2>q DEF Asked, Answered, Given
  <2>2. /\ Links!IsTable(q.relations) /\ q.query.part \in Nat
        /\ q.query.max_depth \in Nat /\ q.query.max_candidates \in Nat
    BY <2>1, SubstituteAssumption
  <2>3. answer = Links!Substitutes(q.relations, q.query)
    BY <2>q, <2>1 DEF SubstitutesAnswer
  <2> QED
    BY <2>q, <2>2, <2>3, NearestIs
<1>2. Asked => SubstitutesNearest
  BY <1>1 DEF SubstitutesNearest, Nearest, NearestOf
<1> QED
  BY <1>2, AskedAlways, PTL

-----------------------------------------------------------------------------
LEMMA SubstitutesSame ==
  ASSUME NEW relations, NEW query
  PROVE  Colors!Substitutes(relations, query) = Links!Substitutes(relations, query)
BY Zenon DEF Colors!Substitutes, Links!Substitutes, Colors!Expanded, Links!Expanded,
       Colors!Consider, Links!Consider, Colors!Offered, Links!Offered,
       Colors!Other, Links!Other, Colors!TakeNext, Links!TakeNext,
       Colors!Relationships, Links!Relationships, Colors!Ordered, Links!Ordered,
       Colors!Before, Links!Before, Colors!Rank, Links!Rank,
       Colors!RelationshipTypes, Links!RelationshipTypes, Colors!ToSet, Links!ToSet,
       Colors!Appearance, Links!Appearance, Colors!FoldLeft, Links!FoldLeft,
       Colors!MapThenFoldSet, Links!MapThenFoldSet, Colors!Max, Links!Max,
       Colors!Cardinality, Links!Cardinality

-----------------------------------------------------------------------------
(* A part is found to exist in a colour exactly if it does. *)
LEMMA AvailableIs ==
  ASSUME NEW c, NEW pair, Colors!Complete(pair),
         NEW a, a = Colors!Availability(pair, ElementsOf(c, pair), LinesOf(c, pair),
                                        RelatedOnly(c, pair))
  PROVE  a.available <=> Colors!Exists(c, pair)
<1>1. ElementsOf(c, pair) = Colors!Elements(c, pair)
  BY DEF ElementsOf
<1>2. LinesOf(c, pair) = {} <=> Colors!LatestLines(c, pair) = {}
  BY DEF LinesOf
<1>3. a.available <=> (ElementsOf(c, pair) # {} \/ LinesOf(c, pair) # {})
  BY DEF Colors!Availability
<1> QED
  BY <1>1, <1>2, <1>3 DEF Colors!Exists

LEMMA OneChecked ==
  ASSUME NEW c, NEW pair, Colors!Complete(pair)
  PROVE  Colors!CheckPartColor(c, pair).available <=> Colors!Exists(c, pair)
<1>p. PICK pairs : pairs = <<pair>>
  OBVIOUS
<1>1. Len(pairs) = 1 /\ DOMAIN pairs = 1 .. 1 /\ 1 \in DOMAIN pairs /\ pairs[1] = pair
  BY <1>p
<1>2. Colors!CheckPartColors(c, pairs)[1] =
        Colors!Availability(pair, ElementsOf(c, pair), LinesOf(c, pair), RelatedOnly(c, pair))
  BY <1>1, BatchIsPerItem
<1>3. Colors!CheckPartColor(c, pair) = Colors!CheckPartColors(c, pairs)[1]
  BY <1>p DEF Colors!CheckPartColor
<1> QED
  BY <1>2, <1>3, AvailableIs

(* The usable candidates are those that exist in the colour. *)
Kept(c, color, candidates) ==
  {i \in DOMAIN candidates :
     Colors!CheckPartColor(c, <<candidates[i].candidate, color>>).available}

Smaller(S) == {p \in S \X S : p[1] < p[2]}

LEMMA UsableAre ==
  ASSUME NEW c, NEW color, NEW candidates, NEW n \in Nat, DOMAIN candidates = 1 .. n,
         NEW usable, usable = Colors!Usable(c, color, candidates)
  PROVE  /\ ToSet(usable) = {candidates[i] : i \in Kept(c, color, candidates)}
         /\ Kept(c, color, candidates) # {} => usable # <<>>
<1>k. PICK S : S = Kept(c, color, candidates)
  OBVIOUS
<1>r. PICK R : R = Smaller(S)
  OBVIOUS
<1>m. PICK m : m = Cardinality(S)
  OBVIOUS
<1>f. PICK f : f = Colors!Ordered(S, LAMBDA i, j : i < j)
  OBVIOUS
<1>1. S \subseteq 1 .. n /\ IsFiniteSet(S)
  <2>1. S \subseteq 1 .. n
    BY <1>k DEF Kept
  <2>2. 1 \in Int /\ n \in Int
    OBVIOUS
  <2>3. IsFiniteSet(1 .. n)
    BY <2>2, FS_Interval
  <2> QED
    BY <2>1, <2>3, FS_Subset
<1>2. m \in Nat /\ Colors!Cardinality(S) = m /\ (m = 0 <=> S = {})
  BY <1>1, <1>m, FS_CardinalityType, FS_EmptySet DEF Colors!Cardinality, Cardinality
<1>3. StrictOrder(S, R)
  BY <1>1, <1>r DEF StrictOrder, Smaller
<1>4. ASSUME NEW x \in S
      PROVE  Colors!Cardinality({y \in S : y < x}) = Cardinality(Predecessors(S, R, x))
  <2>1. {y \in S : y < x} = Predecessors(S, R, x)
    BY <1>r DEF Predecessors, Smaller
  <2> QED
    BY <2>1 DEF Colors!Cardinality, Cardinality
<1>5. f = [i \in 1 .. m |-> CHOOSE x \in S : Colors!Cardinality({y \in S : y < x}) = i - 1]
  BY <1>2, <1>f DEF Colors!Ordered
<1>6. ASSUME NEW i \in 1 .. m
      PROVE  f[i] \in S /\ Cardinality(Predecessors(S, R, f[i])) = i - 1
  <2>1. \E x \in S : Colors!Cardinality({y \in S : y < x}) = i - 1
    BY <1>1, <1>3, <1>4, <1>m, PlaceTaken
  <2>2. f[i] \in S /\ Colors!Cardinality({y \in S : y < f[i]}) = i - 1
    BY <1>5, <2>1
  <2> QED
    BY <1>4, <2>2
<1>7. DOMAIN f = 1 .. m
  BY <1>5
<1>l. \A x \in S : \E i \in 1 .. m : f[i] = x
  <2>1. f \in [1 .. m -> S]
    BY <1>5, <1>6
  <2>2. Lists(f, S, R)
    BY <1>1, <1>3, <1>6, <1>m, <2>1, ListIs
  <2> QED
    BY <1>m, <2>2 DEF Lists
<1>8. usable = [i \in DOMAIN f |-> candidates[f[i]]]
  BY <1>f, <1>k DEF Colors!Usable, Kept
<1>9. DOMAIN usable = 1 .. m /\ \A i \in 1 .. m : usable[i] = candidates[f[i]]
  BY <1>7, <1>8
<1>10. ToSet(usable) = {candidates[i] : i \in S}
  <2>1. ToSet(usable) = {candidates[f[i]] : i \in 1 .. m}
    BY <1>9 DEF ToSet
  <2> QED
    BY <1>6, <1>l, <2>1
<1>11. ASSUME S # {} PROVE usable # <<>>
  <2>1. 1 \in DOMAIN usable
    BY <1>2, <1>9, <1>11
  <2> QED
    BY <2>1
<1> QED
  BY <1>10, <1>11, <1>k

-----------------------------------------------------------------------------
(* What is proposed for a pair. *)
Proposed(c, pair) ==
  IF RelatedOnly(c, pair)
    THEN Colors!Usable(c, pair[2],
                       Links!Substitutes(c.relations, Colors!DefaultSubstitutes(pair[1])))
    ELSE <<>>

LEMMA RowIs ==
  ASSUME NEW c, NEW items, Len(items) \in Nat, DOMAIN items = 1 .. Len(items),
         NEW rows, rows = Colors!ValidateBom(c, items).rows
  PROVE  /\ DOMAIN rows = DOMAIN items
         /\ \A i \in DOMAIN items :
              /\ rows[i].pair = items[i].pair
              /\ rows[i].substitutions = Proposed(c, items[i].pair)
<1>p. PICK pairs : pairs = [i \in DOMAIN items |-> items[i].pair]
  OBVIOUS
<1>r. PICK results : results = Colors!CheckPartColors(c, pairs)
  OBVIOUS
<1>1. Len(pairs) \in Nat /\ DOMAIN pairs = 1 .. Len(pairs) /\ DOMAIN pairs = DOMAIN items
  BY <1>p
<1>2. rows = [i \in DOMAIN items |->
                [pair          |-> items[i].pair,
                 available     |-> results[i].available,
                 exact         |-> items[i].exact,
                 spare_only    |-> results[i].spare_only,
                 substitutions |-> Colors!Substitutions(c, results[i])]]
  BY <1>p, <1>r DEF Colors!ValidateBom
<1>3. ASSUME NEW i \in DOMAIN items
      PROVE  /\ rows[i].pair = items[i].pair
             /\ rows[i].substitutions = Proposed(c, items[i].pair)
  <2>q. PICK pair : pair = items[i].pair
    OBVIOUS
  <2>a. PICK a : a = Colors!Availability(pair, ElementsOf(c, pair), LinesOf(c, pair),
                                         RelatedOnly(c, pair))
    OBVIOUS
  <2>1. i \in DOMAIN pairs /\ pairs[i] = pair
    BY <1>1, <1>p, <2>q
  <2>2. results[i] = a
    BY <1>1, <1>r, <2>1, <2>a, BatchIsPerItem
  <2>3. a.pair = pair /\ a.relationship_only = RelatedOnly(c, pair)
    BY <2>a DEF Colors!Availability
  <2>4. Colors!Substitutions(c, a) = Proposed(c, pair)
    BY <2>3, SubstitutesSame DEF Colors!Substitutions, Proposed
  <2>5. /\ rows[i].pair = pair
        /\ rows[i].substitutions = Colors!Substitutions(c, a)
    BY <1>2, <2>2, <2>q
  <2> QED
    BY <2>4, <2>5, <2>q
<1> QED
  BY <1>2, <1>3

-----------------------------------------------------------------------------
(* As many different parts as there are, or more, are all of them. *)
LEMMA AllTaken ==
  ASSUME NEW l \in Nat, NEW parts, IsFiniteSet(parts), Cardinality(parts) <= l,
         NEW g \in Injection(1 .. l, parts), NEW x \in parts
  PROVE  \E i \in 1 .. l : g[i] = x
<1> SUFFICES ASSUME \A i \in 1 .. l : g[i] # x PROVE FALSE
  OBVIOUS
<1>s. PICK S : S = parts \ {x}
  OBVIOUS
<1>1. g \in Injection(1 .. l, S)
  <2>1. g \in [1 .. l -> parts] /\ IsInjective(g)
    BY DEF Injection
  <2>2. g \in [1 .. l -> S]
    BY <1>s, <2>1
  <2> QED
    BY <2>1, <2>2 DEF Injection
<1>2. IsFiniteSet(S) /\ Cardinality(S) = Cardinality(parts) - 1
  BY <1>s, FS_RemoveElement
<1>3. Cardinality(1 .. l) <= Cardinality(S)
  BY <1>1, <1>2, FS_Injection
<1>4. Cardinality(1 .. l) = l
  <2>1. l = 0 => 1 .. l = {}
    OBVIOUS
  <2>2. l # 0 => 1 \in Int /\ l \in Int /\ ~(1 > l) /\ l - 1 + 1 = l
    OBVIOUS
  <2> QED
    BY <2>1, <2>2, FS_Interval, FS_EmptySet
<1>5. Cardinality(parts) \in Nat
  BY FS_CardinalityType
<1> QED
  BY <1>2, <1>3, <1>4, <1>5

(* The parts up to max_depth relations away. *)
Around(relations, query) ==
  UNION {Distance(relations, query)[n] : n \in 1 .. query.max_depth}

(* Unless there are more of them than max_candidates, all are candidates;  *)
(* so are those one relation away, unless these are more.                  *)
LEMMA CandidatesAre ==
  ASSUME NEW relations, Links!IsTable(relations),
         NEW query, query.part \in Nat, query.max_depth \in Nat \ {0},
         query.max_candidates \in Nat \ {0},
         NEW given, given = Links!Substitutes(relations, query),
         NEW found, found = {e.candidate : e \in ToSet(given)}
  PROVE  /\ found \subseteq Around(relations, query)
         /\ Cardinality(Around(relations, query)) <= query.max_candidates =>
              found = Around(relations, query)
         /\ Cardinality(Distance(relations, query)[1]) <= query.max_candidates =>
              Distance(relations, query)[1] \subseteq found
<1>r. PICK ring : ring = Distance(relations, query)
  OBVIOUS
<1>l. PICK l : l = Len(given)
  OBVIOUS
<1>a. PICK all : all = Around(relations, query)
  OBVIOUS
<1>d. PICK d : d = query.max_depth
  OBVIOUS
<1>m. PICK most : most = query.max_candidates
  OBVIOUS
<1>0. d \in Nat /\ d # 0 /\ 1 \in 1 .. d /\ most \in Nat /\ most # 0
  BY <1>d, <1>m
<1>1. RingsAre(ring, relations, query)
  BY <1>0, <1>d, <1>r, DistanceIs
<1>2. all = UNION {ring[n] : n \in 1 .. d}
  BY <1>a, <1>d, <1>r DEF Around
<1>3. ring[1] \subseteq all
  BY <1>0, <1>2
<1>4. IsFiniteSet(all) /\ IsFiniteSet(ring[1])
  <2>1. ASSUME NEW x \in all PROVE x \in PartsOf(relations, query)
    <3>1. PICK n \in 1 .. d : x \in ring[n]
      BY <1>2, <2>1
    <3>2. n \in 0 .. query.max_depth /\ query.max_depth \in Nat
      BY <1>0, <1>d
    <3> QED
      BY <1>1, <3>1, <3>2, RingsWithin
  <2>2. IsFiniteSet(all)
    BY <2>1, PartsFinite, FS_Subset
  <2> QED
    BY <1>3, <2>2, FS_Subset
<1>5. NearestOf(ring, found, all, query, given)
  <2>1. Nearest(relations, query, given)
    BY NearestIs
  <2> QED
    BY <2>1, <1>2, <1>d, <1>r DEF Nearest
<1>6. /\ l \in Nat /\ DOMAIN given = 1 .. l
      /\ \A i \in 1 .. l : Len(given[i].path) - 1 \in 1 .. d
  <2>1. SomeSteps(query, given)
    BY EvidenceIs
  <2> QED
    BY <2>1, <1>d, <1>l, LenProperties DEF SomeSteps
<1>7. \A i \in 1 .. l : given[i] \in ToSet(given) /\ given[i].candidate \in found
  BY <1>6 DEF ToSet
<1>8. \A i, j \in 1 .. l : i < j => given[i].candidate # given[j].candidate
  BY <1>5, <1>6 DEF NearestOf
<1>g. PICK g : g = [i \in 1 .. l |-> given[i].candidate]
  OBVIOUS
<1>i. ASSUME NEW parts, \A i \in 1 .. l : given[i].candidate \in parts
      PROVE  g \in Injection(1 .. l, parts)
  <2>1. g \in [1 .. l -> parts]
    BY <1>g, <1>i
  <2>2. ASSUME NEW i \in 1 .. l, NEW j \in 1 .. l, i # j PROVE g[i] # g[j]
    <3>1. i < j \/ j < i
      BY <1>6, <2>2
    <3> QED
      BY <1>8, <1>g, <3>1
  <2> QED
    BY <2>1, <2>2 DEF Injection, IsInjective
<1>9. found \subseteq all /\ (found = all \/ l = most)
  BY <1>5, <1>l, <1>m DEF NearestOf
<1>10. ASSUME Cardinality(all) <= most PROVE found = all
  <2> SUFFICES ASSUME l = most, NEW x \in all PROVE x \in found
    BY <1>9
  <2>1. \A i \in 1 .. l : given[i].candidate \in all
    BY <1>7, <1>9
  <2>2. \E i \in 1 .. l : g[i] = x
    <3>1. g \in Injection(1 .. l, all)
      BY <1>i, <2>1
    <3> QED
      BY <1>4, <1>6, <1>10, <3>1, AllTaken
  <2> QED
    BY <1>7, <1>g, <2>2
<1>11. ASSUME Cardinality(ring[1]) <= most, NEW x \in ring[1] PROVE x \in found
  <2> SUFFICES ASSUME x \notin found PROVE FALSE
    OBVIOUS
  <2>1. x \in all /\ found # all
    BY <1>3, <1>11
  <2>2. /\ l = most
        /\ given # <<>> => x \notin UNION {ring[n] : n \in 1 .. (Len(Last(given).path) - 1 - 1)}
    BY <1>5, <1>l, <1>m, <2>1 DEF NearestOf
  <2>3. l \in 1 .. l
    BY <1>0, <1>6, <2>2
  <2>4. given # <<>> /\ Last(given) = given[l]
    <3>1. given # <<>>
      BY <1>6, <2>3
    <3> QED
      BY <3>1, <1>l DEF Last
  <2>t. PICK last : last = Len(given[l].path) - 1
    OBVIOUS
  <2>5. last = 1
    <3>1. last \in 1 .. d
      BY <1>6, <2>3, <2>t
    <3>2. ~(1 \in 1 .. (last - 1))
      BY <1>11, <2>2, <2>4, <2>t
    <3> QED
      BY <1>0, <3>1, <3>2
  <2>6. ASSUME NEW i \in 1 .. l PROVE given[i].candidate \in ring[1]
    <3>f. PICK far : far = Len(given[i].path) - 1
      OBVIOUS
    <3>1. far \in 1 .. d
      BY <1>6, <3>f
    <3>2. i < l => far <= last
      BY <1>5, <1>6, <2>3, <2>t, <3>f DEF NearestOf
    <3>3. i < l \/ i = l
      BY <1>6
    <3>e. i = l => far = last
      BY <2>t, <3>f
    <3>4. far = 1
      BY <1>0, <2>5, <3>1, <3>2, <3>3, <3>e
    <3>5. given[i].candidate \in ring[far]
      BY <1>5, <1>7, <3>f DEF NearestOf
    <3> QED
      BY <3>4, <3>5
  <2>7. \E i \in 1 .. l : g[i] = x
    <3>1. g \in Injection(1 .. l, ring[1])
      BY <1>i, <2>6
    <3> QED
      BY <1>4, <1>6, <1>11, <2>2, <3>1, AllTaken
  <2> QED
    BY <1>7, <1>g, <2>7
<1> QED
  BY <1>9, <1>10, <1>11, <1>a, <1>m, <1>r

-----------------------------------------------------------------------------
(* Those of the parts that exist in the colour. *)
Fitting(c, color, parts) == {p \in parts : Colors!Exists(c, <<p, color>>)}

LEMMA ProposedIs ==
  ASSUME NEW c, Links!IsTable(c.relations), None \notin Nat,
         NEW pair, pair[1] \in Nat, pair[2] # None, RelatedOnly(c, pair),
         NEW query, query = Colors!DefaultSubstitutes(pair[1]),
         NEW given, given = Proposed(c, pair),
         NEW parts, parts = {e.candidate : e \in ToSet(given)}
  PROVE  /\ parts \subseteq Fitting(c, pair[2], Around(c.relations, query))
         /\ Cardinality(Around(c.relations, query)) <= query.max_candidates =>
              parts = Fitting(c, pair[2], Around(c.relations, query))
         /\ Cardinality(Distance(c.relations, query)[1]) <= query.max_candidates =>
              Fitting(c, pair[2], Distance(c.relations, query)[1]) \subseteq parts
<1>s. PICK candidates : candidates = Links!Substitutes(c.relations, query)
  OBVIOUS
<1>f. PICK found : found = {e.candidate : e \in ToSet(candidates)}
  OBVIOUS
<1>1. /\ query.part \in Nat /\ query.max_depth \in Nat \ {0}
      /\ query.max_candidates \in Nat \ {0}
  BY DEF Colors!DefaultSubstitutes
<1>2. given = Colors!Usable(c, pair[2], candidates)
  BY <1>s DEF Proposed
<1>n. PICK n : n = Len(candidates)
  OBVIOUS
<1>3. /\ n \in Nat /\ DOMAIN candidates = 1 .. n
      /\ \A i \in 1 .. n : candidates[i].candidate \in Nat
  <2>1. SomeSteps(query, candidates)
    BY <1>1, <1>s, EvidenceIs
  <2>2. n \in Nat /\ DOMAIN candidates = 1 .. n /\ \A i \in 1 .. n : candidates[i] \in Evidence
    BY <1>n, <2>1, LenProperties, ElementOfSeq DEF SomeSteps
  <2>3. \A e \in Evidence : e.candidate \in Nat
    BY DEF Evidence
  <2> QED
    BY <2>2, <2>3
<1>k. PICK kept : kept = Kept(c, pair[2], candidates)
  OBVIOUS
<1>4. ASSUME NEW i \in 1 .. n
      PROVE  i \in kept <=> Colors!Exists(c, <<candidates[i].candidate, pair[2]>>)
  <2>p. PICK other : other = <<candidates[i].candidate, pair[2]>>
    OBVIOUS
  <2>1. Colors!Complete(other)
    BY <1>3, <2>p DEF Colors!Complete
  <2>2. Colors!CheckPartColor(c, other).available <=> Colors!Exists(c, other)
    BY <2>1, OneChecked
  <2> QED
    BY <1>3, <1>k, <2>2, <2>p DEF Kept
<1>5. kept \subseteq 1 .. n
  BY <1>3, <1>k DEF Kept
<1>6. ToSet(given) = {candidates[i] : i \in kept}
  BY <1>2, <1>3, <1>k, UsableAre
<1>7. parts = {candidates[i].candidate : i \in kept}
  BY <1>6
<1>8. found = {candidates[i].candidate : i \in 1 .. n}
  BY <1>3, <1>f DEF ToSet
<1>9. parts = Fitting(c, pair[2], found)
  BY <1>4, <1>5, <1>7, <1>8 DEF Fitting
<1>10. /\ found \subseteq Around(c.relations, query)
       /\ Cardinality(Around(c.relations, query)) <= query.max_candidates =>
            found = Around(c.relations, query)
       /\ Cardinality(Distance(c.relations, query)[1]) <= query.max_candidates =>
            Distance(c.relations, query)[1] \subseteq found
  BY <1>1, <1>f, <1>s, CandidatesAre
<1> QED
  BY <1>9, <1>10 DEF Fitting

(* What is said of one row of the validation. *)
Honest(c, row, ring, around, parts) ==
  IF /\ Colors!Complete(row.pair) /\ ~Colors!Exists(c, row.pair)
     /\ Colors!RelatedExists(c, row.pair)
    THEN /\ parts \subseteq Fitting(c, row.pair[2], around)
         /\ Cardinality(around) <= 100 => parts = Fitting(c, row.pair[2], around)
         /\ Cardinality(ring[1]) <= 100 /\ Fitting(c, row.pair[2], ring[1]) # {}
            => parts # {}
    ELSE row.substitutions = <<>>

(***************************************************************************)
(* What does not exist in its colour, while a related part does, is        *)
(* proposed parts at most four relations away, none of them a print or a   *)
(* pattern, that exist in the colour: all of them, unless there are more   *)
(* than the search takes, and at least one if one is one relation away and *)
(* these are not too many.  Nothing else is proposed substitutes.  For any *)
(* catalog and any items (session.py, validate_bom).                       *)
(***************************************************************************)
THEOREM ValidationHonestAlways == Spec => []ValidationHonest
<1>1. ASSUME Asked, Answered("colors"), NEW row \in ToSet(answer.validation.rows),
             NEW c, c = question.catalog,
             NEW query, query = [part |-> row.pair[1], direction |-> "both", molds |-> TRUE,
                                 prints |-> FALSE, max_depth |-> 4, max_candidates |-> 100],
             NEW ring, ring = Distance(c.relations, query),
             NEW around, around = UNION {ring[n] : n \in 1 .. 4},
             NEW parts, parts = {e.candidate : e \in ToSet(row.substitutions)}
      PROVE  Honest(c, row, ring, around, parts)
  <2>i. PICK items : items = question.items
    OBVIOUS
  <2>r. PICK rows : rows = Colors!ValidateBom(c, items).rows
    OBVIOUS
  <2>1. /\ question \in ColorQuestions /\ answer = ColorsAnswer
        /\ Len(items) \in Nat /\ DOMAIN items = 1 .. Len(items)
        /\ \A i \in DOMAIN items : items[i].pair[1] \in Nat \cup {None}
        /\ Links!IsTable(c.relations)
    BY <1>1, <2>i, ColorAssumption DEF Asked, Given, Answered
  <2>2. None \notin Nat
    BY StatusAssumption
  <2>3. rows = answer.validation.rows
    BY <1>1, <2>1, <2>i, <2>r DEF ColorsAnswer
  <2>4. /\ DOMAIN rows = DOMAIN items
        /\ \A j \in DOMAIN items : /\ rows[j].pair = items[j].pair
                                   /\ rows[j].substitutions = Proposed(c, items[j].pair)
    BY <2>1, <2>r, RowIs
  <2>5. PICK i \in DOMAIN items : row = rows[i]
    BY <1>1, <2>3, <2>4 DEF ToSet
  <2>p. PICK pair : pair = row.pair
    OBVIOUS
  <2>6. row.substitutions = Proposed(c, pair) /\ pair[1] \in Nat \cup {None}
    BY <2>1, <2>4, <2>5, <2>p
  <2>7. RelatedOnly(c, pair) <=> /\ Colors!Complete(pair) /\ ~Colors!Exists(c, pair)
                                 /\ Colors!RelatedExists(c, pair)
    BY DEF RelatedOnly, ElementsOf, LinesOf, Colors!Exists
  <2>8. CASE ~RelatedOnly(c, pair)
    BY <2>6, <2>7, <2>8, <2>p DEF Proposed, Honest
  <2>9. CASE RelatedOnly(c, pair)
    <3>1. pair[1] \in Nat /\ pair[2] # None
      BY <2>6, <2>9 DEF RelatedOnly, Colors!Complete
    <3>2. /\ query = Colors!DefaultSubstitutes(pair[1])
          /\ query.max_depth = 4 /\ query.max_candidates = 100
      BY <1>1, <2>p DEF Colors!DefaultSubstitutes
    <3>3. around = Around(c.relations, query)
      BY <1>1, <3>2 DEF Around
    <3>g. PICK given : given = Proposed(c, pair)
      OBVIOUS
    <3>4. /\ parts \subseteq Fitting(c, pair[2], Around(c.relations, query))
          /\ Cardinality(Around(c.relations, query)) <= query.max_candidates =>
               parts = Fitting(c, pair[2], Around(c.relations, query))
          /\ Cardinality(Distance(c.relations, query)[1]) <= query.max_candidates =>
               Fitting(c, pair[2], Distance(c.relations, query)[1]) \subseteq parts
      <4>1. parts = {e.candidate : e \in ToSet(given)}
        BY <1>1, <2>6, <3>g
      <4>2. Links!IsTable(c.relations)
        BY <2>1
      <4>3. query = Colors!DefaultSubstitutes(pair[1])
        BY <3>2
      <4> QED
        BY <2>2, <2>9, <3>1, <3>g, <4>1, <4>2, <4>3, ProposedIs
    <3>5. ring = Distance(c.relations, query)
      BY <1>1
    <3>6. /\ parts \subseteq Fitting(c, pair[2], around)
          /\ Cardinality(around) <= 100 => parts = Fitting(c, pair[2], around)
          /\ Cardinality(ring[1]) <= 100 => Fitting(c, pair[2], ring[1]) \subseteq parts
      BY <3>2, <3>3, <3>4, <3>5
    <3> QED
      BY <2>7, <2>9, <2>p, <3>6 DEF Honest
  <2> QED
    BY <2>8, <2>9
<1>2. Asked => ValidationHonest
  <2> DEFINE Query(row) == [part |-> row.pair[1], direction |-> "both", molds |-> TRUE,
                            prints |-> FALSE, max_depth |-> 4, max_candidates |-> 100]
             Ring(row)  == Distance(question.catalog.relations, Query(row))
  <2> SUFFICES ASSUME Asked, Answered("colors"), NEW row \in ToSet(answer.validation.rows)
               PROVE  Honest(question.catalog, row, Ring(row),
                             UNION {Ring(row)[n] : n \in 1 .. 4},
                             {e.candidate : e \in ToSet(row.substitutions)})
    BY Zenon DEF ValidationHonest, Honest, Fitting
  <2> QED
    BY <1>1
<1> QED
  BY <1>2, AskedAlways, PTL
===============================================================================
