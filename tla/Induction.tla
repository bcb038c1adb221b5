------------------------------ MODULE Induction ------------------------------
(***************************************************************************)
(* Induction without an operator parameter, which the provers cannot       *)
(* instantiate: over a set of numbers, from the pigeonhole principle, and  *)
(* what follows from it about recursive functions, greatest elements, sums. *)
(***************************************************************************)
EXTENDS Integers, FiniteSetsExt, FiniteSetTheorems, TLAPS

(* A set with 0 and every successor has every number: else x is missing, and *)
(* adding 1 would map the members below x one to one into those above 0.     *)
LEMMA NatSetInduction ==
  ASSUME NEW S, 0 \in S, \A n \in Nat : n \in S => n + 1 \in S
  PROVE  Nat \subseteq S
<1>1. SUFFICES ASSUME NEW x \in Nat, x \notin S
               PROVE  FALSE
  OBVIOUS
<1> DEFINE T == {n \in 0 .. x : n \in S}
           next == [n \in T |-> n + 1]
<1>2. IsFiniteSet(T) /\ Cardinality(T) \in Nat
  <2>1. IsFiniteSet(0 .. x)
    BY FS_Interval
  <2>2. T \in SUBSET (0 .. x)
    OBVIOUS
  <2> HIDE DEF T
  <2>3. IsFiniteSet(T)
    BY <2>1, <2>2, FS_Subset
  <2> QED
    BY <2>3, FS_CardinalityType
<1>3. 0 \in T
  OBVIOUS
<1>4. IsFiniteSet(T \ {0}) /\ Cardinality(T \ {0}) = Cardinality(T) - 1
  <2> HIDE DEF T
  <2> QED
    BY <1>2, <1>3, FS_RemoveElement
<1>5. next \in [T -> T \ {0}]
  BY <1>1
<1>6. \A a, b \in T : next[a] = next[b] => a = b
  OBVIOUS
<1>7. next \in Injection(T, T \ {0})
  BY <1>5, <1>6 DEF Injection, IsInjective
<1>8. Cardinality(T) <= Cardinality(T \ {0})
  <2> HIDE DEF T, next
  <2> QED
    BY <1>7, <1>4, FS_Injection
<1> QED
  BY <1>8, <1>4, <1>2

(* The same up to a bound. *)
LEMMA UpToInduction ==
  ASSUME NEW m \in Nat, NEW S, 0 \in S, \A n \in 0 .. m - 1 : n \in S => n + 1 \in S
  PROVE  0 .. m \subseteq S
<1> DEFINE T == {n \in Nat : n <= m => n \in S}
<1>1. 0 \in T
  OBVIOUS
<1>2. \A n \in Nat : n \in T => n + 1 \in T
  OBVIOUS
<1>3. Nat \subseteq T
  <2> HIDE DEF T
  <2> QED
    BY <1>1, <1>2, NatSetInduction
<1> QED
  BY <1>3

(* f is defined by the value before: step[n] yields the n-th value. *)
Iterates(f, m, base, step) == f = [n \in 0 .. m |-> IF n = 0 THEN base ELSE step[n][f[n - 1]]]

(* Such a function exists. *)
LEMMA IterationExists ==
  ASSUME NEW V, NEW base \in V, NEW m \in Nat, NEW step \in [1 .. m -> [V -> V]]
  PROVE  \E f \in [0 .. m -> V] : Iterates(f, m, base, step)
<1> DEFINE Defines(f, k) == Iterates(f, k, base, step)
           S == {k \in 0 .. m : \E f \in [0 .. k -> V] : Defines(f, k)}
<1>1. 0 \in S
  <2> DEFINE f == [n \in 0 .. 0 |-> base]
  <2>1. f \in [0 .. 0 -> V]
    OBVIOUS
  <2>2. \A n \in 0 .. 0 : n = 0
    OBVIOUS
  <2>3. Defines(f, 0)
    BY <2>2 DEF Iterates
  <2> HIDE DEF f, Defines
  <2> QED
    BY <2>1, <2>3
<1>2. ASSUME NEW k \in 0 .. m - 1, k \in S
      PROVE  k + 1 \in S
  <2>1. PICK f \in [0 .. k -> V] : Defines(f, k)
    BY <1>2
  <2> DEFINE g == [n \in 0 .. k + 1 |-> IF n = k + 1 THEN step[k + 1][f[k]] ELSE f[n]]
  <2>2. g \in [0 .. k + 1 -> V]
    <3>1. step[k + 1] \in [V -> V] /\ f[k] \in V
      OBVIOUS
    <3>2. step[k + 1][f[k]] \in V
      BY <3>1
    <3> QED
      BY <3>2
  <2>3. \A n \in 0 .. k : f[n] = IF n = 0 THEN base ELSE step[n][f[n - 1]]
    BY <2>1 DEF Iterates
  <2>4. \A n \in 0 .. k + 1 : g[n] = IF n = 0 THEN base ELSE step[n][g[n - 1]]
    <3> SUFFICES ASSUME NEW n \in 0 .. k + 1
                 PROVE  g[n] = IF n = 0 THEN base ELSE step[n][g[n - 1]]
      OBVIOUS
    <3>1. CASE n = k + 1
      <4>1. n # 0 /\ n - 1 = k /\ k # k + 1 /\ k \in 0 .. k + 1
        BY <3>1
      <4>2. g[n] = step[n][f[n - 1]] /\ g[n - 1] = f[n - 1]
        BY <4>1, <3>1
      <4> QED
        BY <4>1, <4>2
    <3>2. CASE n # k + 1
      <4>1. n \in 0 .. k /\ (n # 0 => n - 1 \in 0 .. k /\ n - 1 # k + 1 /\ n - 1 \in 0 .. k + 1)
        BY <3>2
      <4>2. g[n] = f[n] /\ (n # 0 => g[n - 1] = f[n - 1])
        BY <4>1, <3>2
      <4> QED
        BY <4>1, <4>2, <2>3
    <3> QED
      BY <3>1, <3>2
  <2>5. Defines(g, k + 1)
    BY <2>4 DEF Iterates
  <2>6. k + 1 \in 0 .. m
    OBVIOUS
  <2> HIDE DEF g, Defines
  <2> QED
    BY <2>2, <2>5, <2>6
<1>3. 0 .. m \subseteq S
  <2> HIDE DEF S
  <2> QED
    BY <1>1, <1>2, UpToInduction
<1>4. m \in S
  BY <1>3
<1> QED
  BY <1>4

(* Every nonempty set of numbers up to a bound has a greatest one. *)
LEMMA GreatestExists ==
  ASSUME NEW m \in Nat, NEW T, T \subseteq 0 .. m, T # {}
  PROVE  \E x \in T : \A y \in T : x >= y
<1> DEFINE S == {k \in Nat : \A U \in SUBSET (0 .. k) : U # {} => \E x \in U : \A y \in U : x >= y}
<1>1. 0 \in S
  <2> SUFFICES ASSUME NEW U \in SUBSET (0 .. 0), U # {}
               PROVE  \E x \in U : \A y \in U : x >= y
    OBVIOUS
  <2>1. \A y \in U : y = 0
    OBVIOUS
  <2>2. PICK u \in U : TRUE
    OBVIOUS
  <2>3. \A y \in U : u >= y
    BY <2>1
  <2> QED
    BY <2>3
<1>2. ASSUME NEW k \in Nat, k \in S
      PROVE  k + 1 \in S
  <2> SUFFICES ASSUME NEW U \in SUBSET (0 .. k + 1), U # {}
               PROVE  \E x \in U : \A y \in U : x >= y
    OBVIOUS
  <2>1. CASE k + 1 \in U
    <3>1. \A y \in U : k + 1 >= y
      OBVIOUS
    <3> QED
      BY <2>1, <3>1
  <2>2. CASE k + 1 \notin U
    <3>1. \A y \in U : y \in 0 .. k + 1 /\ y # k + 1
      BY <2>2
    <3>2. U \in SUBSET (0 .. k)
      BY <3>1
    <3> QED
      BY <3>2, <1>2
  <2> QED
    BY <2>1, <2>2
<1>3. Nat \subseteq S
  <2> HIDE DEF S
  <2> QED
    BY <1>1, <1>2, NatSetInduction
<1> QED
  BY <1>3

-------------------------------------------------------------------------------
(* Sums.                                                                   *)

(* The element the library's folds take next. *)
Taken(s) == CHOOSE x \in s : TRUE

(* h sums f up as the fold does, *)
Folds(h, f, S) ==
  h = [s \in SUBSET S |-> IF s = {} THEN 0 ELSE f[Taken(s)] + h[s \ {Taken(s)}]]
(* or in any order. *)
Sums(h, f, S) ==
  /\ h \in [SUBSET S -> Int] /\ h[{}] = 0
  /\ \A s \in SUBSET S : \A y \in s : h[s] = f[y] + h[s \ {y}]

LEMMA Smaller ==
  ASSUME NEW S, IsFiniteSet(S), NEW s \in SUBSET S
  PROVE  /\ IsFiniteSet(s) /\ Cardinality(s) \in Nat /\ (Cardinality(s) = 0 <=> s = {})
         /\ \A y \in s : s \ {y} \in SUBSET S /\ Cardinality(s \ {y}) = Cardinality(s) - 1
<1>1. IsFiniteSet(s)
  BY FS_Subset
<1>2. Cardinality(s) \in Nat /\ (Cardinality(s) = 0 <=> s = {})
  BY <1>1, FS_CardinalityType, FS_EmptySet
<1>3. \A y \in s : Cardinality(s \ {y}) = Cardinality(s) - 1
  BY <1>1, FS_RemoveElement
<1>4. \A y \in s : s \ {y} \in SUBSET S
  OBVIOUS
<1> QED
  BY <1>1, <1>2, <1>3, <1>4

LEMMA FoldExists ==
  ASSUME NEW S, IsFiniteSet(S), NEW f \in [S -> Int]
  PROVE  \E h \in [SUBSET S -> Int] : Folds(h, f, S)
<1> DEFINE RHS(h, s) == IF s = {} THEN 0 ELSE f[Taken(s)] + h[s \ {Taken(s)}]
           K == {k \in Nat : \E h \in [SUBSET S -> Int] :
                   \A s \in SUBSET S : Cardinality(s) <= k => h[s] = RHS(h, s)}
<1>1. \A s \in SUBSET S : s # {} => Taken(s) \in s /\ Taken(s) \in S
  BY DEF Taken
<1>2. ASSUME NEW h \in [SUBSET S -> Int], NEW s \in SUBSET S
      PROVE  RHS(h, s) \in Int
  <2>1. CASE s = {}
    BY <2>1
  <2>2. CASE s # {}
    <3>1. f[Taken(s)] \in Int /\ h[s \ {Taken(s)}] \in Int
      BY <1>1, <2>2
    <3> QED
      BY <2>2, <3>1
  <2> QED
    BY <2>1, <2>2
<1>3. 0 \in K
  <2> DEFINE h == [s \in SUBSET S |-> 0]
  <2>1. h \in [SUBSET S -> Int]
    OBVIOUS
  <2>2. ASSUME NEW s \in SUBSET S, Cardinality(s) <= 0
        PROVE  h[s] = RHS(h, s)
    <3>1. Cardinality(s) = 0
      BY <2>2, Smaller
    <3>2. s = {}
      BY <3>1, Smaller
    <3> QED
      BY <3>2
  <2> HIDE DEF h, RHS
  <2> QED
    BY <2>1, <2>2
<1>4. ASSUME NEW k \in Nat, k \in K
      PROVE  k + 1 \in K
  <2>1. PICK h \in [SUBSET S -> Int] : \A s \in SUBSET S : Cardinality(s) <= k => h[s] = RHS(h, s)
    BY <1>4
  <2> DEFINE g == [s \in SUBSET S |-> RHS(h, s)]
  <2> HIDE DEF RHS
  <2>2. g \in [SUBSET S -> Int]
    BY <1>2
  <2>3. ASSUME NEW s \in SUBSET S, Cardinality(s) <= k + 1
        PROVE  g[s] = RHS(g, s)
    <3>1. g[s] = RHS(h, s)
      OBVIOUS
    <3>2. CASE s = {}
      <4>1. RHS(h, s) = RHS(g, s)
        BY <3>2 DEF RHS
      <4> QED
        BY <3>1, <4>1
    <3>3. CASE s # {}
      <4> DEFINE r == s \ {Taken(s)}
      <4>1. r \in SUBSET S /\ Cardinality(r) = Cardinality(s) - 1 /\ Cardinality(s) \in Nat
        BY <3>3, <1>1, Smaller
      <4>2. Cardinality(r) <= k
        BY <4>1, <2>3
      <4>3. h[r] = RHS(h, r) /\ g[r] = RHS(h, r)
        BY <4>1, <4>2, <2>1
      <4>4. RHS(h, s) = f[Taken(s)] + h[r] /\ RHS(g, s) = f[Taken(s)] + g[r]
        BY <3>3 DEF RHS
      <4> QED
        BY <3>1, <4>3, <4>4
    <3> QED
      BY <3>2, <3>3
  <2> HIDE DEF g
  <2> QED
    BY <2>2, <2>3
<1>5. Cardinality(S) \in K
  <2>1. Cardinality(S) \in Nat
    BY FS_CardinalityType
  <2> HIDE DEF K
  <2> QED
    BY <2>1, <1>3, <1>4, NatSetInduction
<1>6. PICK h \in [SUBSET S -> Int] : \A s \in SUBSET S : Cardinality(s) <= Cardinality(S) => h[s] = RHS(h, s)
  BY <1>5
<1>7. \A s \in SUBSET S : h[s] = RHS(h, s)
  <2>1. \A s \in SUBSET S : Cardinality(s) <= Cardinality(S)
    BY FS_Subset
  <2> QED
    BY <2>1, <1>6
<1>8. h = [s \in SUBSET S |-> RHS(h, s)]
  BY <1>7
<1> QED
  BY <1>8 DEF Folds

(* A fold may take the elements in any order. *)
LEMMA FoldSums ==
  ASSUME NEW S, IsFiniteSet(S), NEW f \in [S -> Int], NEW h \in [SUBSET S -> Int], Folds(h, f, S)
  PROVE  Sums(h, f, S)
<1> DEFINE K == {k \in Nat : \A s \in SUBSET S : Cardinality(s) <= k => \A y \in s : h[s] = f[y] + h[s \ {y}]}
<1>1. \A s \in SUBSET S : s # {} => Taken(s) \in s /\ h[s] = f[Taken(s)] + h[s \ {Taken(s)}]
  BY DEF Taken, Folds
<1>2. h[{}] = 0
  BY DEF Folds
<1>3. 0 \in K
  <2>1. ASSUME NEW s \in SUBSET S, Cardinality(s) <= 0, NEW y \in s
        PROVE  FALSE
    BY <2>1, Smaller
  <2> QED
    BY <2>1
<1>4. ASSUME NEW k \in Nat, k \in K
      PROVE  k + 1 \in K
  <2> SUFFICES ASSUME NEW s \in SUBSET S, Cardinality(s) <= k + 1, NEW y \in s
               PROVE  h[s] = f[y] + h[s \ {y}]
    OBVIOUS
  <2> DEFINE p == Taken(s)
             sp == s \ {p}
             sy == s \ {y}
  <2>1. p \in s /\ h[s] = f[p] + h[sp]
    BY <1>1
  <2>2. CASE y = p
    BY <2>1, <2>2
  <2>3. CASE y # p
    <3>1. sp \in SUBSET S /\ Cardinality(sp) = Cardinality(s) - 1 /\ sy \in SUBSET S /\ Cardinality(sy) = Cardinality(s) - 1
      BY <2>1, Smaller
    <3>2. Cardinality(s) \in Nat
      BY Smaller
    <3>3. Cardinality(sp) <= k /\ Cardinality(sy) <= k
      BY <3>1, <3>2
    <3>4. y \in sp /\ p \in sy /\ sp \ {y} = sy \ {p}
      BY <2>1, <2>3
    <3>5. h[sp] = f[y] + h[sp \ {y}]
      BY <3>1, <3>3, <3>4, <1>4
    <3>6. h[sy] = f[p] + h[sy \ {p}]
      BY <3>1, <3>3, <3>4, <1>4
    <3>7. f[p] \in Int /\ f[y] \in Int /\ h[sy \ {p}] \in Int
      BY <2>1, <3>1
    <3> HIDE DEF p, sp, sy
    <3>8. h[sp] = f[y] + h[sy \ {p}]
      BY <3>4, <3>5
    <3>9. h[s] = f[y] + h[sy]
      BY <2>1, <3>6, <3>7, <3>8
    <3> QED
      BY <3>9 DEF sy
  <2> QED
    BY <2>2, <2>3
<1>5. Cardinality(S) \in K
  <2>1. Cardinality(S) \in Nat
    BY FS_CardinalityType
  <2> HIDE DEF K
  <2> QED
    BY <2>1, <1>3, <1>4, NatSetInduction
<1>6. \A s \in SUBSET S : Cardinality(s) <= Cardinality(S)
  BY FS_Subset
<1> QED
  BY <1>2, <1>5, <1>6 DEF Sums

LEMMA FoldsAgree ==
  ASSUME NEW S, IsFiniteSet(S), NEW f, NEW h, NEW i, Folds(h, f, S), Folds(i, f, S)
  PROVE  h[S] = i[S]
<1> DEFINE K == {k \in Nat : \A s \in SUBSET S : Cardinality(s) <= k => h[s] = i[s]}
<1>1. \A s \in SUBSET S : s = {} => h[s] = 0 /\ i[s] = 0
  BY DEF Folds
<1>2. \A s \in SUBSET S : s # {} => /\ Taken(s) \in s
                                    /\ h[s] = f[Taken(s)] + h[s \ {Taken(s)}]
                                    /\ i[s] = f[Taken(s)] + i[s \ {Taken(s)}]
  BY DEF Folds, Taken
<1>3. 0 \in K
  <2>1. \A s \in SUBSET S : Cardinality(s) <= 0 => s = {}
    BY Smaller
  <2> QED
    BY <2>1, <1>1
<1>4. ASSUME NEW k \in Nat, k \in K
      PROVE  k + 1 \in K
  <2> SUFFICES ASSUME NEW s \in SUBSET S, Cardinality(s) <= k + 1
               PROVE  h[s] = i[s]
    OBVIOUS
  <2>1. CASE s = {}
    BY <2>1, <1>1
  <2>2. CASE s # {}
    <3> DEFINE r == s \ {Taken(s)}
    <3>1. r \in SUBSET S /\ Cardinality(r) <= k
      <4>1. r \in SUBSET S /\ Cardinality(r) = Cardinality(s) - 1 /\ Cardinality(s) \in Nat
        BY <2>2, <1>2, Smaller
      <4> QED
        BY <4>1
    <3>2. h[r] = i[r]
      BY <3>1, <1>4
    <3> QED
      BY <2>2, <3>2, <1>2
  <2> QED
    BY <2>1, <2>2
<1>5. Cardinality(S) \in K
  <2>1. Cardinality(S) \in Nat
    BY FS_CardinalityType
  <2> HIDE DEF K
  <2> QED
    BY <2>1, <1>3, <1>4, NatSetInduction
<1>6. Cardinality(S) <= Cardinality(S)
  BY FS_CardinalityType
<1> QED
  BY <1>5, <1>6

(* There is one sum. *)
LEMMA SumsAgree ==
  ASSUME NEW S, IsFiniteSet(S), NEW T \in SUBSET S, NEW f, NEW g, NEW h, NEW i,
         Sums(h, f, S), Sums(i, g, T), \A x \in T : f[x] = g[x]
  PROVE  h[T] = i[T]
<1> DEFINE K == {k \in Nat : \A s \in SUBSET T : Cardinality(s) <= k => h[s] = i[s]}
<1>0. IsFiniteSet(T)
  BY FS_Subset
<1>1. 0 \in K
  <2>1. \A s \in SUBSET T : Cardinality(s) <= 0 => s = {}
    BY <1>0, Smaller
  <2> QED
    BY <2>1 DEF Sums
<1>2. ASSUME NEW k \in Nat, k \in K
      PROVE  k + 1 \in K
  <2> SUFFICES ASSUME NEW s \in SUBSET T, Cardinality(s) <= k + 1
               PROVE  h[s] = i[s]
    OBVIOUS
  <2>1. CASE s = {}
    BY <2>1 DEF Sums
  <2>2. CASE s # {}
    <3>1. PICK y \in s : TRUE
      BY <2>2
    <3>2. s \ {y} \in SUBSET T /\ Cardinality(s \ {y}) <= k
      <4>1. s \ {y} \in SUBSET T /\ Cardinality(s \ {y}) = Cardinality(s) - 1 /\ Cardinality(s) \in Nat
        BY <1>0, Smaller
      <4> QED
        BY <4>1
    <3>3. h[s \ {y}] = i[s \ {y}]
      BY <3>2, <1>2
    <3>4. h[s] = f[y] + h[s \ {y}]
      BY DEF Sums
    <3>5. i[s] = g[y] + i[s \ {y}]
      BY DEF Sums
    <3>6. f[y] = g[y]
      OBVIOUS
    <3> QED
      BY <3>3, <3>4, <3>5, <3>6
  <2> QED
    BY <2>1, <2>2
<1>3. Cardinality(T) \in K
  <2>1. Cardinality(T) \in Nat
    BY <1>0, FS_CardinalityType
  <2> HIDE DEF K
  <2> QED
    BY <2>1, <1>1, <1>2, NatSetInduction
<1>4. Cardinality(T) <= Cardinality(T)
  BY <1>0, FS_CardinalityType
<1> QED
  BY <1>3, <1>4

LEMMA SumIs ==
  ASSUME NEW S, IsFiniteSet(S), NEW f \in [S -> Int]
  PROVE  \E h : Sums(h, f, S) /\ SumFunctionOnSet(f, S) = h[S]
<1> DEFINE F[s \in SUBSET S] == IF s = {} THEN 0 ELSE LET x == CHOOSE x \in s : TRUE IN f[x] + F[s \ {x}]
<1>1. SumFunctionOnSet(f, S) = F[S]
  BY DEF SumFunctionOnSet, FoldFunctionOnSet, MapThenFoldSet
<1>2. PICK h \in [SUBSET S -> Int] : Folds(h, f, S)
  BY FoldExists
<1>3. h = [s \in SUBSET S |-> IF s = {} THEN 0 ELSE LET x == CHOOSE x \in s : TRUE IN f[x] + h[s \ {x}]]
  BY <1>2 DEF Folds, Taken
<1>4. F = [s \in SUBSET S |-> IF s = {} THEN 0 ELSE LET x == CHOOSE x \in s : TRUE IN f[x] + F[s \ {x}]]
  BY <1>3
<1> HIDE DEF F
<1>5. Folds(F, f, S)
  BY <1>4 DEF Folds, Taken
<1>6. Sums(h, f, S)
  BY <1>2, FoldSums
<1>7. F[S] = h[S]
  BY <1>2, <1>5, FoldsAgree
<1> QED
  BY <1>1, <1>6, <1>7

(* The sum of a function on a part of S. *)
LEMMA SumOfPart ==
  ASSUME NEW S, IsFiniteSet(S), NEW f, NEW h, Sums(h, f, S),
         NEW A \in SUBSET S, NEW g \in [A -> Int], \A x \in A : g[x] = f[x]
  PROVE  SumFunction(g) = h[A]
<1>1. IsFiniteSet(A) /\ DOMAIN g = A
  BY FS_Subset
<1>2. PICK i : Sums(i, g, A) /\ SumFunctionOnSet(g, A) = i[A]
  BY <1>1, SumIs
<1>3. h[A] = i[A]
  BY <1>2, SumsAgree
<1> QED
  BY <1>1, <1>2, <1>3 DEF SumFunction

LEMMA SumOfUnion ==
  ASSUME NEW S, IsFiniteSet(S), NEW f \in [S -> Int], NEW h, Sums(h, f, S),
         NEW A \in SUBSET S, NEW B \in SUBSET S, A \cap B = {}
  PROVE  h[A \cup B] = h[A] + h[B] /\ h[A] \in Int /\ h[B] \in Int
<1> DEFINE K == {k \in Nat : \A s \in SUBSET B : Cardinality(s) <= k => h[A \cup s] = h[A] + h[s]}
<1>1. IsFiniteSet(B) /\ Cardinality(B) \in Nat
  BY FS_Subset, FS_CardinalityType
<1>2. /\ h \in [SUBSET S -> Int] /\ h[{}] = 0
      /\ \A s \in SUBSET S : \A y \in s : h[s] = f[y] + h[s \ {y}]
  BY DEF Sums
<1>3. 0 \in K
  <2> SUFFICES ASSUME NEW s \in SUBSET B, Cardinality(s) <= 0
               PROVE  h[A \cup s] = h[A] + h[s]
    OBVIOUS
  <2>1. s = {}
    BY <1>1, Smaller
  <2>2. A \cup s = A /\ h[A] \in Int
    BY <2>1, <1>2
  <2> QED
    BY <2>1, <2>2, <1>2
<1>4. ASSUME NEW k \in Nat, k \in K
      PROVE  k + 1 \in K
  <2> SUFFICES ASSUME NEW s \in SUBSET B, Cardinality(s) <= k + 1
               PROVE  h[A \cup s] = h[A] + h[s]
    OBVIOUS
  <2>1. CASE s = {}
    <3>1. A \cup s = A /\ h[A] \in Int
      BY <2>1, <1>2
    <3> QED
      BY <2>1, <3>1, <1>2
  <2>2. CASE s # {}
    <3>1. PICK y \in s : TRUE
      BY <2>2
    <3> DEFINE r == s \ {y}
    <3>2. r \in SUBSET B /\ Cardinality(r) <= k
      <4>1. r \in SUBSET B /\ Cardinality(r) = Cardinality(s) - 1 /\ Cardinality(s) \in Nat
        BY <1>1, Smaller
      <4> QED
        BY <4>1
    <3>3. A \cup s \in SUBSET S /\ y \in A \cup s /\ (A \cup s) \ {y} = A \cup r /\ y \in S /\ r \in SUBSET S /\ s \in SUBSET S
      OBVIOUS
    <3>4. h[A \cup r] = h[A] + h[r]
      BY <3>2, <1>4
    <3>5. h[A \cup s] = f[y] + h[A \cup r]
      BY <3>3, <1>2
    <3>6. h[s] = f[y] + h[r]
      BY <3>3, <1>2
    <3>7. f[y] \in Int /\ h[A] \in Int /\ h[r] \in Int
      BY <3>3, <1>2
    <3> HIDE DEF r
    <3> QED
      BY <3>4, <3>5, <3>6, <3>7
  <2> QED
    BY <2>1, <2>2
<1>5. Cardinality(B) \in K
  <2> HIDE DEF K
  <2> QED
    BY <1>1, <1>3, <1>4, NatSetInduction
<1>6. Cardinality(B) <= Cardinality(B)
  BY <1>1
<1>7. h[A] \in Int /\ h[B] \in Int
  BY <1>2
<1> QED
  BY <1>5, <1>6, <1>7

(* What adds nothing may be left out. *)
LEMMA SumWithoutZeros ==
  ASSUME NEW S, IsFiniteSet(S), NEW f \in [S -> Int], NEW h, Sums(h, f, S),
         NEW A \in SUBSET S, NEW B \in SUBSET A, \A x \in A \ B : f[x] = 0
  PROVE  h[A] = h[B]
<1> DEFINE R == A \ B
           K == {k \in Nat : \A s \in SUBSET R : Cardinality(s) <= k => h[s] = 0}
<1>1. R \in SUBSET S /\ IsFiniteSet(R) /\ Cardinality(R) \in Nat
  <2>1. R \in SUBSET S
    OBVIOUS
  <2>2. IsFiniteSet(R)
    BY <2>1, FS_Subset
  <2> QED
    BY <2>1, <2>2, FS_CardinalityType
<1>2. h[{}] = 0 /\ \A s \in SUBSET S : \A y \in s : h[s] = f[y] + h[s \ {y}]
  BY DEF Sums
<1>3. \A x \in R : f[x] = 0
  OBVIOUS
<1> HIDE DEF R
<1>4. 0 \in K
  <2>1. \A s \in SUBSET R : Cardinality(s) <= 0 => s = {}
    BY <1>1, Smaller
  <2> QED
    BY <2>1, <1>2
<1>5. ASSUME NEW k \in Nat, k \in K
      PROVE  k + 1 \in K
  <2> SUFFICES ASSUME NEW s \in SUBSET R, Cardinality(s) <= k + 1
               PROVE  h[s] = 0
    OBVIOUS
  <2>1. CASE s = {}
    BY <2>1, <1>2
  <2>2. CASE s # {}
    <3>1. PICK y \in s : TRUE
      BY <2>2
    <3>2. s \ {y} \in SUBSET R /\ Cardinality(s \ {y}) <= k
      <4>1. s \ {y} \in SUBSET R /\ Cardinality(s \ {y}) = Cardinality(s) - 1 /\ Cardinality(s) \in Nat
        BY <1>1, Smaller
      <4> QED
        BY <4>1
    <3>3. h[s \ {y}] = 0
      BY <3>2, <1>5
    <3>4. s \in SUBSET S
      BY <1>1
    <3>5. h[s] = f[y] + h[s \ {y}] /\ f[y] = 0
      BY <3>4, <1>2, <1>3
    <3> QED
      BY <3>3, <3>5
  <2> QED
    BY <2>1, <2>2
<1>6. Cardinality(R) \in K
  <2> HIDE DEF K
  <2> QED
    BY <1>1, <1>4, <1>5, NatSetInduction
<1>7. Cardinality(R) <= Cardinality(R)
  BY <1>1
<1>8. h[R] = 0
  BY <1>6, <1>7
<1>9. B \in SUBSET S /\ B \cap R = {} /\ B \cup R = A
  BY DEF R
<1>10. R \in SUBSET S
  BY <1>1
<1>11. B \in SUBSET S
  BY <1>9
<1>12. B \cap R = {}
  BY <1>9
<1>13. h[B \cup R] = h[B] + h[R] /\ h[B] \in Int
  BY <1>10, <1>11, <1>12, SumOfUnion
<1>14. h[A] = h[B] + 0
  BY <1>8, <1>9, <1>13
<1> QED
  BY <1>13, <1>14

(* A sum by groups: kind[x] is the group of x, group[u] the sum of u's. *)
LEMMA SumByGroups ==
  ASSUME NEW S, IsFiniteSet(S), NEW f \in [S -> Int], NEW h, Sums(h, f, S),
         NEW U, IsFiniteSet(U), NEW kind \in [S -> U], NEW A \in SUBSET S,
         NEW group \in [U -> Int], \A u \in U : group[u] = h[{x \in A : kind[x] = u}]
  PROVE  SumFunction(group) = h[A]
<1> DEFINE Of(V) == {x \in A : kind[x] \in V}
<1>1. PICK i : Sums(i, group, U) /\ SumFunctionOnSet(group, U) = i[U]
  BY SumIs
<1> DEFINE K == {k \in Nat : \A V \in SUBSET U : Cardinality(V) <= k => i[V] = h[Of(V)]}
<1>2. h[{}] = 0 /\ i[{}] = 0 /\ \A V \in SUBSET U : \A u \in V : i[V] = group[u] + i[V \ {u}]
  BY <1>1 DEF Sums
<1>3. 0 \in K
  <2> SUFFICES ASSUME NEW V \in SUBSET U, Cardinality(V) <= 0
               PROVE  i[V] = h[Of(V)]
    OBVIOUS
  <2>1. V = {}
    BY Smaller
  <2>2. Of(V) = {}
    BY <2>1
  <2> QED
    BY <2>1, <2>2, <1>2
<1>4. ASSUME NEW k \in Nat, k \in K
      PROVE  k + 1 \in K
  <2> SUFFICES ASSUME NEW V \in SUBSET U, Cardinality(V) <= k + 1
               PROVE  i[V] = h[Of(V)]
    OBVIOUS
  <2>1. CASE V = {}
    <3>1. Of(V) = {}
      BY <2>1
    <3> QED
      BY <2>1, <3>1, <1>2
  <2>2. CASE V # {}
    <3>1. PICK u \in V : TRUE
      BY <2>2
    <3> DEFINE W == V \ {u}
               mine == {x \in A : kind[x] = u}
               rest == Of(W)
    <3>2. W \in SUBSET U /\ Cardinality(W) <= k
      <4>1. W \in SUBSET U /\ Cardinality(W) = Cardinality(V) - 1 /\ Cardinality(V) \in Nat
        BY Smaller
      <4> QED
        BY <4>1
    <3>3. rest \in SUBSET S /\ mine \in SUBSET S /\ mine \cap rest = {} /\ mine \cup rest = Of(V)
      OBVIOUS
    <3>4. i[W] = h[rest]
      BY <3>2, <1>4
    <3>5. i[V] = group[u] + i[W] /\ group[u] = h[mine]
      BY <1>2
    <3> HIDE DEF W, mine, rest, Of
    <3>6. h[mine \cup rest] = h[mine] + h[rest]
      <4>1. rest \in SUBSET S
        BY <3>3
      <4>2. mine \in SUBSET S
        BY <3>3
      <4>3. mine \cap rest = {}
        BY <3>3
      <4>4. h[mine \cup rest] = h[mine] + h[rest] /\ h[mine] \in Int /\ h[rest] \in Int
        BY <4>1, <4>2, <4>3, SumOfUnion
      <4> QED
        BY <4>4
    <3> QED
      BY <3>3, <3>4, <3>5, <3>6
  <2> QED
    BY <2>1, <2>2
<1>5. Cardinality(U) \in K
  <2>1. Cardinality(U) \in Nat
    BY FS_CardinalityType
  <2> HIDE DEF K
  <2> QED
    BY <2>1, <1>3, <1>4, NatSetInduction
<1>6. i[U] = h[Of(U)]
  <2>1. Cardinality(U) <= Cardinality(U)
    BY FS_CardinalityType
  <2> QED
    BY <2>1, <1>5
<1>7. Of(U) = A /\ DOMAIN group = U
  OBVIOUS
<1> QED
  BY <1>1, <1>6, <1>7 DEF SumFunction
===============================================================================
