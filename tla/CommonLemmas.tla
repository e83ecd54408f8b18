---------------------------- MODULE CommonLemmas ----------------------------
(***************************************************************************)
(* What the proofs of several components need: division, induction over    *)
(* finite sets and up to a number, the existence of recursive functions,   *)
(* sums, and the least and the k-th element of a finite set.               *)
(*                                                                         *)
(* An induction is stated for the members of a set P instead of for a      *)
(* predicate, and follows from the well-foundedness of the finite subsets  *)
(* of a set.                                                               *)
(***************************************************************************)
EXTENDS Integers, FiniteSetsExt, Functions, FiniteSetTheorems, WellFoundedInduction, TLAPS

(* Division with remainder, in the form the provers use it.                *)
LEMMA DivisionWithRemainder ==
  ASSUME NEW n \in Nat \ {0}, NEW x \in Nat
  PROVE  /\ x % n \in 0 .. n - 1
         /\ x \div n \in Nat
         /\ x = (x \div n) * n + (x % n)
<1>1. x % n \in 0 .. n - 1
  BY Z3
<1>2. x \div n \in Nat
  BY Z3
<1>3. x = (x \div n) * n + (x % n)
  BY Z3
<1> QED
  BY <1>1, <1>2, <1>3

(***************************************************************************)
(* Induction over the subsets of a finite set.                             *)
(***************************************************************************)
LEMMA SetInduction ==
  ASSUME NEW S, IsFiniteSet(S), NEW P, {} \in P,
         \A T \in SUBSET S, x \in S : T \in P /\ x \notin T => T \cup {x} \in P
  PROVE  \A T \in SUBSET S : T \in P
<1> DEFINE Bad == {T \in SUBSET S : T \notin P}
<1> SUFFICES ASSUME Bad # {} PROVE FALSE
  OBVIOUS
<1>1. Bad \subseteq FiniteSubsetsOf(S)
  BY FS_Subset DEF FiniteSubsetsOf
<1>2. PICK T \in Bad : \A U \in Bad : ~ (<<U, T>> \in StrictSubsetOrdering(S))
  <2> HIDE DEF Bad
  <2> QED
    BY <1>1, FS_StrictSubsetOrderingWellFounded, WFMin
<1>3. PICK x \in T : TRUE
  OBVIOUS
<1>4. /\ T \ {x} \in SUBSET S /\ x \in S /\ x \notin T \ {x} /\ (T \ {x}) \cup {x} = T
      /\ T \ {x} # T
  OBVIOUS
<1>5. <<T \ {x}, T>> \in StrictSubsetOrdering(S)
  BY <1>4 DEF StrictSubsetOrdering
<1>6. T \ {x} \in P
  BY <1>2, <1>4, <1>5
<1> QED
  BY <1>4, <1>6

(***************************************************************************)
(* Induction from 0 up to n.                                               *)
(***************************************************************************)
LEMMA CountUp ==
  ASSUME NEW n \in Nat, NEW S, 0 \in S, \A k \in 0 .. n - 1 : k \in S => k + 1 \in S
  PROVE  \A k \in 0 .. n : k \in S
<1> DEFINE Bad == {T \in SUBSET (0 .. n) : \E k \in 0 .. n : T = 0 .. k /\ k \notin S}
<1> SUFFICES ASSUME NEW b \in 0 .. n, b \notin S PROVE FALSE
  OBVIOUS
<1>1. Bad # {}
  <2>1. 0 .. b \in SUBSET (0 .. n)
    OBVIOUS
  <2> QED
    BY <2>1
<1>2. Bad \subseteq FiniteSubsetsOf(0 .. n)
  <2>1. IsFiniteSet(0 .. n)
    BY FS_Interval
  <2> QED
    BY <2>1, FS_Subset DEF FiniteSubsetsOf
<1>3. PICK T \in Bad : \A U \in Bad : ~ (<<U, T>> \in StrictSubsetOrdering(0 .. n))
  <2> HIDE DEF Bad
  <2> QED
    BY <1>1, <1>2, FS_StrictSubsetOrderingWellFounded, WFMin
<1>4. PICK k \in 0 .. n : T = 0 .. k /\ k \notin S
  OBVIOUS
<1>5. k \in Nat /\ k # 0 /\ k - 1 \in 0 .. n - 1 /\ k - 1 \in 0 .. n /\ (k - 1) + 1 = k
  BY <1>4
<1>6. k - 1 \notin S
  BY <1>4, <1>5
<1>7. 0 .. (k - 1) \in SUBSET (0 .. n) /\ 0 .. (k - 1) \in SUBSET T /\ 0 .. (k - 1) # T
  <2>1. k \in T /\ k \notin 0 .. (k - 1)
    BY <1>4, <1>5
  <2> QED
    BY <1>4, <1>5, <2>1
<1>8. 0 .. (k - 1) \in Bad
  BY <1>5, <1>6, <1>7
<1>9. <<0 .. (k - 1), T>> \in StrictSubsetOrdering(0 .. n)
  BY <1>4, <1>7 DEF StrictSubsetOrdering
<1> QED
  BY <1>3, <1>8, <1>9

LEMMA FiniteImage ==
  ASSUME NEW S, IsFiniteSet(S), NEW f
  PROVE  IsFiniteSet({f[x] : x \in S})
<1> DEFINE T == {f[x] : x \in S}
           g == [x \in S |-> f[x]]
<1>1. g \in Surjection(S, T)
  BY DEF Surjection
<1> HIDE DEF T, g
<1>2. IsFiniteSet(T)
  BY <1>1, FS_Surjection
<1> QED
  BY <1>2 DEF T

(***************************************************************************)
(* A function defined by recursion from 0 up to n exists: base at 0, and   *)
(* Step[<<i, x>>] at i when x is its value before i.                       *)
(***************************************************************************)
StepsStayIn(n, States, Step) == \A i \in 1 .. n, x \in States : Step[<<i, x>>] \in States

Follows(h, n, base, Step) ==
  h[0] = base /\ \A i \in 1 .. n : h[i] = Step[<<i, h[i - 1]>>]

LEMMA RecursionExists ==
  ASSUME NEW n \in Nat, NEW States, NEW base \in States,
         NEW Step, StepsStayIn(n, States, Step)
  PROVE  \E h \in [0 .. n -> States] : Follows(h, n, base, Step)
<1> USE DEF StepsStayIn, Follows
<1> DEFINE Upto(k, h) == h[0] = base /\ \A i \in 1 .. k : h[i] = Step[<<i, h[i - 1]>>]
           S == {k \in 0 .. n : \E h \in [0 .. k -> States] : Upto(k, h)}
<1>1. 0 \in S
  <2> DEFINE h == [i \in 0 .. 0 |-> base]
  <2>1. h \in [0 .. 0 -> States] /\ Upto(0, h)
    OBVIOUS
  <2> HIDE DEF h, Upto
  <2> QED
    BY <2>1
<1>2. ASSUME NEW k \in 0 .. n - 1, k \in S
      PROVE  k + 1 \in S
  <2> PICK h \in [0 .. k -> States] : Upto(k, h)
    BY <1>2
  <2> DEFINE x == Step[<<k + 1, h[k]>>]
             g == [i \in 0 .. k + 1 |-> IF i = k + 1 THEN x ELSE h[i]]
  <2>1. k \in Nat /\ k + 1 \in 1 .. n /\ k + 1 \in 0 .. n /\ h[k] \in States
    OBVIOUS
  <2>2. x \in States
    BY <2>1
  <2> HIDE DEF x
  <2>3. \A i \in 0 .. k + 1 : i # k + 1 => i \in 0 .. k
    BY <2>1
  <2>4. g \in [0 .. k + 1 -> States]
    BY <2>2, <2>3
  <2>5. g[k + 1] = x /\ \A i \in 0 .. k : g[i] = h[i]
    BY <2>1
  <2> HIDE DEF g
  <2>6. g[0] = base
    BY <2>1, <2>5
  <2>7. ASSUME NEW i \in 1 .. k + 1
        PROVE  g[i] = Step[<<i, g[i - 1]>>]
    <3>1. CASE i = k + 1
      <4>1. i - 1 = k /\ k \in 0 .. k
        BY <2>1, <3>1
      <4> QED
        BY <2>5, <3>1, <4>1 DEF x
    <3>2. CASE i \in 1 .. k
      <4>1. i \in 0 .. k /\ i - 1 \in 0 .. k
        BY <3>2
      <4> QED
        BY <2>5, <3>2, <4>1
    <3> QED
      BY <2>1, <3>1, <3>2
  <2> QED
    BY <2>1, <2>4, <2>6, <2>7
<1>3. n \in S
  <2>1. \A k \in 0 .. n - 1 : k \in S => k + 1 \in S
    BY <1>2
  <2>2. n \in 0 .. n
    OBVIOUS
  <2> HIDE DEF S
  <2> QED
    BY <1>1, <2>1, <2>2, CountUp
<1> QED
  BY <1>3

(***************************************************************************)
(* Sums.  SumFunctionOnSet adds the values in an order of its own choice;  *)
(* SumRemove says that the order does not matter.                          *)
(***************************************************************************)
Chosen(T) == CHOOSE x \in T : TRUE

AddsUp(g, f, S) ==
  \A T \in SUBSET S : g[T] = IF T = {} THEN 0 ELSE f[Chosen(T)] + g[T \ {Chosen(T)}]

LEMMA AddsUpExists ==
  ASSUME NEW S, IsFiniteSet(S), NEW f, \A x \in S : f[x] \in Int
  PROVE  \E g \in [SUBSET S -> Int] : AddsUp(g, f, S)
<1> DEFINE Small(k) == {T \in SUBSET S : Cardinality(T) <= k}
           Upto(k, g) == /\ g \in [Small(k) -> Int]
                         /\ \A T \in Small(k) :
                              g[T] = IF T = {} THEN 0 ELSE f[Chosen(T)] + g[T \ {Chosen(T)}]
           n == Cardinality(S)
           K == {k \in 0 .. n : \E g : Upto(k, g)}
<1>1. n \in Nat
  BY FS_CardinalityType
<1>2. \A T \in SUBSET S : Cardinality(T) \in Nat /\ Cardinality(T) <= n /\ IsFiniteSet(T)
  BY FS_CardinalityType, FS_Subset
<1>3. \A T \in SUBSET S : T # {} => /\ Chosen(T) \in T /\ Chosen(T) \in S
                                    /\ T \ {Chosen(T)} \in SUBSET S
                                    /\ Cardinality(T \ {Chosen(T)}) = Cardinality(T) - 1
  <2> SUFFICES ASSUME NEW T \in SUBSET S, T # {}
               PROVE  /\ Chosen(T) \in T /\ Chosen(T) \in S
                      /\ T \ {Chosen(T)} \in SUBSET S
                      /\ Cardinality(T \ {Chosen(T)}) = Cardinality(T) - 1
    OBVIOUS
  <2>1. Chosen(T) \in T
    BY DEF Chosen
  <2> QED
    BY <1>2, <2>1, FS_RemoveElement
<1> HIDE DEF n
<1>4. 0 \in K
  <2> DEFINE g == [T \in Small(0) |-> 0]
  <2>1. \A T \in Small(0) : T = {}
    <3> SUFFICES ASSUME NEW T \in SUBSET S, Cardinality(T) <= 0 PROVE T = {}
      OBVIOUS
    <3> QED
      BY <1>2, FS_EmptySet
  <2>2. g \in [Small(0) -> Int]
    OBVIOUS
  <2>3. Upto(0, g)
    BY <2>1, <2>2
  <2> HIDE DEF Upto
  <2> QED
    BY <1>1, <2>3
<1>5. ASSUME NEW k \in 0 .. n - 1, k \in K
      PROVE  k + 1 \in K
  <2> PICK h : Upto(k, h)
    BY <1>5
  <2> DEFINE Value(T) == IF T = {} THEN 0 ELSE f[Chosen(T)] + h[T \ {Chosen(T)}]
             g == [T \in Small(k + 1) |-> Value(T)]
  <2>1. \A T \in Small(k + 1) : T # {} => T \ {Chosen(T)} \in Small(k)
    BY <1>1, <1>2, <1>3
  <2>2. \A T \in Small(k) : T \in Small(k + 1)
    BY <1>1, <1>2
  <2>3. \A T \in Small(k) : g[T] = h[T]
    BY <2>2
  <2>4. ASSUME NEW T \in Small(k + 1) PROVE Value(T) \in Int
    <3>1. CASE T = {}
      BY <3>1
    <3>2. CASE T # {}
      <4>1. f[Chosen(T)] \in Int
        BY <1>3, <3>2
      <4>2. h[T \ {Chosen(T)}] \in Int
        BY <2>1, <3>2
      <4> QED
        BY <3>2, <4>1, <4>2
    <3> QED
      BY <3>1, <3>2
  <2>5. g \in [Small(k + 1) -> Int]
    <3> HIDE DEF Value, Small
    <3> QED
      BY <2>4
  <2>6. ASSUME NEW T \in Small(k + 1)
        PROVE  g[T] = IF T = {} THEN 0 ELSE f[Chosen(T)] + g[T \ {Chosen(T)}]
    <3>1. g[T] = Value(T)
      OBVIOUS
    <3> HIDE DEF g, Small
    <3> QED
      BY <2>1, <2>3, <3>1
  <2>7. Upto(k + 1, g)
    <3> HIDE DEF g, Small
    <3> QED
      BY <2>5, <2>6
  <2> HIDE DEF Upto, g
  <2> QED
    BY <1>1, <2>7
<1>6. n \in K
  <2>1. \A k \in 0 .. n - 1 : k \in K => k + 1 \in K
    BY <1>5
  <2>2. n \in 0 .. n
    BY <1>1
  <2> HIDE DEF K
  <2> QED
    BY <1>1, <1>4, <2>1, <2>2, CountUp
<1>7. Small(n) = SUBSET S
  BY <1>2
<1> QED
  BY <1>6, <1>7 DEF AddsUp

LEMMA AddsUpUnique ==
  ASSUME NEW S, IsFiniteSet(S), NEW f, NEW g, NEW h, NEW U, AddsUp(g, f, S), AddsUp(h, f, U)
  PROVE  \A T \in SUBSET S : T \in SUBSET U => g[T] = h[T]
<1> DEFINE n == Cardinality(S)
           K == {k \in 0 .. n : \A T \in SUBSET S :
                                  T \in SUBSET U /\ Cardinality(T) = k => g[T] = h[T]}
<1>1. n \in Nat /\ \A T \in SUBSET S : Cardinality(T) \in 0 .. n /\ IsFiniteSet(T)
  BY FS_CardinalityType, FS_Subset
<1> HIDE DEF n
<1>2. 0 \in K
  <2> SUFFICES ASSUME NEW T \in SUBSET S, T \in SUBSET U, Cardinality(T) = 0
               PROVE  g[T] = h[T]
    BY <1>1
  <2>1. T = {}
    BY <1>1, FS_EmptySet
  <2> QED
    BY <2>1 DEF AddsUp
<1>3. ASSUME NEW k \in 0 .. n - 1, k \in K
      PROVE  k + 1 \in K
  <2> SUFFICES ASSUME NEW T \in SUBSET S, T \in SUBSET U, Cardinality(T) = k + 1
               PROVE  g[T] = h[T]
    BY <1>1
  <2>1. T # {}
    BY <1>1, FS_EmptySet
  <2>2. Chosen(T) \in T
    BY <2>1 DEF Chosen
  <2>3. /\ T \ {Chosen(T)} \in SUBSET S /\ T \ {Chosen(T)} \in SUBSET U
        /\ Cardinality(T \ {Chosen(T)}) = k
    BY <1>1, <2>2, FS_RemoveElement
  <2>4. g[T \ {Chosen(T)}] = h[T \ {Chosen(T)}]
    BY <1>3, <2>3
  <2> QED
    BY <2>1, <2>4 DEF AddsUp
<1>4. \A k \in 0 .. n : k \in K
  <2>1. \A k \in 0 .. n - 1 : k \in K => k + 1 \in K
    BY <1>3
  <2> HIDE DEF K
  <2> QED
    BY <1>1, <1>2, <2>1, CountUp
<1> QED
  BY <1>1, <1>4

LEMMA SumAddsUp ==
  ASSUME NEW S, IsFiniteSet(S), NEW f, \A x \in S : f[x] \in Int
  PROVE  \E g \in [SUBSET S -> Int] : AddsUp(g, f, S) /\ SumFunctionOnSet(f, S) = g[S]
<1> DEFINE iter[s \in SUBSET S] ==
             IF s = {} THEN 0
             ELSE LET x == CHOOSE y \in s : TRUE
                  IN  f[x] + iter[s \ {x}]
<1>1. SumFunctionOnSet(f, S) = iter[S]
  BY DEF SumFunctionOnSet, FoldFunctionOnSet, MapThenFoldSet
<1>2. PICK g \in [SUBSET S -> Int] : AddsUp(g, f, S)
  BY AddsUpExists
<1>3. iter = [s \in SUBSET S |-> IF s = {} THEN 0
                                 ELSE LET x == CHOOSE y \in s : TRUE
                                      IN  f[x] + iter[s \ {x}]]
  <2>1. g = [s \in SUBSET S |-> IF s = {} THEN 0
                                ELSE LET x == CHOOSE y \in s : TRUE
                                     IN  f[x] + g[s \ {x}]]
    BY <1>2 DEF AddsUp, Chosen
  <2> QED
    BY <2>1
<1>4. AddsUp(iter, f, S)
  BY <1>3 DEF AddsUp, Chosen
<1> HIDE DEF iter
<1>5. g[S] = iter[S]
  BY <1>2, <1>4, AddsUpUnique
<1> QED
  BY <1>1, <1>2, <1>5

Summable(f, S) == IsFiniteSet(S) /\ \A x \in S : f[x] \in Int

LEMMA SummablePart ==
  ASSUME NEW S, NEW f, Summable(f, S), NEW T \in SUBSET S
  PROVE  Summable(f, T)
BY FS_Subset DEF Summable

(* Every part of S is summed by the same function.                         *)
PartSums(g, f, S) ==
  /\ g \in [SUBSET S -> Int]
  /\ AddsUp(g, f, S)
  /\ \A T \in SUBSET S : SumFunctionOnSet(f, T) = g[T]

LEMMA SumsOfParts ==
  ASSUME NEW S, NEW f, Summable(f, S)
  PROVE  \E g : PartSums(g, f, S)
<1>1. PICK g \in [SUBSET S -> Int] : AddsUp(g, f, S)
  BY AddsUpExists DEF Summable
<1>2. ASSUME NEW T \in SUBSET S
      PROVE  SumFunctionOnSet(f, T) = g[T]
  <2>1. Summable(f, T)
    BY SummablePart
  <2>2. PICK h \in [SUBSET T -> Int] : AddsUp(h, f, T) /\ SumFunctionOnSet(f, T) = h[T]
    BY <2>1, SumAddsUp DEF Summable
  <2>3. T \in SUBSET T /\ T \in SUBSET S /\ IsFiniteSet(T)
    BY <2>1 DEF Summable
  <2>4. h[T] = g[T]
    BY <1>1, <2>2, <2>3, AddsUpUnique
  <2> QED
    BY <2>2, <2>4
<1> QED
  BY <1>1, <1>2 DEF PartSums

LEMMA SumType ==
  ASSUME NEW S, NEW f, Summable(f, S)
  PROVE  SumFunctionOnSet(f, S) \in Int
<1>1. PICK g : PartSums(g, f, S)
  BY SumsOfParts
<1>2. S \in SUBSET S
  OBVIOUS
<1> QED
  BY <1>1, <1>2 DEF PartSums

LEMMA SumEmpty ==
  ASSUME NEW f
  PROVE  SumFunctionOnSet(f, {}) = 0
<1>1. Summable(f, {}) /\ {} \in SUBSET {}
  BY FS_EmptySet DEF Summable
<1>2. PICK g : PartSums(g, f, {})
  BY <1>1, SumsOfParts
<1> QED
  BY <1>1, <1>2 DEF PartSums, AddsUp

LEMMA SumRemove ==
  ASSUME NEW S, NEW f, Summable(f, S), NEW x \in S
  PROVE  SumFunctionOnSet(f, S) = f[x] + SumFunctionOnSet(f, S \ {x})
<1>0. PICK g : PartSums(g, f, S)
  BY SumsOfParts
<1> DEFINE n == Cardinality(S)
           Splits(T) == \A y \in T : SumFunctionOnSet(f, T) = f[y] + SumFunctionOnSet(f, T \ {y})
           K == {k \in 0 .. n : \A T \in SUBSET S : Cardinality(T) = k => Splits(T)}
<1>1. \A T \in SUBSET S : g[T] \in Int /\ SumFunctionOnSet(f, T) = g[T]
  BY <1>0 DEF PartSums
<1>2. n \in Nat /\ \A T \in SUBSET S : Cardinality(T) \in 0 .. n /\ IsFiniteSet(T)
  BY FS_CardinalityType, FS_Subset DEF Summable
<1> HIDE DEF n
<1>3. 0 \in K
  <2> SUFFICES ASSUME NEW T \in SUBSET S, Cardinality(T) = 0
               PROVE  Splits(T)
    BY <1>2
  <2>1. T = {}
    BY <1>2, FS_EmptySet
  <2> QED
    BY <2>1
<1>4. ASSUME NEW k \in 0 .. n - 1, k \in K
      PROVE  k + 1 \in K
  <2> SUFFICES ASSUME NEW T \in SUBSET S, Cardinality(T) = k + 1, NEW y \in T
               PROVE  SumFunctionOnSet(f, T) = f[y] + SumFunctionOnSet(f, T \ {y})
    BY <1>2
  <2> DEFINE c == Chosen(T)
  <2>1. c \in T
    BY DEF Chosen
  <2>2. SumFunctionOnSet(f, T) = f[c] + SumFunctionOnSet(f, T \ {c})
    <3>1. T \ {c} \in SUBSET S /\ T # {}
      OBVIOUS
    <3>2. g[T] = f[Chosen(T)] + g[T \ {Chosen(T)}]
      BY <1>0, <3>1 DEF PartSums, AddsUp
    <3> QED
      BY <1>1, <3>1, <3>2
  <2> HIDE DEF c
  <2>3. CASE y = c
    BY <2>2, <2>3
  <2>4. CASE y # c
    <3>1. /\ T \ {c} \in SUBSET S /\ Cardinality(T \ {c}) = k /\ y \in T \ {c}
          /\ T \ {y} \in SUBSET S /\ Cardinality(T \ {y}) = k /\ c \in T \ {y}
          /\ (T \ {c}) \ {y} = (T \ {y}) \ {c} /\ (T \ {c}) \ {y} \in SUBSET S
      BY <1>2, <2>1, <2>4, FS_RemoveElement
    <3>2. SumFunctionOnSet(f, T \ {c}) = f[y] + SumFunctionOnSet(f, (T \ {c}) \ {y})
      BY <1>4, <3>1
    <3>3. SumFunctionOnSet(f, T \ {y}) = f[c] + SumFunctionOnSet(f, (T \ {y}) \ {c})
      BY <1>4, <3>1
    <3>4. /\ f[c] \in Int /\ f[y] \in Int
          /\ SumFunctionOnSet(f, (T \ {c}) \ {y}) \in Int
      <4>1. SumFunctionOnSet(f, (T \ {c}) \ {y}) \in Int
        BY <1>1, <3>1
      <4> QED
        BY <2>1, <4>1 DEF Summable
    <3>5. SumFunctionOnSet(f, (T \ {y}) \ {c}) = SumFunctionOnSet(f, (T \ {c}) \ {y})
      BY <3>1
    <3> QED
      BY <2>2, <3>2, <3>3, <3>4, <3>5
  <2> QED
    BY <2>3, <2>4
<1>5. n \in K
  <2>1. \A k \in 0 .. n - 1 : k \in K => k + 1 \in K
    BY <1>4
  <2>2. n \in 0 .. n
    BY <1>2
  <2> HIDE DEF K
  <2> QED
    BY <1>2, <1>3, <2>1, <2>2, CountUp
<1>6. Splits(S)
  BY <1>5 DEF n
<1> QED
  BY <1>6

LEMMA SumAdd ==
  ASSUME NEW S, NEW f, NEW x, x \notin S, Summable(f, S \cup {x})
  PROVE  SumFunctionOnSet(f, S \cup {x}) = f[x] + SumFunctionOnSet(f, S)
<1>1. (S \cup {x}) \ {x} = S /\ x \in S \cup {x}
  OBVIOUS
<1> QED
  BY <1>1, SumRemove

(* Sums compare as their terms do.                                         *)
LEMMA SumAtMost ==
  ASSUME NEW S, NEW f, NEW g, Summable(f, S), Summable(g, S), \A x \in S : f[x] <= g[x]
  PROVE  SumFunctionOnSet(f, S) <= SumFunctionOnSet(g, S)
<1> DEFINE P == {T \in SUBSET S : SumFunctionOnSet(f, T) <= SumFunctionOnSet(g, T)}
<1>1. {} \in P
  BY SumEmpty
<1>2. ASSUME NEW T \in SUBSET S, NEW x \in S, T \in P, x \notin T
      PROVE  T \cup {x} \in P
  <2>1. /\ Summable(f, T \cup {x}) /\ Summable(g, T \cup {x})
        /\ Summable(f, T) /\ Summable(g, T)
    BY SummablePart
  <2>2. /\ SumFunctionOnSet(f, T \cup {x}) = f[x] + SumFunctionOnSet(f, T)
        /\ SumFunctionOnSet(g, T \cup {x}) = g[x] + SumFunctionOnSet(g, T)
    BY <1>2, <2>1, SumAdd
  <2>3. SumFunctionOnSet(f, T) \in Int /\ SumFunctionOnSet(g, T) \in Int
    BY <2>1, SumType
  <2>4. f[x] \in Int /\ g[x] \in Int
    BY DEF Summable
  <2> QED
    BY <1>2, <2>2, <2>3, <2>4
<1>3. S \in P
  <2>1. \A T \in SUBSET S, x \in S : T \in P /\ x \notin T => T \cup {x} \in P
    BY <1>2
  <2>2. IsFiniteSet(S) /\ S \in SUBSET S
    BY DEF Summable
  <2> HIDE DEF P
  <2> QED
    BY <1>1, <2>1, <2>2, SetInduction
<1> QED
  BY <1>3

(* A sum depends on its terms only.                                        *)
LEMMA SumSame ==
  ASSUME NEW S, NEW f, NEW g, Summable(f, S), \A x \in S : f[x] = g[x]
  PROVE  SumFunctionOnSet(f, S) = SumFunctionOnSet(g, S)
<1>1. Summable(g, S)
  BY DEF Summable
<1>2. \A x \in S : f[x] <= g[x] /\ g[x] <= f[x]
  BY DEF Summable
<1>3. /\ SumFunctionOnSet(f, S) <= SumFunctionOnSet(g, S)
      /\ SumFunctionOnSet(g, S) <= SumFunctionOnSet(f, S)
  BY <1>1, <1>2, SumAtMost
<1>4. SumFunctionOnSet(f, S) \in Int /\ SumFunctionOnSet(g, S) \in Int
  BY <1>1, SumType
<1> QED
  BY <1>3, <1>4

(* Two sets without a common element are summed one after the other.       *)
LEMMA SumUnion ==
  ASSUME NEW S, NEW U, NEW f, Summable(f, S \cup U), S \cap U = {}
  PROVE  SumFunctionOnSet(f, S \cup U) = SumFunctionOnSet(f, S) + SumFunctionOnSet(f, U)
<1> DEFINE Adds(T) ==
             SumFunctionOnSet(f, T \cup U) = SumFunctionOnSet(f, T) + SumFunctionOnSet(f, U)
           P == {T \in SUBSET S : Adds(T)}
<1>1. \A T \in SUBSET S : Summable(f, T) /\ Summable(f, T \cup U)
  <2> SUFFICES ASSUME NEW T \in SUBSET S PROVE Summable(f, T) /\ Summable(f, T \cup U)
    OBVIOUS
  <2>1. T \in SUBSET (S \cup U) /\ T \cup U \in SUBSET (S \cup U)
    OBVIOUS
  <2> QED
    BY <2>1, SummablePart
<1>2. Summable(f, U) /\ Summable(f, S)
  BY SummablePart
<1>3. {} \in P
  <2>1. SumFunctionOnSet(f, {}) = 0 /\ SumFunctionOnSet(f, U) \in Int /\ {} \cup U = U
    BY <1>2, SumEmpty, SumType
  <2> QED
    BY <2>1
<1>4. ASSUME NEW T \in SUBSET S, NEW x \in S, T \in P, x \notin T
      PROVE  T \cup {x} \in P
  <2>1. T \cup {x} \in SUBSET S /\ (T \cup {x}) \cup U = (T \cup U) \cup {x} /\ x \notin T \cup U
    BY <1>4
  <2>2. SumFunctionOnSet(f, (T \cup U) \cup {x}) = f[x] + SumFunctionOnSet(f, T \cup U)
    BY <1>1, <2>1, SumAdd
  <2>3. SumFunctionOnSet(f, T \cup {x}) = f[x] + SumFunctionOnSet(f, T)
    BY <1>1, <1>4, <2>1, SumAdd
  <2>4. /\ SumFunctionOnSet(f, T) \in Int /\ SumFunctionOnSet(f, U) \in Int
        /\ f[x] \in Int
    BY <1>1, <1>2, SumType DEF Summable
  <2>5. SumFunctionOnSet(f, T \cup U) = SumFunctionOnSet(f, T) + SumFunctionOnSet(f, U)
    BY <1>4
  <2>6. Adds(T \cup {x})
    <3>1. SumFunctionOnSet(f, (T \cup {x}) \cup U) = SumFunctionOnSet(f, (T \cup U) \cup {x})
      BY <2>1
    <3> QED
      BY <2>2, <2>3, <2>4, <2>5, <3>1
  <2> QED
    BY <2>1, <2>6
<1>5. S \in P
  <2>1. \A T \in SUBSET S, x \in S : T \in P /\ x \notin T => T \cup {x} \in P
    BY <1>4
  <2>2. IsFiniteSet(S) /\ S \in SUBSET S
    BY <1>2 DEF Summable
  <2> HIDE DEF P
  <2> QED
    BY <1>3, <2>1, <2>2, SetInduction
<1> QED
  BY <1>5

LEMMA SumOfZeros ==
  ASSUME NEW S, NEW f, IsFiniteSet(S), \A x \in S : f[x] = 0
  PROVE  SumFunctionOnSet(f, S) = 0
<1> DEFINE P == {T \in SUBSET S : SumFunctionOnSet(f, T) = 0}
<1>1. {} \in P
  BY SumEmpty
<1>2. ASSUME NEW T \in SUBSET S, NEW x \in S, T \in P, x \notin T
      PROVE  T \cup {x} \in P
  <2>1. Summable(f, S)
    BY DEF Summable
  <2>2. Summable(f, T \cup {x})
    BY <2>1, SummablePart
  <2>3. SumFunctionOnSet(f, T \cup {x}) = f[x] + SumFunctionOnSet(f, T)
    BY <1>2, <2>2, SumAdd
  <2> QED
    BY <1>2, <2>3
<1>3. S \in P
  <2>1. \A T \in SUBSET S, x \in S : T \in P /\ x \notin T => T \cup {x} \in P
    BY <1>2
  <2> HIDE DEF P
  <2> QED
    BY <1>1, <2>1, SetInduction
<1> QED
  BY <1>3

(* Terms that are not negative: a part of the sum is at most the sum.      *)
LEMMA SumOfPart ==
  ASSUME NEW S, NEW f, IsFiniteSet(S), \A x \in S : f[x] \in Nat, NEW T \in SUBSET S
  PROVE  /\ SumFunctionOnSet(f, T) \in Nat
         /\ SumFunctionOnSet(f, T) <= SumFunctionOnSet(f, S)
<1> DEFINE zero == [x \in S |-> 0]
<1>1. Summable(f, S) /\ \A U \in SUBSET S : IsFiniteSet(U)
  BY FS_Subset DEF Summable
<1>2. ASSUME NEW U \in SUBSET S PROVE SumFunctionOnSet(f, U) \in Nat
  <2>1. Summable(f, U) /\ IsFiniteSet(U)
    BY <1>1, SummablePart
  <2>2. Summable(zero, U) /\ \A x \in U : zero[x] = 0 /\ zero[x] <= f[x]
    BY <2>1 DEF Summable
  <2> HIDE DEF zero
  <2>3. SumFunctionOnSet(zero, U) = 0
    BY <2>1, <2>2, SumOfZeros
  <2>4. SumFunctionOnSet(zero, U) <= SumFunctionOnSet(f, U)
    BY <2>1, <2>2, SumAtMost
  <2>5. SumFunctionOnSet(f, U) \in Int
    BY <2>1, SumType
  <2> QED
    BY <2>3, <2>4, <2>5
<1>3. SumFunctionOnSet(f, S) = SumFunctionOnSet(f, T) + SumFunctionOnSet(f, S \ T)
  <2>1. T \cup (S \ T) = S /\ T \cap (S \ T) = {}
    OBVIOUS
  <2> QED
    BY <1>1, <2>1, SumUnion
<1> QED
  BY <1>2, <1>3

IsConstant(f, S, e) == \A x \in S : f[x] = e

LEMMA SumOfConstant ==
  ASSUME NEW S, NEW f, NEW e \in Int, IsFiniteSet(S), IsConstant(f, S, e)
  PROVE  SumFunctionOnSet(f, S) = Cardinality(S) * e
<1> USE DEF IsConstant
<1> DEFINE P == {T \in SUBSET S : SumFunctionOnSet(f, T) = Cardinality(T) * e}
<1>1. {} \in P
  <2>1. Cardinality({}) = 0 /\ 0 * e = 0
    BY FS_EmptySet
  <2> QED
    BY <2>1, SumEmpty
<1>2. ASSUME NEW T \in SUBSET S, NEW x \in S, T \in P, x \notin T
      PROVE  T \cup {x} \in P
  <2>1. Summable(f, S)
    BY DEF Summable
  <2>2. Summable(f, T \cup {x})
    BY <2>1, SummablePart
  <2>3. SumFunctionOnSet(f, T \cup {x}) = e + SumFunctionOnSet(f, T)
    BY <1>2, <2>2, SumAdd
  <2>4. Cardinality(T) \in Nat /\ Cardinality(T \cup {x}) = Cardinality(T) + 1
    BY <1>2, FS_Subset, FS_CardinalityType, FS_AddElement
  <2>5. (Cardinality(T) + 1) * e = e + Cardinality(T) * e
    BY <2>4, Z3
  <2>6. SumFunctionOnSet(f, T \cup {x}) = Cardinality(T \cup {x}) * e
    BY <1>2, <2>3, <2>4, <2>5
  <2> QED
    BY <2>6
<1>3. S \in P
  <2>1. \A T \in SUBSET S, x \in S : T \in P /\ x \notin T => T \cup {x} \in P
    BY <1>2
  <2> HIDE DEF P
  <2> QED
    BY <1>1, <2>1, SetInduction
<1> QED
  BY <1>3

(* A sum of n numbers, each at most `max`.                                 *)
LEMMA SumInBounds ==
  ASSUME NEW n \in Nat, NEW max \in Nat, NEW f, \A i \in 1 .. n : f[i] \in 0 .. max
  PROVE  /\ SumFunctionOnSet(f, 1 .. n) \in Nat
         /\ SumFunctionOnSet(f, 1 .. n) <= n * max
<1> DEFINE most == [i \in 1 .. n |-> max]
<1>1. IsFiniteSet(1 .. n) /\ Cardinality(1 .. n) = n
  BY FS_Interval
<1>2. \A i \in 1 .. n : f[i] \in Nat /\ f[i] <= most[i] /\ most[i] = max
  OBVIOUS
<1> HIDE DEF most
<1>3. SumFunctionOnSet(f, 1 .. n) \in Nat
  <2>1. 1 .. n \in SUBSET (1 .. n)
    OBVIOUS
  <2> QED
    BY <1>1, <1>2, <2>1, SumOfPart
<1>4. SumFunctionOnSet(most, 1 .. n) = n * max
  <2>1. IsConstant(most, 1 .. n, max) /\ max \in Int
    BY <1>2 DEF IsConstant
  <2> QED
    BY <1>1, <2>1, SumOfConstant
<1>5. SumFunctionOnSet(f, 1 .. n) <= SumFunctionOnSet(most, 1 .. n)
  <2>1. Summable(f, 1 .. n) /\ Summable(most, 1 .. n)
    BY <1>1, <1>2 DEF Summable
  <2> QED
    BY <1>2, <2>1, SumAtMost
<1> QED
  BY <1>3, <1>4, <1>5

(* The ends of an interval.                                                *)
LEMMA SumLast ==
  ASSUME NEW a \in Int, NEW b \in Int, a <= b, NEW f, \A i \in a .. b : f[i] \in Int
  PROVE  SumFunctionOnSet(f, a .. b) = f[b] + SumFunctionOnSet(f, a .. b - 1)
<1>1. b \in a .. b /\ (a .. b) \ {b} = a .. b - 1
  OBVIOUS
<1>2. Summable(f, a .. b)
  BY FS_Interval DEF Summable
<1> QED
  BY <1>1, <1>2, SumRemove

LEMMA SumFirst ==
  ASSUME NEW a \in Int, NEW b \in Int, a <= b, NEW f, \A i \in a .. b : f[i] \in Int
  PROVE  SumFunctionOnSet(f, a .. b) = f[a] + SumFunctionOnSet(f, a + 1 .. b)
<1>1. a \in a .. b /\ (a .. b) \ {a} = a + 1 .. b
  OBVIOUS
<1>2. Summable(f, a .. b)
  BY FS_Interval DEF Summable
<1> QED
  BY <1>1, <1>2, SumRemove

(* The same numbers at other places.                                       *)
ShiftedBy(f, g, k, a, b) == \A i \in a .. b : f[i] \in Int /\ f[i] = g[i + k]

LEMMA SumShifted ==
  ASSUME NEW a \in Int, NEW b \in Int, NEW k \in Int, NEW f, NEW g,
         ShiftedBy(f, g, k, a, b)
  PROVE  SumFunctionOnSet(f, a .. b) = SumFunctionOnSet(g, a + k .. b + k)
<1> USE DEF ShiftedBy
<1>1. CASE b < a
  <2>1. a .. b = {} /\ a + k .. b + k = {}
    BY <1>1
  <2> QED
    BY <2>1, SumEmpty
<1>2. CASE a <= b
  <2> DEFINE n == b - a + 1
             Same(m) == SumFunctionOnSet(f, a .. a + m - 1)
                          = SumFunctionOnSet(g, a + k .. a + k + m - 1)
             K == {m \in 0 .. n : Same(m)}
  <2>0. n \in Nat /\ a + n - 1 = b /\ a + k + n - 1 = b + k
    BY <1>2
  <2>1. 0 \in K
    <3>1. a .. a + 0 - 1 = {} /\ a + k .. a + k + 0 - 1 = {}
      OBVIOUS
    <3>2. Same(0)
      BY <3>1, SumEmpty
    <3> HIDE DEF Same
    <3> QED
      BY <2>0, <3>2
  <2>2. ASSUME NEW m \in 0 .. n - 1, m \in K
        PROVE  m + 1 \in K
    <3> DEFINE u == a + m
               v == a + k + m
    <3>1. /\ m + 1 \in 0 .. n /\ u \in a .. b /\ v = u + k
          /\ \A i \in a .. u : i \in a .. b
          /\ \A j \in a + k .. v : j - k \in a .. b /\ j = (j - k) + k
      BY <2>0
    <3>2. \A i \in a .. u : f[i] \in Int
      BY <3>1
    <3>3. \A j \in a + k .. v : g[j] \in Int
      BY <3>1
    <3>4. u \in Int /\ v \in Int /\ a <= u /\ a + k <= v /\ a + k \in Int
      BY <2>0
    <3>7. a + (m + 1) - 1 = u /\ a + k + (m + 1) - 1 = v
      BY <2>0
    <3>8. a + m - 1 = u - 1 /\ a + k + m - 1 = v - 1
      OBVIOUS
    <3>9. f[u] = g[v]
      BY <3>1
    <3>10. SumFunctionOnSet(f, a .. u - 1) = SumFunctionOnSet(g, a + k .. v - 1)
      BY <2>2, <3>8
    <3> HIDE DEF u, v
    <3>5. SumFunctionOnSet(f, a .. u) = f[u] + SumFunctionOnSet(f, a .. u - 1)
      BY <3>2, <3>4, SumLast
    <3>6. SumFunctionOnSet(g, a + k .. v) = g[v] + SumFunctionOnSet(g, a + k .. v - 1)
      BY <3>3, <3>4, SumLast
    <3>11. SumFunctionOnSet(f, a .. u) = SumFunctionOnSet(g, a + k .. v)
      BY <3>5, <3>6, <3>9, <3>10
    <3>12. Same(m + 1)
      BY <3>7, <3>11
    <3> HIDE DEF Same
    <3> QED
      BY <3>1, <3>12
  <2>3. n \in K
    <3>1. \A m \in 0 .. n - 1 : m \in K => m + 1 \in K
      BY <2>2
    <3>2. n \in 0 .. n
      BY <2>0
    <3> HIDE DEF K, n
    <3> QED
      BY <2>0, <2>1, <3>1, <3>2, CountUp
  <2>4. Same(n)
    BY <2>3
  <2> HIDE DEF n
  <2> QED
    BY <2>0, <2>4
<1> QED
  BY <1>1, <1>2

(***************************************************************************)
(* Order.  A finite set of numbers has a least one, and in a list by rank  *)
(* every rank is taken.                                                    *)
(***************************************************************************)
LEMMA LeastExists ==
  ASSUME NEW S \in SUBSET Int, IsFiniteSet(S), S # {}
  PROVE  \E x \in S : \A y \in S : x <= y
<1> DEFINE P == {T \in SUBSET S : T # {} => \E x \in T : \A y \in T : x <= y}
<1>1. {} \in P
  OBVIOUS
<1>2. ASSUME NEW T \in SUBSET S, NEW z \in S, T \in P, z \notin T
      PROVE  T \cup {z} \in P
  <2>1. CASE T = {}
    BY <2>1
  <2>2. CASE T # {}
    <3>1. PICK x \in T : \A y \in T : x <= y
      BY <1>2, <2>2
    <3>2. x \in Int /\ z \in Int /\ \A y \in T : y \in Int
      OBVIOUS
    <3>3. CASE x <= z
      BY <3>1, <3>3
    <3>4. CASE z < x
      BY <3>1, <3>2, <3>4
    <3> QED
      BY <3>2, <3>3, <3>4
  <2> QED
    BY <2>1, <2>2
<1>3. \A T \in SUBSET S, z \in S : T \in P /\ z \notin T => T \cup {z} \in P
  BY <1>2
<1>4. S \in P
  <2> HIDE DEF P
  <2> QED
    BY <1>1, <1>3, SetInduction
<1> QED
  BY <1>4

LEMMA MinIsLeast ==
  ASSUME NEW S \in SUBSET Int, IsFiniteSet(S), S # {}
  PROVE  Min(S) \in S /\ \A y \in S : Min(S) <= y
BY LeastExists DEF Min

LEMMA LargestOf ==
  ASSUME NEW most \in Nat, NEW S \in SUBSET (1 .. most), S # {}
  PROVE  \E x \in S : \A y \in S : y <= x
<1> DEFINE f == [x \in S |-> most - x]
           T == {f[x] : x \in S}
<1>1. IsFiniteSet(S)
  <2>1. IsFiniteSet(1 .. most)
    BY FS_Interval
  <2> QED
    BY <2>1, FS_Subset
<1>2. IsFiniteSet(T)
  <2> HIDE DEF f
  <2> QED
    BY <1>1, FiniteImage
<1>3. T \in SUBSET Int /\ T # {}
  <2>1. \A x \in S : f[x] \in Int
    OBVIOUS
  <2> HIDE DEF f
  <2> QED
    BY <2>1
<1>4. \E z \in T : \A y \in T : z <= y
  <2> HIDE DEF T
  <2> QED
    BY <1>2, <1>3, LeastExists
<1>5. PICK x \in S : \A y \in S : most - x <= most - y
  BY <1>4
<1> QED
  BY <1>5

(* Two numbers have a largest common divisor up to any bound.              *)
LEMMA CommonDivisor ==
  ASSUME NEW a \in Nat, NEW b \in Nat, NEW most \in Nat \ {0}
  PROVE  \E n \in 1 .. most :
           /\ a % n = 0 /\ b % n = 0
           /\ \A m \in n + 1 .. most : ~ (a % m = 0 /\ b % m = 0)
<1> DEFINE Divides(n) == a % n = 0 /\ b % n = 0
           S == {n \in 1 .. most : Divides(n)}
<1>1. 1 \in S
  <2>1. a % 1 = 0 /\ b % 1 = 0
    BY Z3
  <2> QED
    BY <2>1
<1>2. PICK n \in S : \A m \in S : m <= n
  <2>1. S \in SUBSET (1 .. most) /\ S # {}
    BY <1>1
  <2> HIDE DEF S
  <2> QED
    BY <2>1, LargestOf
<1>3. \A m \in n + 1 .. most : ~ Divides(m)
  <2> HIDE DEF Divides
  <2> QED
    BY <1>2
<1> QED
  BY <1>2, <1>3

LEMMA QuotientCarries ==
  ASSUME NEW count \in Nat, NEW n \in Nat \ {0}, count % n = 0
  PROVE  (count \div n) * n = count
<1>1. count = n * (count \div n) + (count % n)
  BY Z3
<1>2. count \div n \in Int
  BY Z3
<1>3. n * (count \div n) = (count \div n) * n /\ n * (count \div n) \in Int
  BY <1>2, Z3
<1> QED
  BY <1>1, <1>3

Orders(v, S) ==
  /\ IsFiniteSet(S)
  /\ \A x \in S : v[x] \in Int
  /\ \A x, y \in S : v[x] = v[y] => x = y

Rank(v, S, x) == Cardinality({y \in S : v[y] > v[x]})

LEMMA RankTaken ==
  ASSUME NEW S, NEW v, Orders(v, S), NEW k \in 0 .. Cardinality(S) - 1
  PROVE  \E x \in S : Rank(v, S, x) = k
<1> DEFINE Over(x) == {y \in S : v[y] > v[x]}
           n == Cardinality(S)
           rank == [x \in S |-> Cardinality(Over(x))]
<1> USE DEF Orders, Rank
<1>1. n \in Nat
  BY FS_CardinalityType
<1>2. ASSUME NEW x \in S
      PROVE  /\ Over(x) \in SUBSET S /\ IsFiniteSet(Over(x))
             /\ Cardinality(Over(x)) \in 0 .. n - 1
  <2>1. Over(x) \in SUBSET S /\ x \notin Over(x)
    OBVIOUS
  <2> HIDE DEF Over
  <2>2. /\ IsFiniteSet(Over(x)) /\ Cardinality(Over(x)) <= n
        /\ Cardinality(Over(x)) # n
    BY <2>1, FS_Subset
  <2>3. Cardinality(Over(x)) \in Nat
    BY <2>2, FS_CardinalityType
  <2> HIDE DEF n
  <2> QED
    BY <1>1, <2>1, <2>2, <2>3
<1>3. ASSUME NEW x \in S, NEW y \in S, v[x] < v[y]
      PROVE  Cardinality(Over(x)) # Cardinality(Over(y))
  <2>1. Over(y) \in SUBSET Over(x)
    BY <1>3
  <2>2. y \in Over(x) /\ y \notin Over(y)
    BY <1>3
  <2> HIDE DEF Over
  <2> QED
    BY <1>2, <2>1, <2>2, FS_Subset
<1>4. \A x, y \in S : rank[x] = rank[y] => x = y
  <2> SUFFICES ASSUME NEW x \in S, NEW y \in S, Cardinality(Over(x)) = Cardinality(Over(y))
               PROVE  x = y
    OBVIOUS
  <2>1. ~ (v[x] < v[y]) /\ ~ (v[y] < v[x])
    <3> HIDE DEF Over
    <3> QED
      BY <1>3
  <2> QED
    BY <2>1
<1>5. rank \in Injection(S, 0 .. n - 1)
  <2>1. rank \in [S -> 0 .. n - 1]
    <3> HIDE DEF Over, n
    <3> QED
      BY <1>2
  <2> HIDE DEF rank, n
  <2> QED
    BY <1>4, <2>1 DEF Injection, IsInjective
<1>6. rank \in Surjection(S, 0 .. n - 1)
  <2>1. IsFiniteSet(0 .. n - 1) /\ Cardinality(0 .. n - 1) = n
    <3> HIDE DEF n
    <3> QED
      BY <1>1, FS_Interval
  <2> HIDE DEF rank
  <2> QED
    BY <1>5, <2>1, FS_Injection
<1>7. PICK x \in S : rank[x] = k
  <2> HIDE DEF rank, n
  <2>1. k \in 0 .. n - 1
    BY DEF n
  <2> QED
    BY <1>6, <2>1 DEF Surjection
<1> QED
  BY <1>7

=============================================================================
