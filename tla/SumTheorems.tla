------------------------------ MODULE SumTheorems ------------------------------
(***************************************************************************)
(* What SumFunctionOnSet of the community module Functions computes: the   *)
(* code's money totals are SQL sums over rows, and every proof about money *)
(* rests on these facts. Functions defines the sum by a recursive function *)
(* on sets. That this function exists, and that it does not matter which   *)
(* element it takes first, is shown by induction on the cardinality, in    *)
(* the form of NatSetInduction: an induction over a set of numbers needs   *)
(* no operator for a parameter.                                            *)
(***************************************************************************)
EXTENDS Functions, FiniteSetTheorems, TLAPS

-------------------------------------------------------------------------------
(* Induction.                                                              *)

\* A set of natural numbers that is not empty has a least element.
LEMMA LeastNumber ==
    ASSUME NEW T \in SUBSET Nat, T # {}
    PROVE  \E n \in T : \A m \in T : n <= m
<1> DEFINE Less == OpToRel(<, Nat)
<1>1. PICK n \in T : \A m \in T : ~(<<m, n>> \in Less)
  <2>1. IsWellFoundedOn(Less, Nat)
    BY NatLessThanWellFounded
  <2> HIDE DEF Less
  <2>2. QED
    BY <2>1, WFMin
<1>2. ASSUME NEW m \in T PROVE n <= m
  <2>1. <<m, n>> \in Nat \X Nat
    OBVIOUS
  <2>2. ~(m < n)
    BY <1>1, <2>1 DEF OpToRel
  <2>3. QED
    BY <2>2
<1>3. QED
  BY <1>2

\* A set that has 0 and the successor of each of its numbers has them all.
LEMMA NatSetInduction ==
    ASSUME NEW T, 0 \in T, \A n \in Nat : n \in T => n + 1 \in T
    PROVE  \A n \in Nat : n \in T
<1> SUFFICES ASSUME Nat \ T # {} PROVE FALSE
  OBVIOUS
<1>1. PICK n \in Nat \ T : \A m \in Nat \ T : n <= m
  <2>1. Nat \ T \in SUBSET Nat
    OBVIOUS
  <2>2. QED
    BY <2>1, LeastNumber
<1>2. n # 0 /\ n - 1 \in Nat /\ n - 1 \in T
  BY <1>1
<1>3. n \in T
  BY <1>2
<1>4. QED
  BY <1>3

\* A family that has the empty set, and each subset of S whose smaller ones (by
\* one element) it has, has every subset of S.
LEMMA FiniteSetInduction ==
    ASSUME NEW S, IsFiniteSet(S), NEW F, {} \in F,
           \A s \in SUBSET S : s # {} /\ (\A x \in s : s \ {x} \in F) => s \in F
    PROVE  \A s \in SUBSET S : s \in F
<1> DEFINE Upto == {n \in Nat : \A s \in SUBSET S : Cardinality(s) = n => s \in F}
<1>1. \A s \in SUBSET S : IsFiniteSet(s) /\ Cardinality(s) \in Nat
  BY FS_Subset, FS_CardinalityType
<1>2. 0 \in Upto
  BY <1>1, FS_EmptySet
<1>3. ASSUME NEW n \in Nat, n \in Upto PROVE n + 1 \in Upto
  <2>1. ASSUME NEW s \in SUBSET S, Cardinality(s) = n + 1 PROVE s \in F
    <3>1. s # {}
      <4>1. Cardinality({}) = 0 /\ n + 1 # 0
        BY FS_EmptySet
      <4>2. QED
        BY <2>1, <4>1
    <3>2. ASSUME NEW x \in s PROVE s \ {x} \in F
      <4>1. Cardinality(s \ {x}) = n
        BY <1>1, <2>1, FS_RemoveElement
      <4>2. QED
        BY <1>3, <4>1
    <3>3. QED
      BY <3>1, <3>2
  <2>2. QED
    BY <2>1
<1>4. \A n \in Nat : n \in Upto
  <2> HIDE DEF Upto
  <2>1. QED
    BY <1>2, <1>3, NatSetInduction
<1>5. QED
  BY <1>1, <1>4

\* What holds of 0, and of a number up to N if of the one before, holds up to N.
LEMMA BoundedInduction ==
    ASSUME NEW N \in Nat, NEW T, 0 \in T, \A n \in 1..N : n - 1 \in T => n \in T
    PROVE  0..N \subseteq T
<1> DEFINE U == {n \in Nat : n <= N => n \in T}
<1>1. 0 \in U
  OBVIOUS
<1>2. \A n \in Nat : n \in U => n + 1 \in U
  <2> SUFFICES ASSUME NEW n \in Nat, n \in U, n + 1 <= N PROVE n + 1 \in T
    OBVIOUS
  <2>1. n \in T /\ n + 1 \in 1..N /\ (n + 1) - 1 = n
    OBVIOUS
  <2>2. QED
    BY <2>1
<1> HIDE DEF U
<1>3. \A n \in Nat : n \in U
  BY <1>1, <1>2, NatSetInduction
<1>4. QED
  BY <1>3 DEF U

\* The runs from first of the steps 1 to N.
StepsIn(N, V) == [1..N -> [V -> V]]
RunsOf(N, V, first, step) ==
    {f \in [0..N -> V] : f[0] = first /\ \A n \in 1..N : f[n] = step[n][f[n - 1]]}

\* A recursion along 1..N has a solution.
LEMMA RecursionSolvable ==
    ASSUME NEW N \in Nat, NEW V, NEW first \in V, NEW step \in StepsIn(N, V)
    PROVE  RunsOf(N, V, first, step) # {}
<1> USE DEF StepsIn
<1> DEFINE Good(f, m) == f[0] = first /\ \A n \in 1..N : n <= m => f[n] = step[n][f[n - 1]]
           Solved == {m \in 0..N : \E f \in [0..N -> V] : Good(f, m)}
<1>1. 0 \in Solved
  <2> DEFINE f == [n \in 0..N |-> first]
  <2>1. f \in [0..N -> V] /\ Good(f, 0)
    OBVIOUS
  <2>2. QED
    BY <2>1
<1>2. ASSUME NEW m \in 1..N, m - 1 \in Solved PROVE m \in Solved
  <2>1. PICK f \in [0..N -> V] : Good(f, m - 1)
    BY <1>2
  <2> DEFINE new == step[m][f[m - 1]]
             g == [f EXCEPT ![m] = new]
  <2>2. new \in V
    <3>1. step[m] \in [V -> V] /\ f[m - 1] \in V
      OBVIOUS
    <3>2. QED
      BY <3>1
  <2> HIDE DEF new
  <2>3. g \in [0..N -> V] /\ g[0] = first
    BY <2>1, <2>2
  <2>4. ASSUME NEW n \in 1..N, n <= m PROVE g[n] = step[n][g[n - 1]]
    <3>1. g[n - 1] = f[n - 1]
      BY <2>4
    <3>2. CASE n = m
      BY <3>1, <3>2 DEF new
    <3>3. CASE n # m
      BY <2>1, <2>4, <3>1, <3>3
    <3>4. QED
      BY <3>2, <3>3
  <2> HIDE DEF g
  <2>5. Good(g, m)
    BY <2>3, <2>4
  <2>6. QED
    BY <2>3, <2>5
<1> HIDE DEF Solved
<1>3. N \in Solved
  <2>1. 0..N \subseteq Solved
    BY <1>1, <1>2, BoundedInduction
  <2>2. QED
    BY <2>1
<1>4. QED
  BY <1>3 DEF Solved, RunsOf

-------------------------------------------------------------------------------
(* The recursion.                                                          *)

Pick(s) == CHOOSE x \in s : TRUE
SumStep(f, g, s) == IF s = {} THEN 0 ELSE f[Pick(s)] + g[s \ {Pick(s)}]
Sums(f, S) == CHOOSE g : g = [s \in SUBSET S |-> SumStep(f, g, s)]

\* The library's sum is the recursive function of this module.
LEMMA SumByRecursion == ASSUME NEW f, NEW S PROVE SumFunctionOnSet(f, S) = Sums(f, S)[S]
BY DEF SumFunctionOnSet, FoldFunctionOnSet, MapThenFoldSet, Sums, SumStep, Pick

\* The element taken first is an element, and the rest is smaller.
LEMMA PickSmaller ==
    ASSUME NEW s, s # {}, IsFiniteSet(s)
    PROVE  /\ Pick(s) \in s
           /\ IsFiniteSet(s \ {Pick(s)})
           /\ Cardinality(s) \in Nat
           /\ Cardinality(s \ {Pick(s)}) = Cardinality(s) - 1
<1>1. Pick(s) \in s
  BY DEF Pick
<1>2. QED
  BY <1>1, FS_RemoveElement, FS_CardinalityType

\* The recursive definition has a solution.
LEMMA SumsSolvable ==
    ASSUME NEW f, NEW S, IsFiniteSet(S)
    PROVE  \E g : g = [s \in SUBSET S |-> SumStep(f, g, s)]
<1> DEFINE Good(g, n) == \A s \in SUBSET S : Cardinality(s) <= n => g[s] = SumStep(f, g, s)
           Solved == {n \in Nat : \E g : Good(g, n)}
<1>1. \A s \in SUBSET S : IsFiniteSet(s) /\ Cardinality(s) \in Nat
  BY FS_Subset, FS_CardinalityType
<1>2. 0 \in Solved
  <2> DEFINE g == [s \in SUBSET S |-> 0]
  <2>1. Good(g, 0)
    BY <1>1, FS_EmptySet DEF SumStep
  <2>2. QED
    BY <2>1
<1>3. ASSUME NEW n \in Nat, n \in Solved PROVE n + 1 \in Solved
  <2>1. PICK g : Good(g, n)
    BY <1>3
  <2> DEFINE h == [s \in SUBSET S |-> SumStep(f, g, s)]
  <2>2. ASSUME NEW s \in SUBSET S, Cardinality(s) <= n + 1 PROVE h[s] = SumStep(f, h, s)
    <3>1. CASE s = {}
      BY <3>1 DEF SumStep
    <3>2. CASE s # {}
      <4> DEFINE r == s \ {Pick(s)}
      <4>1. r \in SUBSET S /\ Cardinality(r) <= n
        BY <1>1, <2>2, <3>2, PickSmaller
      <4>2. h[r] = g[r]
        BY <2>1, <4>1
      <4>3. h[s] = f[Pick(s)] + g[r]
        BY <3>2 DEF SumStep
      <4>4. QED
        BY <3>2, <4>2, <4>3 DEF SumStep
    <3>3. QED
      BY <3>1, <3>2
  <2>3. Good(h, n + 1)
    BY <2>2
  <2> HIDE DEF h
  <2>4. QED
    BY <2>3
<1>4. \A n \in Nat : n \in Solved
  <2> HIDE DEF Solved
  <2>1. QED
    BY <1>2, <1>3, NatSetInduction
<1>5. PICK g : Good(g, Cardinality(S))
  BY <1>1, <1>4
<1> DEFINE h == [s \in SUBSET S |-> g[s]]
<1>6. h = [s \in SUBSET S |-> SumStep(f, h, s)]
  <2>1. ASSUME NEW s \in SUBSET S PROVE h[s] = SumStep(f, h, s)
    <3>1. Cardinality(s) <= Cardinality(S)
      BY FS_Subset
    <3>2. g[s] = SumStep(f, g, s)
      BY <1>5, <3>1
    <3>3. QED
      BY <3>2 DEF SumStep
  <2>2. QED
    BY <2>1
<1> HIDE DEF h
<1>7. QED
  BY <1>6

\* What that function computes at a finite set: one step of the recursion.
LEMMA SumsAt ==
    ASSUME NEW f, NEW S, IsFiniteSet(S), NEW s \in SUBSET S
    PROVE  Sums(f, S)[s] = SumStep(f, Sums(f, S), s)
<1>1. PICK g : g = Sums(f, S)
  OBVIOUS
<1>2. g = [t \in SUBSET S |-> SumStep(f, g, t)]
  BY <1>1, SumsSolvable DEF Sums
<1>3. g[s] = SumStep(f, g, s)
  BY <1>2
<1>4. QED
  BY <1>1, <1>3

\* Two solutions agree on the sets both are defined on.
LEMMA SumsAgree ==
    ASSUME NEW f, NEW S, IsFiniteSet(S), NEW T, IsFiniteSet(T)
    PROVE  \A s \in SUBSET (S \cap T) : Sums(f, S)[s] = Sums(f, T)[s]
<1> DEFINE Same == {s \in SUBSET (S \cap T) : Sums(f, S)[s] = Sums(f, T)[s]}
<1>1. ASSUME NEW s \in SUBSET (S \cap T)
      PROVE  /\ Sums(f, S)[s] = SumStep(f, Sums(f, S), s)
             /\ Sums(f, T)[s] = SumStep(f, Sums(f, T), s)
  <2>1. s \in SUBSET S /\ s \in SUBSET T
    OBVIOUS
  <2>2. QED
    BY <2>1, SumsAt
<1>2. {} \in Same
  BY <1>1 DEF SumStep
<1>3. ASSUME NEW s \in SUBSET (S \cap T), s # {}, \A x \in s : s \ {x} \in Same
      PROVE  s \in Same
  <2>1. Pick(s) \in s
    BY <1>3 DEF Pick
  <2>2. Sums(f, S)[s \ {Pick(s)}] = Sums(f, T)[s \ {Pick(s)}]
    BY <1>3, <2>1
  <2>3. QED
    BY <1>1, <1>3, <2>2 DEF SumStep
<1>4. IsFiniteSet(S \cap T)
  BY FS_Subset
<1>5. QED
  <2> HIDE DEF Same
  <2>1. \A s \in SUBSET (S \cap T) : s \in Same
    BY <1>2, <1>3, <1>4, FiniteSetInduction
  <2>2. QED
    BY <2>1 DEF Same

-------------------------------------------------------------------------------
(* The laws of sums.                                                       *)

\* The sum over no element.
THEOREM SumEmpty == ASSUME NEW f PROVE SumFunctionOnSet(f, {}) = 0
BY SumByRecursion, SumsAt, FS_EmptySet DEF SumStep

\* The sum over a set that is not empty, one step unfolded.
LEMMA SumPick ==
    ASSUME NEW f, NEW S, IsFiniteSet(S), S # {}
    PROVE  SumFunctionOnSet(f, S) = f[Pick(S)] + SumFunctionOnSet(f, S \ {Pick(S)})
<1> DEFINE R == S \ {Pick(S)}
<1>1. IsFiniteSet(R)
  BY PickSmaller
<1>2. Sums(f, S)[S] = f[Pick(S)] + Sums(f, S)[R]
  BY SumsAt DEF SumStep
<1>3. Sums(f, S)[R] = Sums(f, R)[R]
  <2>1. R \in SUBSET (S \cap R)
    OBVIOUS
  <2>2. QED
    BY <1>1, <2>1, SumsAgree
<1>4. QED
  BY <1>2, <1>3, SumByRecursion

\* A sum of integers is an integer.
THEOREM SumInt ==
    ASSUME NEW S, IsFiniteSet(S), NEW f, \A x \in S : f[x] \in Int
    PROVE  SumFunctionOnSet(f, S) \in Int
<1> DEFINE F == {s \in SUBSET S : SumFunctionOnSet(f, s) \in Int}
<1>1. {} \in F
  BY SumEmpty
<1>2. ASSUME NEW s \in SUBSET S, s # {}, \A x \in s : s \ {x} \in F PROVE s \in F
  <2>1. Pick(s) \in s /\ IsFiniteSet(s)
    BY <1>2, FS_Subset DEF Pick
  <2>2. SumFunctionOnSet(f, s) = f[Pick(s)] + SumFunctionOnSet(f, s \ {Pick(s)})
    BY <1>2, <2>1, SumPick
  <2>3. f[Pick(s)] \in Int /\ SumFunctionOnSet(f, s \ {Pick(s)}) \in Int
    BY <1>2, <2>1
  <2>4. QED
    BY <2>2, <2>3
<1>3. \A s \in SUBSET S : s \in F
  <2> HIDE DEF F
  <2>1. QED
    BY <1>1, <1>2, FiniteSetInduction
<1>4. QED
  BY <1>3

\* It does not matter which element is taken off first.
THEOREM SumRemove ==
    ASSUME NEW S, IsFiniteSet(S), NEW f, \A x \in S : f[x] \in Int, NEW x \in S
    PROVE  SumFunctionOnSet(f, S) = f[x] + SumFunctionOnSet(f, S \ {x})
<1> DEFINE Any(s, y) == SumFunctionOnSet(f, s) = f[y] + SumFunctionOnSet(f, s \ {y})
           F == {s \in SUBSET S : \A y \in s : Any(s, y)}
<1>1. {} \in F
  OBVIOUS
<1>2. ASSUME NEW s \in SUBSET S, s # {}, \A y \in s : s \ {y} \in F, NEW y \in s
      PROVE  Any(s, y)
  <2> DEFINE c == Pick(s)
  <2>1. c \in s /\ IsFiniteSet(s)
    BY <1>2, FS_Subset DEF Pick
  <2>2. SumFunctionOnSet(f, s) = f[c] + SumFunctionOnSet(f, s \ {c})
    BY <1>2, <2>1, SumPick
  <2> HIDE DEF c
  <2>3. CASE c = y
    BY <2>2, <2>3
  <2>4. CASE c # y
    <3>1. s \ {c} \in F /\ s \ {y} \in F /\ y \in s \ {c} /\ c \in s \ {y}
      BY <1>2, <2>1, <2>4
    <3>2. /\ SumFunctionOnSet(f, s \ {c}) = f[y] + SumFunctionOnSet(f, (s \ {c}) \ {y})
          /\ SumFunctionOnSet(f, s \ {y}) = f[c] + SumFunctionOnSet(f, (s \ {y}) \ {c})
      BY <3>1
    <3>3. (s \ {c}) \ {y} = (s \ {y}) \ {c}
      OBVIOUS
    <3>4. /\ f[c] \in Int /\ f[y] \in Int
          /\ SumFunctionOnSet(f, (s \ {y}) \ {c}) \in Int
      <4>1. IsFiniteSet((s \ {y}) \ {c})
        BY <2>1, FS_Subset
      <4>2. QED
        BY <2>1, <4>1, SumInt
    <3>5. SumFunctionOnSet(f, s) = f[c] + (f[y] + SumFunctionOnSet(f, (s \ {y}) \ {c}))
      BY <2>2, <3>2, <3>3
    <3>6. @ = f[y] + (f[c] + SumFunctionOnSet(f, (s \ {y}) \ {c}))
      BY <3>4
    <3>7. QED
      BY <3>2, <3>5, <3>6
  <2>5. QED
    BY <2>3, <2>4
<1>3. \A s \in SUBSET S : s \in F
  <2>1. ASSUME NEW s \in SUBSET S, s # {}, \A y \in s : s \ {y} \in F PROVE s \in F
    BY <1>2, <2>1
  <2> HIDE DEF F
  <2>2. QED
    BY <1>1, <2>1, FiniteSetInduction
<1>4. QED
  BY <1>3

\* Only the values of the function on the set matter.
THEOREM SumEqual ==
    ASSUME NEW S, IsFiniteSet(S), NEW f, NEW g, \A x \in S : f[x] = g[x]
    PROVE  SumFunctionOnSet(f, S) = SumFunctionOnSet(g, S)
<1> DEFINE F == {s \in SUBSET S : SumFunctionOnSet(f, s) = SumFunctionOnSet(g, s)}
<1>1. {} \in F
  BY SumEmpty
<1>2. ASSUME NEW s \in SUBSET S, s # {}, \A x \in s : s \ {x} \in F PROVE s \in F
  <2>1. Pick(s) \in s /\ IsFiniteSet(s)
    BY <1>2, FS_Subset DEF Pick
  <2>2. /\ SumFunctionOnSet(f, s) = f[Pick(s)] + SumFunctionOnSet(f, s \ {Pick(s)})
        /\ SumFunctionOnSet(g, s) = g[Pick(s)] + SumFunctionOnSet(g, s \ {Pick(s)})
    BY <1>2, <2>1, SumPick
  <2>3. f[Pick(s)] = g[Pick(s)]
    BY <2>1
  <2>4. SumFunctionOnSet(f, s \ {Pick(s)}) = SumFunctionOnSet(g, s \ {Pick(s)})
    BY <1>2, <2>1
  <2>5. QED
    BY <2>2, <2>3, <2>4
<1>3. \A s \in SUBSET S : s \in F
  <2> HIDE DEF F
  <2>1. QED
    BY <1>1, <1>2, FiniteSetInduction
<1>4. QED
  BY <1>3

\* The sum is monotone in the function.
THEOREM SumMonotone ==
    ASSUME NEW S, IsFiniteSet(S), NEW f, NEW g,
           \A x \in S : f[x] \in Int /\ g[x] \in Int /\ f[x] <= g[x]
    PROVE  SumFunctionOnSet(f, S) <= SumFunctionOnSet(g, S)
<1> DEFINE F == {s \in SUBSET S : SumFunctionOnSet(f, s) <= SumFunctionOnSet(g, s)}
<1>1. {} \in F
  BY SumEmpty
<1>2. ASSUME NEW s \in SUBSET S, s # {}, \A x \in s : s \ {x} \in F PROVE s \in F
  <2>1. PICK x : x \in s
    BY <1>2
  <2>2. IsFiniteSet(s) /\ IsFiniteSet(s \ {x})
    BY FS_Subset
  <2>3. /\ SumFunctionOnSet(f, s) = f[x] + SumFunctionOnSet(f, s \ {x})
        /\ SumFunctionOnSet(g, s) = g[x] + SumFunctionOnSet(g, s \ {x})
    BY <2>1, <2>2, SumRemove
  <2>4. /\ SumFunctionOnSet(f, s \ {x}) \in Int
        /\ SumFunctionOnSet(g, s \ {x}) \in Int
    BY <2>2, SumInt
  <2>5. f[x] \in Int /\ g[x] \in Int /\ f[x] <= g[x]
    BY <2>1
  <2>6. SumFunctionOnSet(f, s \ {x}) <= SumFunctionOnSet(g, s \ {x})
    BY <1>2, <2>1
  <2>7. QED
    BY <2>3, <2>4, <2>5, <2>6
<1>3. \A s \in SUBSET S : s \in F
  <2> HIDE DEF F
  <2>1. QED
    BY <1>1, <1>2, FiniteSetInduction
<1>4. QED
  BY <1>3

\* Terms that are zero add nothing.
THEOREM SumZero ==
    ASSUME NEW S, IsFiniteSet(S), NEW f, \A x \in S : f[x] = 0
    PROVE  SumFunctionOnSet(f, S) = 0
<1> DEFINE F == {s \in SUBSET S : SumFunctionOnSet(f, s) = 0}
<1>1. {} \in F
  BY SumEmpty
<1>2. ASSUME NEW s \in SUBSET S, s # {}, \A x \in s : s \ {x} \in F PROVE s \in F
  <2>1. PICK x : x \in s
    BY <1>2
  <2>2. IsFiniteSet(s)
    BY FS_Subset
  <2>3. SumFunctionOnSet(f, s) = f[x] + SumFunctionOnSet(f, s \ {x})
    BY <2>1, <2>2, SumRemove
  <2>4. QED
    BY <1>2, <2>1, <2>3
<1>3. \A s \in SUBSET S : s \in F
  <2> HIDE DEF F
  <2>1. QED
    BY <1>1, <1>2, FiniteSetInduction
<1>4. QED
  BY <1>3

\* The sum over a set is the sum over a part of it and the sum over the rest.
THEOREM SumSplit ==
    ASSUME NEW S, IsFiniteSet(S), NEW T \in SUBSET S, NEW f, \A x \in S : f[x] \in Int
    PROVE  SumFunctionOnSet(f, S) = SumFunctionOnSet(f, T) + SumFunctionOnSet(f, S \ T)
<1> DEFINE F == {s \in SUBSET T : SumFunctionOnSet(f, S) =
                                  SumFunctionOnSet(f, s) + SumFunctionOnSet(f, S \ s)}
<1>1. {} \in F
  <2>1. S \ {} = S /\ SumFunctionOnSet(f, S) \in Int
    BY SumInt
  <2>2. QED
    BY <2>1, SumEmpty
<1>2. ASSUME NEW s \in SUBSET T, s # {}, \A x \in s : s \ {x} \in F PROVE s \in F
  <2>1. PICK x : x \in s
    BY <1>2
  <2> DEFINE r == s \ {x}
  <2>2. IsFiniteSet(s) /\ IsFiniteSet(r) /\ IsFiniteSet(S \ r) /\ IsFiniteSet(S \ s)
    BY FS_Subset
  <2>3. SumFunctionOnSet(f, s) = f[x] + SumFunctionOnSet(f, r)
    BY <2>1, <2>2, SumRemove
  <2>4. SumFunctionOnSet(f, S \ r) = f[x] + SumFunctionOnSet(f, S \ s)
    <3>1. x \in S \ r /\ (S \ r) \ {x} = S \ s /\ \A y \in S \ r : f[y] \in Int
      BY <2>1
    <3> HIDE DEF r
    <3>2. SumFunctionOnSet(f, S \ r) = f[x] + SumFunctionOnSet(f, (S \ r) \ {x})
      BY <2>2, <3>1, SumRemove
    <3>3. QED
      BY <3>1, <3>2
  <2>5. SumFunctionOnSet(f, S) = SumFunctionOnSet(f, r) + SumFunctionOnSet(f, S \ r)
    BY <1>2, <2>1
  <2>6. /\ f[x] \in Int
        /\ SumFunctionOnSet(f, r) \in Int
        /\ SumFunctionOnSet(f, S \ s) \in Int
    BY <2>1, <2>2, SumInt
  <2> HIDE DEF r
  <2>7. QED
    BY <2>3, <2>4, <2>5, <2>6
<1>3. IsFiniteSet(T)
  BY FS_Subset
<1>4. \A s \in SUBSET T : s \in F
  <2> HIDE DEF F
  <2>1. QED
    BY <1>1, <1>2, <1>3, FiniteSetInduction
<1>5. QED
  BY <1>4

\* A sum of natural numbers is one, and is no less than the sum over a subset.
THEOREM SumNat ==
    ASSUME NEW S, IsFiniteSet(S), NEW f, \A x \in S : f[x] \in Nat
    PROVE  /\ SumFunctionOnSet(f, S) \in Nat
           /\ \A T \in SUBSET S : SumFunctionOnSet(f, T) <= SumFunctionOnSet(f, S)
<1>1. ASSUME NEW T \in SUBSET S PROVE SumFunctionOnSet(f, T) \in Nat
  <2> DEFINE zero == [x \in T |-> 0]
  <2>1. IsFiniteSet(T) /\ SumFunctionOnSet(f, T) \in Int
    <3>1. IsFiniteSet(T) /\ \A x \in T : f[x] \in Int
      BY FS_Subset
    <3>2. QED
      BY <3>1, SumInt
  <2>2. SumFunctionOnSet(zero, T) = 0
    BY <2>1, SumZero
  <2>3. SumFunctionOnSet(zero, T) <= SumFunctionOnSet(f, T)
    <3>1. \A x \in T : zero[x] \in Int /\ f[x] \in Int /\ zero[x] <= f[x]
      OBVIOUS
    <3> HIDE DEF zero
    <3>2. QED
      BY <2>1, <3>1, SumMonotone
  <2>4. QED
    BY <2>1, <2>2, <2>3
<1>2. ASSUME NEW T \in SUBSET S PROVE SumFunctionOnSet(f, T) <= SumFunctionOnSet(f, S)
  <2>1. SumFunctionOnSet(f, S) = SumFunctionOnSet(f, T) + SumFunctionOnSet(f, S \ T)
    BY SumSplit
  <2>2. SumFunctionOnSet(f, T) \in Nat /\ SumFunctionOnSet(f, S \ T) \in Nat
    BY <1>1
  <2>3. QED
    BY <2>1, <2>2
<1>3. QED
  BY <1>1, <1>2

\* One term changes.
THEOREM SumUpdate ==
    ASSUME NEW S, IsFiniteSet(S), NEW f, NEW g, NEW x \in S,
           \A y \in S : f[y] \in Int /\ g[y] \in Int,
           \A y \in S \ {x} : f[y] = g[y]
    PROVE  SumFunctionOnSet(g, S) = (SumFunctionOnSet(f, S) - f[x]) + g[x]
<1>1. IsFiniteSet(S \ {x})
  BY FS_Subset
<1>2. /\ SumFunctionOnSet(f, S) = f[x] + SumFunctionOnSet(f, S \ {x})
      /\ SumFunctionOnSet(g, S) = g[x] + SumFunctionOnSet(g, S \ {x})
  BY SumRemove
<1>3. SumFunctionOnSet(f, S \ {x}) = SumFunctionOnSet(g, S \ {x})
  BY <1>1, SumEqual
<1>4. f[x] \in Int /\ g[x] \in Int /\ SumFunctionOnSet(f, S \ {x}) \in Int
  <2>1. \A y \in S \ {x} : f[y] \in Int
    OBVIOUS
  <2>2. QED
    BY <1>1, <2>1, SumInt
<1>5. QED
  BY <1>2, <1>3, <1>4

\* Summing group by group: the rows K, each in the group m[k].
THEOREM SumByGroup ==
    ASSUME NEW K, IsFiniteSet(K), NEW P, IsFiniteSet(P), NEW m, \A k \in K : m[k] \in P,
           NEW w, \A k \in K : w[k] \in Int,
           NEW g, \A p \in P : g[p] = SumFunctionOnSet(w, {k \in K : m[k] = p})
    PROVE  SumFunctionOnSet(g, P) = SumFunctionOnSet(w, K)
<1> DEFINE Rows(s) == {k \in K : m[k] \in s}
           F == {s \in SUBSET P : SumFunctionOnSet(g, s) = SumFunctionOnSet(w, Rows(s))}
<1>1. \A T \in SUBSET K : IsFiniteSet(T) /\ SumFunctionOnSet(w, T) \in Int
  <2>1. ASSUME NEW T \in SUBSET K PROVE IsFiniteSet(T) /\ SumFunctionOnSet(w, T) \in Int
    <3>1. IsFiniteSet(T) /\ \A k \in T : w[k] \in Int
      BY FS_Subset
    <3>2. QED
      BY <3>1, SumInt
  <2>2. QED
    BY <2>1
<1>2. {} \in F
  <2>1. Rows({}) = {}
    OBVIOUS
  <2>2. SumFunctionOnSet(g, {}) = SumFunctionOnSet(w, Rows({}))
    BY <2>1, SumEmpty
  <2>3. QED
    BY <2>2
<1>3. ASSUME NEW s \in SUBSET P, s # {}, \A x \in s : s \ {x} \in F PROVE s \in F
  <2>1. PICK x : x \in s
    BY <1>3
  <2> DEFINE r == s \ {x}
             X == {k \in K : m[k] = x}
  <2>2. IsFiniteSet(s) /\ \A p \in s : g[p] \in Int
    <3>1. \A p \in s : {k \in K : m[k] = p} \in SUBSET K
      OBVIOUS
    <3>2. QED
      BY <1>1, <3>1, FS_Subset
  <2>3. SumFunctionOnSet(g, s) = g[x] + SumFunctionOnSet(g, r)
    BY <2>1, <2>2, SumRemove
  <2>4. SumFunctionOnSet(w, Rows(s)) = SumFunctionOnSet(w, X) + SumFunctionOnSet(w, Rows(r))
    <3>1. X \in SUBSET Rows(s) /\ Rows(s) \ X = Rows(r) /\ Rows(s) \in SUBSET K
      BY <2>1
    <3> HIDE DEF r, X, Rows
    <3>2. IsFiniteSet(Rows(s)) /\ \A k \in Rows(s) : w[k] \in Int
      BY <1>1, <3>1
    <3>3. SumFunctionOnSet(w, Rows(s)) = SumFunctionOnSet(w, X) + SumFunctionOnSet(w, Rows(s) \ X)
      BY <3>1, <3>2, SumSplit
    <3>4. QED
      BY <3>1, <3>3
  <2>5. g[x] = SumFunctionOnSet(w, X)
    BY <2>1
  <2>6. SumFunctionOnSet(g, r) = SumFunctionOnSet(w, Rows(r))
    BY <1>3, <2>1
  <2> HIDE DEF r, X, Rows
  <2>7. SumFunctionOnSet(g, s) = SumFunctionOnSet(w, Rows(s))
    BY <2>3, <2>4, <2>5, <2>6
  <2>8. QED
    BY <2>7
<1>4. \A s \in SUBSET P : s \in F
  <2> HIDE DEF F
  <2>1. QED
    BY <1>2, <1>3, FiniteSetInduction
<1>5. Rows(P) = K
  OBVIOUS
<1>6. SumFunctionOnSet(g, P) = SumFunctionOnSet(w, Rows(P))
  BY <1>4
<1>7. QED
  BY <1>5, <1>6
===============================================================================
