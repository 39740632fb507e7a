------------------------------- MODULE FoldLemmas ------------------------------
(***************************************************************************)
(* Induction over the natural numbers, stated for a set, and with it what  *)
(* the proofs of the components need to know of sums, folds, products and  *)
(* numbers of subsets: the operators of the community modules take the     *)
(* elements of a finite set in an order that makes no difference.          *)
(***************************************************************************)
EXTENDS Integers, SequencesExt, FiniteSetTheorems, SequenceTheorems, WellFoundedInduction, TLAPS

-------------------------------------------------------------------------------
(* Induction *)

LEMMA LeastNumber ==
  ASSUME NEW T, T \subseteq Nat, T # {}
  PROVE  \E x \in T : \A y \in T : x <= y
  <1> DEFINE R == {ss \in Nat \X Nat : ss[1] < ss[2]}
  <1>1. IsWellFoundedOn(R, Nat)
    BY NatLessThanWellFounded DEF OpToRel
  <1>2. PICK x \in T : \A y \in T : <<y, x>> \notin R
    <2> HIDE DEF R
    <2> QED BY <1>1, WFMin
  <1>3. ASSUME NEW y \in T PROVE x <= y
    <2>1. y \in Nat /\ x \in Nat
      OBVIOUS
    <2>2. ~(y < x)
      <3>1. <<y, x>> \notin R /\ <<y, x>> \in Nat \X Nat
        BY <1>2, <2>1
      <3> QED BY <3>1, Zenon
    <2> QED BY <2>1, <2>2
  <1> QED BY <1>3

LEMMA Induction ==
  ASSUME NEW T, 0 \in T, \A n \in Nat : n \in T => n + 1 \in T
  PROVE  \A n \in Nat : n \in T
  <1> SUFFICES ASSUME Nat \ T # {} PROVE FALSE
    OBVIOUS
  <1>1. PICK x \in Nat \ T : \A y \in Nat \ T : x <= y
    BY LeastNumber
  <1>2. x - 1 \in Nat /\ ~(x <= x - 1)
    OBVIOUS
  <1> QED BY <1>1, <1>2

-------------------------------------------------------------------------------
(* Sums *)

Picked(s) == CHOOSE x \in s : TRUE
UpTo(S, n) == {s \in SUBSET S : Cardinality(s) <= n}
SumStep(f, g, s) == IF s = {} THEN 0 ELSE f[Picked(s)] + g[s \ {Picked(s)}]
IsSum(g, f, D) == g = [s \in D |-> SumStep(f, g, s)]
\* g[s] is the sum of f over s, for every part s of S.
SumsUp(g, f, S) == IsSum(g, f, SUBSET S)

LEMMA PickedIn == \A s : s # {} => Picked(s) \in s
  BY DEF Picked

LEMMA Smaller ==
  ASSUME NEW S, IsFiniteSet(S), NEW n \in Nat, NEW s \in UpTo(S, n + 1), NEW x \in s
  PROVE  s \ {x} \in UpTo(S, n)
  <1>1. s \in SUBSET S /\ Cardinality(s) <= n + 1
    BY DEF UpTo
  <1>2. IsFiniteSet(s)
    BY <1>1, FS_Subset
  <1>3. Cardinality(s \ {x}) = Cardinality(s) - 1 /\ Cardinality(s) \in Nat
    BY <1>2, FS_RemoveElement, FS_CardinalityType
  <1>4. Cardinality(s \ {x}) <= n
    BY <1>1, <1>3
  <1> QED BY <1>1, <1>4 DEF UpTo

LEMMA OnlyEmpty ==
  ASSUME NEW S, IsFiniteSet(S)
  PROVE  UpTo(S, 0) = {{}}
  <1>1. ASSUME NEW s \in SUBSET S, Cardinality(s) <= 0 PROVE s = {}
    <2>1. IsFiniteSet(s)
      BY FS_Subset
    <2>2. Cardinality(s) = 0
      BY <1>1, <2>1, FS_CardinalityType
    <2> QED BY <2>1, <2>2, FS_EmptySet
  <1>2. Cardinality({}) = 0
    BY FS_EmptySet
  <1> QED BY <1>1, <1>2 DEF UpTo

LEMMA WholeSet ==
  ASSUME NEW S, IsFiniteSet(S)
  PROVE  Cardinality(S) \in Nat /\ UpTo(S, Cardinality(S)) = SUBSET S
  BY FS_CardinalityType, FS_Subset DEF UpTo

\* Induction over the subsets of a finite set, for a set of subsets.
LEMMA SubsetInduction ==
  ASSUME NEW S, IsFiniteSet(S), NEW W, {} \in W,
         \A s \in SUBSET S : s # {} /\ (\A x \in s : s \ {x} \in W) => s \in W
  PROVE  SUBSET S \subseteq W
  <1> DEFINE T == {n \in Nat : UpTo(S, n) \subseteq W}
  <1>1. 0 \in T
    BY OnlyEmpty
  <1>2. ASSUME NEW n \in Nat, n \in T PROVE n + 1 \in T
    <2>1. ASSUME NEW s \in UpTo(S, n + 1), s # {} PROVE s \in W
      <3>1. \A x \in s : s \ {x} \in W
        BY <1>2, Smaller
      <3>2. s \in SUBSET S
        BY DEF UpTo
      <3> QED BY <2>1, <3>1, <3>2
    <2>2. UpTo(S, n + 1) \subseteq W
      BY <2>1
    <2>3. n + 1 \in Nat
      OBVIOUS
    <2> QED BY <2>2, <2>3, Zenon
  <1>3. \A n \in Nat : n \in T
    <2> HIDE DEF T
    <2> QED BY <1>1, <1>2, Induction
  <1> QED BY <1>3, WholeSet

LEMMA SumExists ==
  ASSUME NEW f, NEW S, IsFiniteSet(S)
  PROVE  \E g : SumsUp(g, f, S)
  <1> DEFINE T == {n \in Nat : \E g : IsSum(g, f, UpTo(S, n))}
  <1>1. 0 \in T
    <2> DEFINE g == [s \in UpTo(S, 0) |-> 0]
    <2>1. \A s \in UpTo(S, 0) : SumStep(f, g, s) = 0
      BY OnlyEmpty DEF SumStep
    <2>2. g = [s \in UpTo(S, 0) |-> SumStep(f, g, s)]
      BY <2>1
    <2> QED BY <2>2 DEF IsSum
  <1>2. ASSUME NEW n \in Nat, n \in T PROVE n + 1 \in T
    <2>1. PICK g : IsSum(g, f, UpTo(S, n))
      BY <1>2
    <2> DEFINE h == [s \in UpTo(S, n + 1) |-> SumStep(f, g, s)]
    <2>2. UpTo(S, n) \subseteq UpTo(S, n + 1)
      <3>1. ASSUME NEW s \in SUBSET S, Cardinality(s) <= n PROVE Cardinality(s) <= n + 1
        BY <3>1, FS_Subset, FS_CardinalityType
      <3> QED BY <3>1 DEF UpTo
    <2>3. \A s \in UpTo(S, n) : h[s] = g[s]
      BY <2>1, <2>2 DEF IsSum
    <2>4. ASSUME NEW s \in UpTo(S, n + 1) PROVE h[s] = SumStep(f, h, s)
      <3>1. CASE s = {}
        BY <3>1 DEF SumStep
      <3>2. CASE s # {}
        <4>1. h[s \ {Picked(s)}] = g[s \ {Picked(s)}]
          BY <3>2, <2>3, PickedIn, Smaller
        <4>2. SumStep(f, g, s) = SumStep(f, h, s)
          <5> HIDE DEF h
          <5> QED BY <4>1 DEF SumStep
        <4> QED BY <4>2
      <3> QED BY <3>1, <3>2
    <2>5. h = [s \in UpTo(S, n + 1) |-> h[s]]
      OBVIOUS
    <2>6. h = [s \in UpTo(S, n + 1) |-> SumStep(f, h, s)]
      <3> HIDE DEF h
      <3> QED BY <2>4, <2>5
    <2>7. \E k : IsSum(k, f, UpTo(S, n + 1))
      <3> HIDE DEF h
      <3> QED BY <2>6, Zenon DEF IsSum
    <2>8. n + 1 \in Nat
      OBVIOUS
    <2> HIDE DEF h
    <2> QED BY <2>7, <2>8, Zenon
  <1>3. \A n \in Nat : n \in T
    <2> HIDE DEF T
    <2> QED BY <1>1, <1>2, Induction
  <1>4. \E g : IsSum(g, f, UpTo(S, Cardinality(S)))
    BY <1>3, WholeSet, Zenon
  <1> QED BY <1>4, WholeSet DEF SumsUp

\* A sum over a part does not depend on the whole.
LEMMA SumOfPart ==
  ASSUME NEW f, NEW S, IsFiniteSet(S), NEW g, SumsUp(g, f, S)
  PROVE  \A T \in SUBSET S : \A h : SumsUp(h, f, T) => h[T] = g[T]
  <1> SUFFICES ASSUME NEW T \in SUBSET S, NEW h, SumsUp(h, f, T) PROVE h[T] = g[T]
    OBVIOUS
  <1> DEFINE W == {s \in SUBSET T : h[s] = g[s]}
  <1>1. \A s \in SUBSET T : h[s] = SumStep(f, h, s) /\ g[s] = SumStep(f, g, s)
    BY DEF SumsUp, IsSum
  <1>2. {} \in W
    BY <1>1 DEF SumStep
  <1>3. ASSUME NEW s \in SUBSET T, s # {}, \A x \in s : s \ {x} \in W PROVE s \in W
    <2>1. h[s \ {Picked(s)}] = g[s \ {Picked(s)}]
      BY <1>3, PickedIn
    <2> QED BY <1>1, <2>1 DEF SumStep
  <1>4. IsFiniteSet(T)
    BY FS_Subset
  <1>5. SUBSET T \subseteq W
    <2> HIDE DEF W
    <2> QED BY <1>2, <1>3, <1>4, SubsetInduction
  <1> QED BY <1>5

LEMMA SumDefined ==
  ASSUME NEW f, NEW S, IsFiniteSet(S)
  PROVE  \E g : SumsUp(g, f, S) /\ \A T \in SUBSET S : SumFunctionOnSet(f, T) = g[T]
  <1>1. PICK g : SumsUp(g, f, S)
    BY SumExists
  <1>2. ASSUME NEW T \in SUBSET S PROVE SumFunctionOnSet(f, T) = g[T]
    <2>1. SumFunctionOnSet(f, T) = (CHOOSE h : SumsUp(h, f, T))[T]
      BY DEF SumFunctionOnSet, FoldFunctionOnSet, MapThenFoldSet, SumsUp, IsSum, SumStep, Picked
    <2>2. \E h : SumsUp(h, f, T)
      BY SumExists, FS_Subset
    <2>3. PICK h : SumsUp(h, f, T) /\ SumFunctionOnSet(f, T) = h[T]
      BY <2>1, <2>2
    <2>4. \A k : SumsUp(k, f, T) => k[T] = g[T]
      BY <1>1, SumOfPart
    <2> QED BY <2>3, <2>4
  <1> QED BY <1>1, <1>2

LEMMA SumOverNothing ==
  ASSUME NEW f
  PROVE  SumFunctionOnSet(f, {}) = 0
  <1>1. PICK g : SumsUp(g, f, {}) /\ \A T \in SUBSET {} : SumFunctionOnSet(f, T) = g[T]
    BY SumDefined, FS_EmptySet
  <1>2. g[{}] = SumStep(f, g, {})
    BY <1>1 DEF SumsUp, IsSum
  <1> QED BY <1>1, <1>2 DEF SumStep

LEMMA SumOfPicked ==
  ASSUME NEW f, NEW S, IsFiniteSet(S), S # {}
  PROVE  SumFunctionOnSet(f, S) = f[Picked(S)] + SumFunctionOnSet(f, S \ {Picked(S)})
  <1>1. PICK g : SumsUp(g, f, S) /\ \A T \in SUBSET S : SumFunctionOnSet(f, T) = g[T]
    BY SumDefined
  <1>2. g[S] = SumStep(f, g, S)
    BY <1>1 DEF SumsUp, IsSum
  <1>3. SumFunctionOnSet(f, S) = g[S]
        /\ SumFunctionOnSet(f, S \ {Picked(S)}) = g[S \ {Picked(S)}]
    BY <1>1
  <1> QED BY <1>2, <1>3 DEF SumStep

\* Sums of integers are integers.
LEMMA SumType ==
  ASSUME NEW f, NEW S, IsFiniteSet(S), \A x \in S : f[x] \in Int
  PROVE  SumFunctionOnSet(f, S) \in Int
  <1> DEFINE W == {s \in SUBSET S : SumFunctionOnSet(f, s) \in Int}
  <1>1. {} \in W
    BY SumOverNothing
  <1>2. ASSUME NEW s \in SUBSET S, s # {}, \A x \in s : s \ {x} \in W PROVE s \in W
    <2>1. Picked(s) \in s /\ IsFiniteSet(s)
      BY <1>2, PickedIn, FS_Subset
    <2>2. SumFunctionOnSet(f, s \ {Picked(s)}) \in Int /\ f[Picked(s)] \in Int
      BY <1>2, <2>1
    <2>3. SumFunctionOnSet(f, s) \in Int
      BY <1>2, <2>1, <2>2, SumOfPicked
    <2> QED BY <2>3
  <1>3. SUBSET S \subseteq W
    <2> HIDE DEF W
    <2> QED BY <1>1, <1>2, SubsetInduction
  <1> QED BY <1>3

\* Any element may be taken out of a sum first.
LEMMA SumTake ==
  ASSUME NEW f, NEW S, IsFiniteSet(S), \A x \in S : f[x] \in Int, NEW e \in S
  PROVE  SumFunctionOnSet(f, S) = f[e] + SumFunctionOnSet(f, S \ {e})
  <1> DEFINE Takes(s) == \A x \in s :
               SumFunctionOnSet(f, s) = f[x] + SumFunctionOnSet(f, s \ {x})
             W == {s \in SUBSET S : Takes(s)}
  <1>1. {} \in W
    OBVIOUS
  <1>2. ASSUME NEW s \in SUBSET S, s # {}, \A x \in s : s \ {x} \in W PROVE s \in W
    <2>1. ASSUME NEW x \in s
          PROVE  SumFunctionOnSet(f, s) = f[x] + SumFunctionOnSet(f, s \ {x})
      <3> DEFINE p == Picked(s)
      <3>1. p \in s /\ IsFiniteSet(s)
        BY <1>2, PickedIn, FS_Subset
      <3>2. SumFunctionOnSet(f, s) = f[p] + SumFunctionOnSet(f, s \ {p})
        BY <1>2, <3>1, SumOfPicked
      <3> HIDE DEF p
      <3>3. CASE x = p
        BY <3>2, <3>3
      <3>4. CASE x # p
        <4>1. SumFunctionOnSet(f, s \ {p}) = f[x] + SumFunctionOnSet(f, (s \ {p}) \ {x})
          BY <1>2, <3>1, <3>4
        <4>2. SumFunctionOnSet(f, s \ {x}) = f[p] + SumFunctionOnSet(f, (s \ {x}) \ {p})
          BY <1>2, <3>1, <3>4
        <4>3. (s \ {x}) \ {p} = (s \ {p}) \ {x}
          OBVIOUS
        <4> DEFINE rest == SumFunctionOnSet(f, (s \ {p}) \ {x})
        <4>4. rest \in Int
          BY <3>1, SumType, FS_Subset
        <4>5. f[p] \in Int /\ f[x] \in Int
          BY <3>1
        <4>6. SumFunctionOnSet(f, s \ {p}) = f[x] + rest /\ SumFunctionOnSet(f, s \ {x}) = f[p] + rest
          BY <4>1, <4>2, <4>3
        <4> HIDE DEF rest
        <4> QED BY <3>2, <4>4, <4>5, <4>6
      <3> QED BY <3>3, <3>4
    <2> QED BY <2>1
  <1>3. SUBSET S \subseteq W
    <2> HIDE DEF W
    <2> QED BY <1>1, <1>2, SubsetInduction
  <1> QED BY <1>3

LEMMA SumAdd ==
  ASSUME NEW f, NEW S, IsFiniteSet(S), NEW e, e \notin S, \A x \in S \cup {e} : f[x] \in Int
  PROVE  SumFunctionOnSet(f, S \cup {e}) = f[e] + SumFunctionOnSet(f, S)
  <1>1. IsFiniteSet(S \cup {e})
    BY FS_AddElement
  <1>2. (S \cup {e}) \ {e} = S
    OBVIOUS
  <1>3. SumFunctionOnSet(f, S \cup {e}) = f[e] + SumFunctionOnSet(f, (S \cup {e}) \ {e})
    BY <1>1, SumTake
  <1> QED BY <1>2, <1>3

\* Functions that agree on a set have the same sum over it.
LEMMA SumSame ==
  ASSUME NEW f, NEW g, NEW S, IsFiniteSet(S), \A x \in S : f[x] = g[x]
  PROVE  SumFunctionOnSet(f, S) = SumFunctionOnSet(g, S)
  <1> DEFINE W == {s \in SUBSET S : SumFunctionOnSet(f, s) = SumFunctionOnSet(g, s)}
  <1>1. {} \in W
    BY SumOverNothing
  <1>2. ASSUME NEW s \in SUBSET S, s # {}, \A x \in s : s \ {x} \in W PROVE s \in W
    <2>1. Picked(s) \in s /\ IsFiniteSet(s)
      BY <1>2, PickedIn, FS_Subset
    <2>2. SumFunctionOnSet(f, s \ {Picked(s)}) = SumFunctionOnSet(g, s \ {Picked(s)})
      BY <1>2, <2>1
    <2>3. SumFunctionOnSet(f, s) = f[Picked(s)] + SumFunctionOnSet(f, s \ {Picked(s)})
      BY <1>2, <2>1, SumOfPicked
    <2>4. SumFunctionOnSet(g, s) = g[Picked(s)] + SumFunctionOnSet(g, s \ {Picked(s)})
      BY <1>2, <2>1, SumOfPicked
    <2>5. f[Picked(s)] = g[Picked(s)]
      BY <2>1
    <2> QED BY <2>2, <2>3, <2>4, <2>5
  <1>3. SUBSET S \subseteq W
    <2> HIDE DEF W
    <2> QED BY <1>1, <1>2, SubsetInduction
  <1> QED BY <1>3

\* A change at one element changes the sum by as much.
LEMMA SumChange ==
  ASSUME NEW f, NEW g, NEW S, IsFiniteSet(S), \A x \in S : f[x] \in Int /\ g[x] \in Int,
         NEW e \in S, \A x \in S \ {e} : f[x] = g[x]
  PROVE  SumFunctionOnSet(g, S) = SumFunctionOnSet(f, S) + (g[e] - f[e])
  <1>1. IsFiniteSet(S \ {e})
    BY FS_RemoveElement
  <1>2. SumFunctionOnSet(f, S \ {e}) = SumFunctionOnSet(g, S \ {e})
    BY <1>1, SumSame
  <1>3. SumFunctionOnSet(f, S) = f[e] + SumFunctionOnSet(f, S \ {e})
    BY SumTake
  <1>4. SumFunctionOnSet(g, S) = g[e] + SumFunctionOnSet(g, S \ {e})
    BY SumTake
  <1>5. SumFunctionOnSet(f, S \ {e}) \in Int
    BY <1>1, SumType
  <1> QED BY <1>2, <1>3, <1>4, <1>5

LEMMA FiniteImage ==
  ASSUME NEW S, IsFiniteSet(S), NEW h
  PROVE  IsFiniteSet({h[x] : x \in S})
  <1> DEFINE Image(s) == {h[x] : x \in s}
             W == {s \in SUBSET S : IsFiniteSet(Image(s))}
  <1>1. {} \in W
    <2>1. Image({}) = {}
      OBVIOUS
    <2> QED BY <2>1, FS_EmptySet
  <1>2. ASSUME NEW s \in SUBSET S, s # {}, \A x \in s : s \ {x} \in W PROVE s \in W
    <2>1. PICK p \in s : IsFiniteSet(Image(s \ {p}))
      BY <1>2
    <2>2. Image(s) = Image(s \ {p}) \cup {h[p]}
      BY <2>1
    <2> HIDE DEF Image
    <2>3. IsFiniteSet(Image(s \ {p}) \cup {h[p]})
      BY <2>1, FS_AddElement
    <2>4. IsFiniteSet(Image(s))
      BY <2>2, <2>3
    <2> QED BY <2>4
  <1>3. SUBSET S \subseteq W
    <2> HIDE DEF W
    <2> QED BY <1>1, <1>2, SubsetInduction
  <1> QED BY <1>3

\* A sum does not change when its elements are renamed.
LEMMA SumRenamed ==
  ASSUME NEW f, NEW g, NEW S, IsFiniteSet(S), NEW T, NEW h \in [S -> T],
         \A x \in S : f[x] \in Int /\ f[x] = g[h[x]],
         \A x, y \in S : h[x] = h[y] => x = y,
         \A y \in T : \E x \in S : h[x] = y
  PROVE  SumFunctionOnSet(f, S) = SumFunctionOnSet(g, T)
  <1> DEFINE Image(s) == {h[x] : x \in s}
             W == {s \in SUBSET S : SumFunctionOnSet(f, s) = SumFunctionOnSet(g, Image(s))}
  <1>1. {} \in W
    <2>1. Image({}) = {}
      OBVIOUS
    <2> HIDE DEF Image
    <2> QED BY <2>1, SumOverNothing
  <1>2. ASSUME NEW s \in SUBSET S, s # {}, \A x \in s : s \ {x} \in W PROVE s \in W
    <2> DEFINE p == Picked(s)
    <2>1. p \in s /\ IsFiniteSet(s)
      BY <1>2, PickedIn, FS_Subset
    <2>2. SumFunctionOnSet(f, s) = f[p] + SumFunctionOnSet(f, s \ {p})
      BY <1>2, <2>1, SumOfPicked
    <2> HIDE DEF p
    <2>3. SumFunctionOnSet(f, s \ {p}) = SumFunctionOnSet(g, Image(s \ {p}))
      BY <1>2, <2>1
    <2>4. IsFiniteSet(Image(s)) /\ \A y \in Image(s) : g[y] \in Int
      <3>1. IsFiniteSet(Image(s))
        BY <2>1, FiniteImage
      <3> QED BY <3>1
    <2>5. h[p] \in Image(s) /\ Image(s) \ {h[p]} = Image(s \ {p})
      BY <2>1
    <2> HIDE DEF Image
    <2>6. SumFunctionOnSet(g, Image(s)) = g[h[p]] + SumFunctionOnSet(g, Image(s) \ {h[p]})
      BY <2>4, <2>5, SumTake
    <2>7. f[p] = g[h[p]]
      BY <2>1
    <2> QED BY <2>2, <2>3, <2>5, <2>6, <2>7
  <1>3. SUBSET S \subseteq W
    <2> HIDE DEF W
    <2> QED BY <1>1, <1>2, SubsetInduction
  <1>4. SumFunctionOnSet(f, S) = SumFunctionOnSet(g, Image(S))
    BY <1>3
  <1>5. Image(S) = T
    OBVIOUS
  <1> HIDE DEF Image
  <1> QED BY <1>4, <1>5

\* Two sets whose elements correspond have the same size.
LEMMA SizeRenamed ==
  ASSUME NEW S, IsFiniteSet(S), NEW T, NEW h \in [S -> T],
         \A x, y \in S : h[x] = h[y] => x = y,
         \A y \in T : \E x \in S : h[x] = y
  PROVE  IsFiniteSet(T) /\ Cardinality(T) = Cardinality(S)
  <1>1. h \in Injection(S, T) /\ h \in Surjection(S, T)
    BY DEF Injection, Surjection, IsInjective
  <1>2. h \in Bijection(S, T)
    BY <1>1 DEF Bijection
  <1>3. ExistsBijection(S, T)
    BY <1>2 DEF ExistsBijection
  <1> QED BY <1>3, FS_Bijection

\* The sum of two functions is summed by summing each.
LEMMA SumPlus ==
  ASSUME NEW f, NEW g, NEW h, NEW S, IsFiniteSet(S),
         \A x \in S : f[x] \in Int /\ g[x] \in Int /\ h[x] = f[x] + g[x]
  PROVE  SumFunctionOnSet(h, S) = SumFunctionOnSet(f, S) + SumFunctionOnSet(g, S)
  <1> DEFINE W == {s \in SUBSET S :
                     SumFunctionOnSet(h, s) = SumFunctionOnSet(f, s) + SumFunctionOnSet(g, s)}
  <1>1. {} \in W
    BY SumOverNothing
  <1>2. ASSUME NEW s \in SUBSET S, s # {}, \A x \in s : s \ {x} \in W PROVE s \in W
    <2> DEFINE p == Picked(s)
               r == s \ {p}
    <2>1. p \in s /\ IsFiniteSet(s) /\ IsFiniteSet(r)
      BY <1>2, PickedIn, FS_Subset
    <2>2. SumFunctionOnSet(h, r) = SumFunctionOnSet(f, r) + SumFunctionOnSet(g, r)
      BY <1>2, <2>1
    <2>3. /\ SumFunctionOnSet(h, s) = h[p] + SumFunctionOnSet(h, r)
          /\ SumFunctionOnSet(f, s) = f[p] + SumFunctionOnSet(f, r)
          /\ SumFunctionOnSet(g, s) = g[p] + SumFunctionOnSet(g, r)
      BY <1>2, <2>1, SumOfPicked
    <2>4. f[p] \in Int /\ g[p] \in Int /\ h[p] = f[p] + g[p]
      BY <2>1
    <2> HIDE DEF p
    <2>5. SumFunctionOnSet(f, r) \in Int /\ SumFunctionOnSet(g, r) \in Int
      <3>1. \A x \in r : f[x] \in Int /\ g[x] \in Int
        OBVIOUS
      <3> HIDE DEF r
      <3> QED BY <2>1, <3>1, SumType
    <2> HIDE DEF r
    <2>6. SumFunctionOnSet(h, s) = SumFunctionOnSet(f, s) + SumFunctionOnSet(g, s)
      BY <2>2, <2>3, <2>4, <2>5
    <2> QED BY <2>6
  <1>3. SUBSET S \subseteq W
    <2> HIDE DEF W
    <2> QED BY <1>1, <1>2, SubsetInduction
  <1> QED BY <1>3

\* Nothing but zeros adds up to zero, and one value among zeros to that value.
LEMMA SumOfOne ==
  ASSUME NEW f, NEW S, IsFiniteSet(S), NEW e \in S, f[e] \in Int, \A x \in S \ {e} : f[x] = 0
  PROVE  SumFunctionOnSet(f, S) = f[e]
  <1> DEFINE rest == S \ {e}
  <1>1. IsFiniteSet(rest)
    BY FS_Subset
  <1>2. \A x \in rest : f[x] \in Int /\ f[x] \in Int /\ f[x] = f[x] + f[x]
    OBVIOUS
  <1> HIDE DEF rest
  <1>3. SumFunctionOnSet(f, rest) \in Int
    BY <1>1, <1>2, SumType
  <1>4. SumFunctionOnSet(f, rest) = SumFunctionOnSet(f, rest) + SumFunctionOnSet(f, rest)
    BY <1>1, <1>2, SumPlus
  <1>5. SumFunctionOnSet(f, rest) = 0
    <2>1. \A n \in Int : n = n + n => n = 0
      OBVIOUS
    <2> QED BY <1>3, <1>4, <2>1, Zenon
  <1>6. \A x \in S : f[x] \in Int
    OBVIOUS
  <1>7. SumFunctionOnSet(f, S) = f[e] + SumFunctionOnSet(f, rest)
    BY <1>6, SumTake DEF rest
  <1> QED BY <1>5, <1>7

\* A sum over two sets that do not meet is summed over each.
LEMMA SumUnion ==
  ASSUME NEW f, NEW A, NEW B, IsFiniteSet(A), IsFiniteSet(B), A \cap B = {},
         \A x \in A \cup B : f[x] \in Int
  PROVE  SumFunctionOnSet(f, A \cup B) = SumFunctionOnSet(f, A) + SumFunctionOnSet(f, B)
  <1> DEFINE W == {s \in SUBSET B :
                     SumFunctionOnSet(f, A \cup s) = SumFunctionOnSet(f, A) + SumFunctionOnSet(f, s)}
  <1>0. SumFunctionOnSet(f, A) \in Int
    BY SumType
  <1>1. {} \in W
    <2>1. SumFunctionOnSet(f, A \cup {}) = SumFunctionOnSet(f, A)
      <3>1. A \cup {} = A
        OBVIOUS
      <3> QED BY <3>1
    <2> QED BY <1>0, <2>1, SumOverNothing
  <1>2. ASSUME NEW s \in SUBSET B, s # {}, \A x \in s : s \ {x} \in W PROVE s \in W
    <2>1. PICK p \in s : s \ {p} \in W
      BY <1>2
    <2> DEFINE r == s \ {p}
    <2>2. IsFiniteSet(s) /\ IsFiniteSet(r) /\ IsFiniteSet(A \cup r)
      <3>1. IsFiniteSet(s) /\ IsFiniteSet(r)
        BY FS_Subset
      <3> HIDE DEF r
      <3> QED BY <3>1, FS_Union
    <2>3. /\ s = r \cup {p} /\ A \cup s = (A \cup r) \cup {p} /\ p \notin r /\ p \notin A \cup r
          /\ \A x \in r \cup {p} : f[x] \in Int
          /\ \A x \in (A \cup r) \cup {p} : f[x] \in Int
      BY <2>1
    <2>4. SumFunctionOnSet(f, A \cup r) = SumFunctionOnSet(f, A) + SumFunctionOnSet(f, r)
      BY <2>1
    <2> HIDE DEF r
    <2>5. SumFunctionOnSet(f, r \cup {p}) = f[p] + SumFunctionOnSet(f, r)
      BY <2>2, <2>3, SumAdd
    <2>6. SumFunctionOnSet(f, (A \cup r) \cup {p}) = f[p] + SumFunctionOnSet(f, A \cup r)
      BY <2>2, <2>3, SumAdd
    <2>7. SumFunctionOnSet(f, r) \in Int /\ f[p] \in Int
      BY <2>2, <2>3, SumType
    <2>8. SumFunctionOnSet(f, A \cup s) = SumFunctionOnSet(f, A) + SumFunctionOnSet(f, s)
      <3>1. SumFunctionOnSet(f, A \cup s) = f[p] + SumFunctionOnSet(f, A \cup r)
        BY <2>3, <2>6
      <3>2. SumFunctionOnSet(f, s) = f[p] + SumFunctionOnSet(f, r)
        BY <2>3, <2>5
      <3> QED BY <1>0, <2>4, <2>7, <3>1, <3>2
    <2> QED BY <2>8
  <1>3. SUBSET B \subseteq W
    <2> HIDE DEF W
    <2> QED BY <1>1, <1>2, SubsetInduction
  <1> QED BY <1>3

\* Naturals add up to a natural, and a sum of negated values is the negated sum.
LEMMA SumNat ==
  ASSUME NEW f, NEW S, IsFiniteSet(S), \A x \in S : f[x] \in Nat
  PROVE  SumFunctionOnSet(f, S) \in Nat
  <1> DEFINE W == {s \in SUBSET S : SumFunctionOnSet(f, s) \in Nat}
  <1>1. {} \in W
    BY SumOverNothing
  <1>2. ASSUME NEW s \in SUBSET S, s # {}, \A x \in s : s \ {x} \in W PROVE s \in W
    <2> DEFINE p == Picked(s)
    <2>1. p \in s /\ IsFiniteSet(s)
      BY <1>2, PickedIn, FS_Subset
    <2>2. SumFunctionOnSet(f, s) = f[p] + SumFunctionOnSet(f, s \ {p})
      BY <1>2, <2>1, SumOfPicked
    <2> HIDE DEF p
    <2>3. SumFunctionOnSet(f, s \ {p}) \in Nat /\ f[p] \in Nat
      BY <1>2, <2>1
    <2> QED BY <2>2, <2>3
  <1>3. SUBSET S \subseteq W
    <2> HIDE DEF W
    <2> QED BY <1>1, <1>2, SubsetInduction
  <1> QED BY <1>3

LEMMA SumOfZeros ==
  ASSUME NEW f, NEW S, IsFiniteSet(S), \A x \in S : f[x] = 0
  PROVE  SumFunctionOnSet(f, S) = 0
  <1>1. CASE S = {}
    BY <1>1, SumOverNothing
  <1>2. CASE S # {}
    <2>1. PICK e \in S : TRUE
      BY <1>2
    <2>2. f[e] \in Int /\ f[e] = 0 /\ \A x \in S \ {e} : f[x] = 0
      BY <2>1
    <2> QED BY <2>2, SumOfOne
  <1> QED BY <1>1, <1>2

LEMMA SumNegated ==
  ASSUME NEW f, NEW g, NEW S, IsFiniteSet(S), \A x \in S : f[x] \in Int /\ g[x] = -f[x]
  PROVE  SumFunctionOnSet(g, S) = -SumFunctionOnSet(f, S)
  <1> DEFINE zero == [x \in S |-> 0]
  <1>1. \A x \in S : zero[x] = 0 /\ f[x] \in Int /\ g[x] \in Int /\ zero[x] = f[x] + g[x]
    OBVIOUS
  <1> HIDE DEF zero
  <1>2. SumFunctionOnSet(zero, S) = SumFunctionOnSet(f, S) + SumFunctionOnSet(g, S)
    BY <1>1, SumPlus
  <1>3. SumFunctionOnSet(zero, S) = 0
    BY <1>1, SumOfZeros
  <1>4. SumFunctionOnSet(f, S) \in Int /\ SumFunctionOnSet(g, S) \in Int
    BY <1>1, SumType
  <1> QED BY <1>2, <1>3, <1>4

\* The values along two sequences put one after the other.
Positions(n) == 1..n
Joined(f, m, g, n, h) ==
    /\ \A k \in Positions(m) : f[k] \in Int /\ h[k] = f[k]
    /\ \A k \in Positions(n) : g[k] \in Int /\ h[m + k] = g[k]

LEMMA SumConcat ==
  ASSUME NEW m \in Nat, NEW n \in Nat, NEW f, NEW g, NEW h, Joined(f, m, g, n, h)
  PROVE  SumFunctionOnSet(h, Positions(m + n))
           = SumFunctionOnSet(f, Positions(m)) + SumFunctionOnSet(g, Positions(n))
  <1> DEFINE A == Positions(m)
             C == Positions(n)
             B == (m + 1)..(m + n)
             shift == [k \in C |-> m + k]
  <1> USE DEF Joined
  <1>1. IsFiniteSet(A) /\ IsFiniteSet(B) /\ IsFiniteSet(C)
    <2>1. IsFiniteSet(A) /\ IsFiniteSet(C)
      BY FS_Interval DEF Positions
    <2>2. IsFiniteSet(B)
      BY FS_Interval
    <2> QED BY <2>1, <2>2
  <1>2. A \cap B = {} /\ A \cup B = Positions(m + n)
    BY DEF Positions
  <1>3. /\ shift \in [C -> B]
        /\ \A x, y \in C : shift[x] = shift[y] => x = y
    BY DEF Positions
  <1>4. \A y \in B : \E x \in C : shift[x] = y
    <2> SUFFICES ASSUME NEW y \in B PROVE \E x \in C : shift[x] = y
      OBVIOUS
    <2>1. y - m \in C /\ m + (y - m) = y
      BY DEF Positions
    <2> QED BY <2>1
  <1>5. \A x \in C : g[x] \in Int /\ g[x] = h[shift[x]]
    OBVIOUS
  <1>6. \A x \in A : f[x] \in Int /\ h[x] = f[x] /\ h[x] \in Int
    OBVIOUS
  <1>7. \A y \in B : h[y] \in Int
    <2> HIDE DEF B, shift
    <2> QED BY <1>4, <1>5
  <1> HIDE DEF A, C, B, shift
  <1>8. SumFunctionOnSet(g, C) = SumFunctionOnSet(h, B)
    BY <1>1, <1>3, <1>4, <1>5, SumRenamed
  <1>9. SumFunctionOnSet(h, A) = SumFunctionOnSet(f, A)
    BY <1>1, <1>6, SumSame
  <1>10. SumFunctionOnSet(h, A \cup B) = SumFunctionOnSet(h, A) + SumFunctionOnSet(h, B)
    BY <1>1, <1>2, <1>6, <1>7, SumUnion
  <1> QED BY <1>2, <1>8, <1>9, <1>10 DEF A, C

\* A part of some naturals adds up to no more than all of them.
LEMMA SumPart ==
  ASSUME NEW f, NEW S, IsFiniteSet(S), \A x \in S : f[x] \in Nat, NEW T, T \subseteq S
  PROVE  SumFunctionOnSet(f, T) <= SumFunctionOnSet(f, S)
  <1> DEFINE R == S \ T
  <1>1. /\ IsFiniteSet(T) /\ IsFiniteSet(R) /\ T \cap R = {} /\ T \cup R = S
        /\ \A x \in T \cup R : f[x] \in Int
        /\ \A x \in T : f[x] \in Nat
        /\ \A x \in R : f[x] \in Nat
    BY FS_Subset
  <1> HIDE DEF R
  <1>2. SumFunctionOnSet(f, T \cup R) = SumFunctionOnSet(f, T) + SumFunctionOnSet(f, R)
    BY <1>1, SumUnion
  <1>3. SumFunctionOnSet(f, T) \in Nat /\ SumFunctionOnSet(f, R) \in Nat
    BY <1>1, SumNat
  <1>4. SumFunctionOnSet(f, S) = SumFunctionOnSet(f, T) + SumFunctionOnSet(f, R)
    BY <1>1, <1>2
  <1> QED BY <1>3, <1>4

\* Marks of 0 and 1 add up to how many are 1.
Marked(f, S) == {x \in S : f[x] = 1}

LEMMA SumOfMarks ==
  ASSUME NEW f, NEW S, IsFiniteSet(S), \A x \in S : f[x] \in {0, 1}
  PROVE  Cardinality(Marked(f, S)) = SumFunctionOnSet(f, S)
  <1> DEFINE Ones(s) == Marked(f, s)
             W == {s \in SUBSET S : Cardinality(Ones(s)) = SumFunctionOnSet(f, s)}
  <1>1. {} \in W
    <2>1. Ones({}) = {}
      BY DEF Marked
    <2> HIDE DEF Ones
    <2> QED BY <2>1, SumOverNothing, FS_EmptySet
  <1>2. ASSUME NEW s \in SUBSET S, s # {}, \A x \in s : s \ {x} \in W PROVE s \in W
    <2> DEFINE p == Picked(s)
               rest == s \ {p}
    <2>1. p \in s /\ IsFiniteSet(s)
      BY <1>2, PickedIn, FS_Subset
    <2>2. SumFunctionOnSet(f, s) = f[p] + SumFunctionOnSet(f, rest)
      BY <1>2, <2>1, SumOfPicked
    <2>3. Cardinality(Ones(rest)) = SumFunctionOnSet(f, rest)
      BY <1>2, <2>1
    <2> HIDE DEF p
    <2>4. /\ f[p] = 1 => Ones(s) = Ones(rest) \cup {p}
          /\ f[p] # 1 => f[p] = 0 /\ Ones(s) = Ones(rest)
          /\ p \notin Ones(rest)
      BY <2>1 DEF Marked
    <2>5. IsFiniteSet(Ones(rest))
      <3>1. Ones(rest) \subseteq s
        BY DEF Marked
      <3> HIDE DEF Ones
      <3> QED BY <2>1, <3>1, FS_Subset
    <2> HIDE DEF Ones, rest
    <2>6. Cardinality(Ones(rest)) \in Nat
      BY <2>5, FS_CardinalityType
    <2>7. Cardinality(Ones(s)) = SumFunctionOnSet(f, s)
      <3>1. CASE f[p] = 1
        <4>1. Cardinality(Ones(rest) \cup {p}) = Cardinality(Ones(rest)) + 1
          BY <2>4, <2>5, FS_AddElement
        <4>2. Cardinality(Ones(s)) = Cardinality(Ones(rest)) + 1
          BY <2>4, <3>1, <4>1
        <4> QED BY <2>2, <2>3, <2>6, <3>1, <4>2
      <3>2. CASE f[p] # 1
        BY <2>2, <2>3, <2>4, <2>6, <3>2
      <3> QED BY <3>1, <3>2
    <2> QED BY <2>7
  <1>3. SUBSET S \subseteq W
    <2> HIDE DEF W
    <2> QED BY <1>1, <1>2, SubsetInduction
  <1> QED BY <1>3

-------------------------------------------------------------------------------
(* What the elements of a sequence weigh in total.                         *)

Along(w, s) == [k \in DOMAIN s |-> w[s[k]]]
Total(w, s) == SumFunction(Along(w, s))

LEMMA AlongType ==
  ASSUME NEW S, NEW s \in Seq(S), NEW w \in [S -> Int]
  PROVE  /\ Len(s) \in Nat /\ DOMAIN s = 1..Len(s) /\ IsFiniteSet(1..Len(s))
         /\ \A k \in 1..Len(s) : Along(w, s)[k] = w[s[k]] /\ Along(w, s)[k] \in Int
         /\ Total(w, s) = SumFunctionOnSet(Along(w, s), 1..Len(s))
         /\ Total(w, s) \in Int
  <1>1. Len(s) \in Nat /\ DOMAIN s = 1..Len(s)
    OBVIOUS
  <1>2. IsFiniteSet(1..Len(s))
    BY <1>1, FS_Interval
  <1>3. ASSUME NEW k \in 1..Len(s) PROVE Along(w, s)[k] = w[s[k]] /\ Along(w, s)[k] \in Int
    <2>1. s[k] \in S
      BY ElementOfSeq
    <2> QED BY <1>1, <2>1 DEF Along
  <1>4. SumFunctionOnSet(Along(w, s), 1..Len(s)) \in Int
    BY <1>2, <1>3, SumType
  <1>5. Total(w, s) = SumFunctionOnSet(Along(w, s), 1..Len(s))
    BY <1>1 DEF Total, SumFunction, Along
  <1> QED BY <1>1, <1>2, <1>3, <1>4, <1>5

\* The same, taken along the positions, which are named to keep the range closed.
LEMMA TotalAlong ==
  ASSUME NEW S, NEW s \in Seq(S), NEW w \in [S -> Int]
  PROVE  /\ Len(s) \in Nat /\ DOMAIN s = Positions(Len(s)) /\ IsFiniteSet(Positions(Len(s)))
         /\ \A k \in Positions(Len(s)) :
              s[k] \in S /\ Along(w, s)[k] = w[s[k]] /\ Along(w, s)[k] \in Int
         /\ Total(w, s) = SumFunctionOnSet(Along(w, s), Positions(Len(s)))
         /\ Total(w, s) \in Int
  <1>1. \A k \in 1..Len(s) : s[k] \in S
    BY ElementOfSeq
  <1> QED BY <1>1, AlongType DEF Positions

LEMMA TotalNat ==
  ASSUME NEW S, NEW s \in Seq(S), NEW w \in [S -> Nat]
  PROVE  Total(w, s) \in Nat
  <1>1. w \in [S -> Int]
    OBVIOUS
  <1>2. /\ IsFiniteSet(Positions(Len(s)))
        /\ \A k \in Positions(Len(s)) : s[k] \in S /\ Along(w, s)[k] = w[s[k]]
        /\ Total(w, s) = SumFunctionOnSet(Along(w, s), Positions(Len(s)))
    BY <1>1, TotalAlong
  <1>3. \A k \in Positions(Len(s)) : Along(w, s)[k] \in Nat
    BY <1>2
  <1>4. SumFunctionOnSet(Along(w, s), Positions(Len(s))) \in Nat
    BY <1>2, <1>3, SumNat
  <1> QED BY <1>2, <1>4

\* Elements that weigh the opposite, one by one.
Opposite(w, s, v, t) == Len(s) = Len(t) /\ \A k \in DOMAIN s : v[t[k]] = -w[s[k]]

LEMMA TotalNegated ==
  ASSUME NEW S, NEW s \in Seq(S), NEW t \in Seq(S), NEW w \in [S -> Int], NEW v \in [S -> Int],
         Opposite(w, s, v, t)
  PROVE  Total(w, s) + Total(v, t) = 0
  <1> DEFINE D == Positions(Len(s))
             f == Along(w, s)
             g == Along(v, t)
  <1>1. /\ DOMAIN s = D /\ IsFiniteSet(D)
        /\ \A k \in D : f[k] = w[s[k]] /\ f[k] \in Int
        /\ Total(w, s) = SumFunctionOnSet(f, D)
    BY TotalAlong
  <1>2. /\ \A k \in Positions(Len(t)) : g[k] = v[t[k]]
        /\ Total(v, t) = SumFunctionOnSet(g, Positions(Len(t)))
    BY TotalAlong
  <1>3. D = Positions(Len(t))
    BY DEF Opposite
  <1> HIDE DEF D, f, g
  <1>4. /\ \A k \in D : g[k] = v[t[k]]
        /\ Total(v, t) = SumFunctionOnSet(g, D)
    BY <1>2, <1>3, Zenon
  <1>5. \A k \in D : f[k] \in Int /\ g[k] = -f[k]
    BY <1>1, <1>4 DEF Opposite
  <1>6. SumFunctionOnSet(g, D) = -SumFunctionOnSet(f, D)
    BY <1>1, <1>5, SumNegated
  <1>7. SumFunctionOnSet(f, D) \in Int
    BY <1>1, SumType
  <1> QED BY <1>1, <1>4, <1>6, <1>7

LEMMA TotalOfNone == ASSUME NEW w PROVE Total(w, <<>>) = 0
  <1>1. DOMAIN Along(w, <<>>) = {}
    BY DEF Along
  <1> QED BY <1>1, SumOverNothing DEF Total, SumFunction

LEMMA TotalConcat ==
  ASSUME NEW S, NEW s \in Seq(S), NEW t \in Seq(S), NEW w \in [S -> Int]
  PROVE  Total(w, s \o t) = Total(w, s) + Total(w, t)
  <1> DEFINE m == Len(s)
             n == Len(t)
             u == s \o t
             f == Along(w, s)
             g == Along(w, t)
             h == Along(w, u)
  <1>1. m \in Nat /\ n \in Nat
    OBVIOUS
  <1>2. u \in Seq(S) /\ Len(u) = m + n
        /\ \A i \in 1..(m + n) : u[i] = IF i <= m THEN s[i] ELSE t[i - m]
    BY ConcatProperties
  <1>3. /\ \A k \in 1..m : f[k] = w[s[k]] /\ f[k] \in Int
        /\ Total(w, s) = SumFunctionOnSet(f, 1..m)
    BY AlongType
  <1>4. /\ \A k \in 1..n : g[k] = w[t[k]] /\ g[k] \in Int
        /\ Total(w, t) = SumFunctionOnSet(g, 1..n)
    BY AlongType
  <1> HIDE DEF u
  <1>5. /\ \A k \in 1..(m + n) : h[k] = w[u[k]]
        /\ Total(w, u) = SumFunctionOnSet(h, 1..(m + n))
    <2>1. /\ \A k \in 1..Len(u) : h[k] = w[u[k]]
          /\ Total(w, u) = SumFunctionOnSet(h, 1..Len(u))
      BY <1>2, AlongType
    <2>2. 1..Len(u) = 1..(m + n)
      BY <1>2
    <2> HIDE DEF h, m, n
    <2> QED BY <2>1, <2>2, Zenon
  <1> HIDE DEF m, n, f, g, h
  <1>6. \A k \in 1..m : f[k] \in Int /\ h[k] = f[k]
    <2> SUFFICES ASSUME NEW k \in 1..m PROVE f[k] \in Int /\ h[k] = f[k]
      OBVIOUS
    <2>1. k \in 1..(m + n) /\ k <= m
      BY <1>1
    <2> QED BY <1>2, <1>3, <1>5, <2>1
  <1>7. \A k \in 1..n : g[k] \in Int /\ h[m + k] = g[k]
    <2> SUFFICES ASSUME NEW k \in 1..n PROVE g[k] \in Int /\ h[m + k] = g[k]
      OBVIOUS
    <2>1. m + k \in 1..(m + n) /\ ~(m + k <= m) /\ (m + k) - m = k
      BY <1>1
    <2> QED BY <1>2, <1>4, <1>5, <2>1
  <1>8. SumFunctionOnSet(h, 1..(m + n)) = SumFunctionOnSet(f, 1..m) + SumFunctionOnSet(g, 1..n)
    <2>1. Joined(f, m, g, n, h)
      BY <1>6, <1>7 DEF Joined, Positions
    <2>2. SumFunctionOnSet(h, Positions(m + n))
            = SumFunctionOnSet(f, Positions(m)) + SumFunctionOnSet(g, Positions(n))
      BY <1>1, <2>1, SumConcat
    <2> QED BY <2>2, Zenon DEF Positions
  <1>9. Total(w, u) = Total(w, s) + Total(w, t)
    BY <1>3, <1>4, <1>5, <1>8
  <1> QED BY <1>9 DEF u

LEMMA TotalOfOne ==
  ASSUME NEW S, NEW x \in S, NEW w \in [S -> Int]
  PROVE  Total(w, <<x>>) = w[x]
  <1> DEFINE s == <<x>>
  <1>1. s \in Seq(S) /\ Len(s) = 1 /\ s[1] = x
    OBVIOUS
  <1> HIDE DEF s
  <1>2. /\ IsFiniteSet(1..1)
        /\ \A k \in 1..1 : Along(w, s)[k] = w[s[k]] /\ Along(w, s)[k] \in Int
        /\ Total(w, s) = SumFunctionOnSet(Along(w, s), 1..1)
    BY <1>1, AlongType
  <1>3. 1 \in 1..1 /\ \A k \in (1..1) \ {1} : Along(w, s)[k] = 0
    OBVIOUS
  <1>4. Along(w, s)[1] \in Int /\ Along(w, s)[1] = w[x]
    BY <1>1, <1>2, <1>3
  <1>5. SumFunctionOnSet(Along(w, s), 1..1) = Along(w, s)[1]
    BY <1>2, <1>3, <1>4, SumOfOne
  <1>6. Total(w, s) = w[x]
    BY <1>2, <1>4, <1>5
  <1> QED BY <1>6 DEF s

LEMMA TotalAppend ==
  ASSUME NEW S, NEW s \in Seq(S), NEW x \in S, NEW w \in [S -> Int]
  PROVE  Total(w, Append(s, x)) = Total(w, s) + w[x]
  <1>1. <<x>> \in Seq(S) /\ Append(s, x) = s \o <<x>>
    BY AppendIsConcat
  <1>2. Total(w, s \o <<x>>) = Total(w, s) + Total(w, <<x>>)
    BY <1>1, TotalConcat
  <1> QED BY <1>1, <1>2, TotalOfOne

LEMMA TotalOfTwo ==
  ASSUME NEW S, NEW x \in S, NEW y \in S, NEW w \in [S -> Int]
  PROVE  Total(w, <<x, y>>) = w[x] + w[y]
  <1>1. <<x>> \in Seq(S) /\ <<x, y>> = Append(<<x>>, y)
    OBVIOUS
  <1>2. Total(w, Append(<<x>>, y)) = Total(w, <<x>>) + w[y]
    BY <1>1, TotalAppend
  <1> QED BY <1>1, <1>2, TotalOfOne

\* The total of the first k elements.
TotalTo(w, s, k) == SumFunctionOnSet(Along(w, s), Positions(k))

LEMMA TotalToSteps ==
  ASSUME NEW S, NEW s \in Seq(S), NEW w \in [S -> Int]
  PROVE  /\ TotalTo(w, s, 0) = 0
         /\ TotalTo(w, s, Len(s)) = Total(w, s)
         /\ \A k \in Nat : k <= Len(s) => TotalTo(w, s, k) \in Int
         /\ \A k \in Nat : k < Len(s) => TotalTo(w, s, k + 1) = TotalTo(w, s, k) + w[s[k + 1]]
  <1> DEFINE n == Len(s)
             f == Along(w, s)
  <1>1. /\ n \in Nat
        /\ \A k \in Positions(n) : f[k] = w[s[k]] /\ f[k] \in Int
        /\ Total(w, s) = SumFunctionOnSet(f, Positions(n))
    BY TotalAlong
  <1> HIDE DEF n, f
  <1>2. Positions(0) = {}
    BY DEF Positions
  <1>3. ASSUME NEW k \in Nat, k <= n
        PROVE  /\ IsFiniteSet(Positions(k)) /\ Positions(k) \subseteq Positions(n)
               /\ SumFunctionOnSet(f, Positions(k)) \in Int
    <2>1. IsFiniteSet(Positions(k)) /\ Positions(k) \subseteq Positions(n)
      BY <1>1, <1>3, FS_Interval DEF Positions
    <2>2. \A x \in Positions(k) : f[x] \in Int
      BY <1>1, <2>1
    <2> QED BY <2>1, <2>2, SumType
  <1>4. ASSUME NEW k \in Nat, k < n
        PROVE  SumFunctionOnSet(f, Positions(k + 1)) = SumFunctionOnSet(f, Positions(k)) + w[s[k + 1]]
    <2>1. /\ Positions(k + 1) = Positions(k) \cup {k + 1} /\ k + 1 \notin Positions(k)
          /\ k + 1 \in Positions(n) /\ k <= n
      BY <1>1, <1>4 DEF Positions
    <2>2. IsFiniteSet(Positions(k)) /\ \A x \in Positions(k) \cup {k + 1} : f[x] \in Int
      BY <1>1, <1>3, <2>1
    <2>3. SumFunctionOnSet(f, Positions(k) \cup {k + 1}) = f[k + 1] + SumFunctionOnSet(f, Positions(k))
      BY <2>1, <2>2, SumAdd
    <2>4. SumFunctionOnSet(f, Positions(k)) \in Int /\ f[k + 1] \in Int /\ f[k + 1] = w[s[k + 1]]
      BY <1>1, <1>3, <2>1
    <2>5. SumFunctionOnSet(f, Positions(k + 1)) = f[k + 1] + SumFunctionOnSet(f, Positions(k))
      BY <2>1, <2>3, Zenon
    <2>6. \A x, y \in Int : x + y = y + x
      OBVIOUS
    <2> QED BY <2>4, <2>5, <2>6, Zenon
  <1>5. SumFunctionOnSet(f, Positions(0)) = 0
    BY <1>2, SumOverNothing
  <1> QED BY <1>1, <1>3, <1>4, <1>5 DEF TotalTo, n, f

LEMMA TotalToPart ==
  ASSUME NEW S, NEW s \in Seq(S), NEW w \in [S -> Nat]
  PROVE  \A k \in Nat : k <= Len(s) => TotalTo(w, s, k) \in Nat /\ TotalTo(w, s, k) <= Total(w, s)
  <1> DEFINE n == Len(s)
             f == Along(w, s)
  <1>1. w \in [S -> Int]
    OBVIOUS
  <1>2. /\ n \in Nat /\ IsFiniteSet(Positions(n))
        /\ \A k \in Positions(n) : s[k] \in S /\ f[k] = w[s[k]]
        /\ Total(w, s) = SumFunctionOnSet(f, Positions(n))
    BY <1>1, TotalAlong
  <1> HIDE DEF n, f
  <1>3. \A k \in Positions(n) : f[k] \in Nat
    BY <1>2
  <1>4. ASSUME NEW k \in Nat, k <= n
        PROVE  /\ SumFunctionOnSet(f, Positions(k)) \in Nat
               /\ SumFunctionOnSet(f, Positions(k)) <= Total(w, s)
    <2>1. IsFiniteSet(Positions(k)) /\ Positions(k) \subseteq Positions(n)
      BY <1>2, <1>4, FS_Interval DEF Positions
    <2>2. SumFunctionOnSet(f, Positions(k)) \in Nat
      <3>1. \A x \in Positions(k) : f[x] \in Nat
        BY <1>3, <2>1
      <3> QED BY <2>1, <3>1, SumNat
    <2>3. SumFunctionOnSet(f, Positions(k)) <= SumFunctionOnSet(f, Positions(n))
      BY <1>2, <1>3, <2>1, SumPart
    <2> QED BY <1>2, <2>2, <2>3
  <1> QED BY <1>4 DEF TotalTo, n, f

\* An element replaced by another.
Put(s, j, x) == [s EXCEPT ![j] = x]

LEMMA TotalChange ==
  ASSUME NEW S, NEW s \in Seq(S), NEW j, j \in Positions(Len(s)), NEW x \in S,
         NEW w \in [S -> Int]
  PROVE  /\ Put(s, j, x) \in Seq(S)
         /\ Len(Put(s, j, x)) = Len(s)
         /\ Total(w, Put(s, j, x)) = Total(w, s) + (w[x] - w[s[j]])
  <1> DEFINE t == Put(s, j, x)
             n == Len(s)
             f == Along(w, s)
             g == Along(w, t)
  <1>1. /\ t \in Seq(S) /\ Len(t) = n /\ n \in Nat /\ j \in 1..n
        /\ t[j] = x /\ \A k \in (1..n) \ {j} : t[k] = s[k]
    BY DEF Put, Positions
  <1> HIDE DEF t
  <1>2. /\ IsFiniteSet(1..n)
        /\ \A k \in 1..n : f[k] = w[s[k]] /\ f[k] \in Int
        /\ Total(w, s) = SumFunctionOnSet(f, 1..n)
    BY AlongType
  <1>3. /\ \A k \in 1..n : g[k] = w[t[k]] /\ g[k] \in Int
        /\ Total(w, t) = SumFunctionOnSet(g, 1..n)
    BY <1>1, AlongType
  <1> HIDE DEF f, g, n
  <1>4. \A k \in 1..n : f[k] \in Int /\ g[k] \in Int
    BY <1>2, <1>3
  <1>5. \A k \in (1..n) \ {j} : f[k] = g[k]
    BY <1>1, <1>2, <1>3
  <1>6. SumFunctionOnSet(g, 1..n) = SumFunctionOnSet(f, 1..n) + (g[j] - f[j])
    <2> DEFINE D == 1..n
    <2>1. /\ IsFiniteSet(D) /\ j \in D
          /\ \A k \in D : f[k] \in Int /\ g[k] \in Int
          /\ \A k \in D \ {j} : f[k] = g[k]
      BY <1>1, <1>2, <1>4, <1>5
    <2> HIDE DEF D
    <2>2. SumFunctionOnSet(g, D) = SumFunctionOnSet(f, D) + (g[j] - f[j])
      BY <2>1, SumChange
    <2> QED BY <2>2 DEF D
  <1>7. Total(w, t) = Total(w, s) + (w[x] - w[s[j]])
    BY <1>1, <1>2, <1>3, <1>6
  <1>8. Len(t) = Len(s)
    BY <1>1 DEF n
  <1> QED BY <1>1, <1>7, <1>8 DEF t

-------------------------------------------------------------------------------
(* Folding a sequence: FoldLeft takes the last position first.             *)

LEMMA LargestIn == ASSUME NEW n \in Nat, NEW s \in SUBSET Positions(n), s # {} PROVE Max(s) \in s
  <1> DEFINE U == {u \in Nat : \A x \in s : x <= u}
  <1>1. n \in U
    BY DEF Positions
  <1>2. PICK m \in U : \A u \in U : m <= u
    BY <1>1, LeastNumber
  <1>3. m \in s
    <2> SUFFICES ASSUME m \notin s PROVE FALSE
      OBVIOUS
    <2>1. PICK x \in s : TRUE
      OBVIOUS
    <2>2. m - 1 \in U
      BY DEF Positions
    <2> QED BY <1>2, <2>2
  <1>4. \A y \in s : m >= y
    OBVIOUS
  <1> QED BY <1>3, <1>4 DEF Max

LEMMA LargestOfPrefix == ASSUME NEW n \in Nat PROVE Max(Positions(n + 1)) = n + 1
  <1>1. n + 1 \in Positions(n + 1) /\ \A y \in Positions(n + 1) : n + 1 >= y
    BY DEF Positions
  <1>2. Max(Positions(n + 1)) \in Positions(n + 1) /\ \A y \in Positions(n + 1) : Max(Positions(n + 1)) >= y
    BY <1>1 DEF Max
  <1>3. Max(Positions(n + 1)) >= n + 1
    BY <1>2 DEF Positions
  <1> QED BY <1>2, <1>3 DEF Positions

\* What a fold makes of the positions s: step takes what was made of all but the
\* last of them, and the last.
Folded(step, base, g, s) == IF s = {} THEN base ELSE step[<<g[s \ {Max(s)}], Max(s)>>]
IsFold(g, step, base, D) == g = [s \in D |-> Folded(step, base, g, s)]

LEMMA FoldExists ==
  ASSUME NEW n \in Nat, NEW step, NEW base
  PROVE  \E g : IsFold(g, step, base, SUBSET Positions(n))
  <1> DEFINE S == Positions(n)
             T == {k \in Nat : \E g : IsFold(g, step, base, UpTo(S, k))}
  <1>0. IsFiniteSet(S) /\ \A s \in SUBSET S : s # {} => Max(s) \in s
    <2>1. IsFiniteSet(S)
      BY FS_Interval DEF Positions
    <2>2. \A s \in SUBSET S : s # {} => Max(s) \in s
      BY LargestIn
    <2> QED BY <2>1, <2>2
  <1> HIDE DEF S
  <1>1. 0 \in T
    <2> DEFINE g == [s \in UpTo(S, 0) |-> base]
    <2>1. \A s \in UpTo(S, 0) : Folded(step, base, g, s) = base
      BY <1>0, OnlyEmpty DEF Folded
    <2>2. g = [s \in UpTo(S, 0) |-> Folded(step, base, g, s)]
      BY <2>1
    <2> QED BY <2>2 DEF IsFold
  <1>2. ASSUME NEW k \in Nat, k \in T PROVE k + 1 \in T
    <2>1. PICK g : IsFold(g, step, base, UpTo(S, k))
      BY <1>2
    <2> DEFINE h == [s \in UpTo(S, k + 1) |-> Folded(step, base, g, s)]
    <2>2. UpTo(S, k) \subseteq UpTo(S, k + 1)
      <3>1. ASSUME NEW s \in SUBSET S, Cardinality(s) <= k PROVE Cardinality(s) <= k + 1
        BY <1>0, <3>1, FS_Subset, FS_CardinalityType
      <3> QED BY <3>1 DEF UpTo
    <2>3. \A s \in UpTo(S, k) : h[s] = g[s]
      BY <2>1, <2>2 DEF IsFold
    <2>4. ASSUME NEW s \in UpTo(S, k + 1) PROVE h[s] = Folded(step, base, h, s)
      <3>1. CASE s = {}
        BY <3>1 DEF Folded
      <3>2. CASE s # {}
        <4>1. Max(s) \in s
          BY <1>0, <3>2 DEF UpTo
        <4>2. h[s \ {Max(s)}] = g[s \ {Max(s)}]
          BY <1>0, <2>3, <4>1, Smaller
        <4>3. Folded(step, base, g, s) = Folded(step, base, h, s)
          <5> HIDE DEF h
          <5> QED BY <4>2 DEF Folded
        <4> QED BY <4>3
      <3> QED BY <3>1, <3>2
    <2>5. h = [s \in UpTo(S, k + 1) |-> h[s]]
      OBVIOUS
    <2>6. IsFold(h, step, base, UpTo(S, k + 1))
      <3> HIDE DEF h
      <3> QED BY <2>4, <2>5 DEF IsFold
    <2>7. k + 1 \in Nat /\ \E f : IsFold(f, step, base, UpTo(S, k + 1))
      <3> HIDE DEF h
      <3> QED BY <2>6
    <2> QED BY <2>7
  <1>3. \A k \in Nat : k \in T
    <2> HIDE DEF T
    <2> QED BY <1>1, <1>2, Induction
  <1>4. \E g : IsFold(g, step, base, UpTo(S, Cardinality(S)))
    BY <1>0, <1>3, WholeSet, Zenon
  <1>5. \E g : IsFold(g, step, base, SUBSET S)
    <2>1. UpTo(S, Cardinality(S)) = SUBSET S
      BY <1>0, WholeSet
    <2> QED BY <1>4, <2>1, Zenon
  <1> QED BY <1>5 DEF S

FoldSteps(V, n) == [V \X Positions(n) -> V]

\* When each step stays within V, so does the whole fold, and any part of it.
LEMMA FoldType ==
  ASSUME NEW n \in Nat, NEW V, NEW base, base \in V, NEW step, step \in FoldSteps(V, n),
         NEW g, IsFold(g, step, base, SUBSET Positions(n))
  PROVE  \A s \in SUBSET Positions(n) : g[s] \in V
  <1> DEFINE S == Positions(n)
             W == {s \in SUBSET S : g[s] \in V}
  <1>0. IsFiniteSet(S) /\ \A s \in SUBSET S : s # {} => Max(s) \in s
    <2>1. IsFiniteSet(S)
      BY FS_Interval DEF Positions
    <2>2. \A s \in SUBSET S : s # {} => Max(s) \in s
      BY LargestIn
    <2> QED BY <2>1, <2>2
  <1>1. \A s \in SUBSET S : g[s] = Folded(step, base, g, s)
    BY DEF IsFold
  <1> HIDE DEF S
  <1>2. {} \in W
    BY <1>1 DEF Folded
  <1>3. ASSUME NEW s \in SUBSET S, s # {}, \A x \in s : s \ {x} \in W PROVE s \in W
    <2>1. Max(s) \in s /\ g[s \ {Max(s)}] \in V
      BY <1>0, <1>3
    <2>2. step[<<g[s \ {Max(s)}], Max(s)>>] \in V
      BY <2>1 DEF S, FoldSteps
    <2> QED BY <1>1, <1>3, <2>2 DEF Folded
  <1>4. SUBSET S \subseteq W
    <2> HIDE DEF W
    <2> QED BY <1>0, <1>2, <1>3, SubsetInduction
  <1> QED BY <1>4 DEF S

\* There is one such fold only.
FoldsAlike(h, step, base, V, n) ==
  /\ h[{}] = base
  /\ \A s \in SUBSET Positions(n) : s # {} /\ h[s \ {Max(s)}] \in V
                              => h[s] = step[<<h[s \ {Max(s)}], Max(s)>>]

LEMMA FoldUnique ==
  ASSUME NEW n \in Nat, NEW V, NEW base, base \in V, NEW step, step \in FoldSteps(V, n),
         NEW g, IsFold(g, step, base, SUBSET Positions(n)),
         NEW h, FoldsAlike(h, step, base, V, n)
  PROVE  \A s \in SUBSET Positions(n) : h[s] = g[s]
  <1> DEFINE S == Positions(n)
             W == {s \in SUBSET S : h[s] = g[s]}
  <1>0. IsFiniteSet(S) /\ \A s \in SUBSET S : s # {} => Max(s) \in s
    <2>1. IsFiniteSet(S)
      BY FS_Interval DEF Positions
    <2>2. \A s \in SUBSET S : s # {} => Max(s) \in s
      BY LargestIn
    <2> QED BY <2>1, <2>2
  <1>1. \A s \in SUBSET S : g[s] = Folded(step, base, g, s)
    BY DEF IsFold
  <1>2. \A s \in SUBSET S : g[s] \in V
    BY FoldType
  <1> HIDE DEF S
  <1>3. {} \in W
    BY <1>1 DEF Folded, FoldsAlike
  <1>4. ASSUME NEW s \in SUBSET S, s # {}, \A x \in s : s \ {x} \in W PROVE s \in W
    <2>1. h[s \ {Max(s)}] = g[s \ {Max(s)}] /\ g[s \ {Max(s)}] \in V
      BY <1>0, <1>2, <1>4
    <2>2. h[s] = step[<<h[s \ {Max(s)}], Max(s)>>]
      BY <1>4, <2>1 DEF S, FoldsAlike
    <2>3. g[s] = step[<<g[s \ {Max(s)}], Max(s)>>]
      BY <1>1, <1>4 DEF Folded
    <2> QED BY <2>1, <2>2, <2>3
  <1>5. SUBSET S \subseteq W
    <2> HIDE DEF W
    <2> QED BY <1>0, <1>3, <1>4, SubsetInduction
  <1> QED BY <1>5 DEF S

\* The positions up to k, folded.
LEMMA FoldPrefix ==
  ASSUME NEW n \in Nat, NEW step, NEW base, NEW g, IsFold(g, step, base, SUBSET Positions(n))
  PROVE  /\ g[Positions(0)] = base
         /\ \A k \in Nat : k < n => g[Positions(k + 1)] = step[<<g[Positions(k)], k + 1>>]
  <1>1. g[Positions(0)] = base
    <2>1. Positions(0) = {} /\ {} \in SUBSET Positions(n)
      BY DEF Positions
    <2> QED BY <2>1 DEF IsFold, Folded
  <1>2. ASSUME NEW k \in Nat, k < n PROVE g[Positions(k + 1)] = step[<<g[Positions(k)], k + 1>>]
    <2>1. /\ Positions(k + 1) \in SUBSET Positions(n) /\ Positions(k + 1) # {}
          /\ Positions(k + 1) \ {k + 1} = Positions(k)
      BY <1>2 DEF Positions
    <2>2. Max(Positions(k + 1)) = k + 1
      BY LargestOfPrefix
    <2>3. g[Positions(k + 1)] = Folded(step, base, g, Positions(k + 1))
      BY <2>1 DEF IsFold
    <2> QED BY <2>1, <2>2, <2>3 DEF Folded
  <1> QED BY <1>1, <1>2

Runs(h, step, base, n) ==
    /\ h[Positions(0)] = base
    /\ \A k \in Nat : k < n => h[Positions(k + 1)] = step[<<h[Positions(k)], k + 1>>]

LEMMA FoldRuns ==
  ASSUME NEW n \in Nat, NEW V, NEW base, base \in V, NEW step, step \in FoldSteps(V, n),
         NEW g, IsFold(g, step, base, SUBSET Positions(n)),
         NEW h, FoldsAlike(h, step, base, V, n)
  PROVE  Runs(h, step, base, n)
  <1>1. \A s \in SUBSET Positions(n) : h[s] = g[s]
    BY FoldUnique
  <1>2. /\ g[Positions(0)] = base
        /\ \A k \in Nat : k < n => g[Positions(k + 1)] = step[<<g[Positions(k)], k + 1>>]
    BY FoldPrefix
  <1>3. Positions(0) \in SUBSET Positions(n)
        /\ \A k \in Nat : k < n => Positions(k) \in SUBSET Positions(n) /\ Positions(k + 1) \in SUBSET Positions(n)
    BY DEF Positions
  <1>4. h[Positions(0)] = g[Positions(0)]
    BY <1>1, <1>3
  <1>5. \A k \in Nat : k < n => h[Positions(k)] = g[Positions(k)] /\ h[Positions(k + 1)] = g[Positions(k + 1)]
    BY <1>1, <1>3
  <1> QED BY <1>2, <1>4, <1>5, Zenon DEF Runs

-------------------------------------------------------------------------------
(* Sequences put one after the other *)

IsFlat(f, seqs, n) ==
    f = [i \in 1..n |-> IF i = 1 THEN seqs[i] ELSE f[i - 1] \o seqs[i]]

LEMMA FlatExists ==
  ASSUME NEW seqs
  PROVE  \A n \in Nat : \E f : IsFlat(f, seqs, n)
  <1> DEFINE T == {n \in Nat : \E f : IsFlat(f, seqs, n)}
  <1>1. 0 \in T
    <2> DEFINE f == [i \in 1..0 |-> {}]
    <2>1. f = [i \in 1..0 |-> IF i = 1 THEN seqs[i] ELSE f[i - 1] \o seqs[i]]
      <3>1. 1..0 = {}
        OBVIOUS
      <3> QED BY <3>1
    <2>2. IsFlat(f, seqs, 0)
      <3> HIDE DEF f
      <3> QED BY <2>1 DEF IsFlat
    <2> QED BY <2>2
  <1>2. ASSUME NEW n \in Nat, n \in T PROVE n + 1 \in T
    <2>1. PICK f : IsFlat(f, seqs, n)
      BY <1>2
    <2> DEFINE h == [i \in 1..(n + 1) |-> IF i = 1 THEN seqs[i] ELSE f[i - 1] \o seqs[i]]
    <2>2. \A i \in 1..n : h[i] = f[i]
      <3> SUFFICES ASSUME NEW i \in 1..n PROVE h[i] = f[i]
        OBVIOUS
      <3>1. i \in 1..(n + 1)
        OBVIOUS
      <3>2. h[i] = IF i = 1 THEN seqs[i] ELSE f[i - 1] \o seqs[i]
        BY <3>1
      <3>3. f[i] = IF i = 1 THEN seqs[i] ELSE f[i - 1] \o seqs[i]
        BY <2>1 DEF IsFlat
      <3> QED BY <3>2, <3>3
    <2>3. ASSUME NEW i \in 1..(n + 1)
          PROVE  h[i] = IF i = 1 THEN seqs[i] ELSE h[i - 1] \o seqs[i]
      <3>1. i # 1 => h[i - 1] = f[i - 1]
        <4>1. i # 1 => i - 1 \in 1..n
          OBVIOUS
        <4> HIDE DEF h
        <4> QED BY <2>2, <4>1
      <3>2. h[i] = IF i = 1 THEN seqs[i] ELSE f[i - 1] \o seqs[i]
        OBVIOUS
      <3> HIDE DEF h
      <3> QED BY <3>1, <3>2
    <2>4. h = [i \in 1..(n + 1) |-> h[i]]
      OBVIOUS
    <2>5. IsFlat(h, seqs, n + 1)
      <3> HIDE DEF h
      <3> QED BY <2>3, <2>4 DEF IsFlat
    <2>6. n + 1 \in Nat /\ \E k : IsFlat(k, seqs, n + 1)
      <3> HIDE DEF h
      <3> QED BY <2>5
    <2> QED BY <2>6
  <1> HIDE DEF T
  <1>3. \A n \in Nat : n \in T
    BY <1>1, <1>2, Induction
  <1> QED BY <1>3 DEF T

\* The first n of some sequences put together have their lengths added up.
LEMMA FlatPrefix ==
  ASSUME NEW S, NEW seqs \in Seq(Seq(S)), NEW f, IsFlat(f, seqs, Len(seqs)),
         NEW lens, \A k \in 1..Len(seqs) : lens[k] = Len(seqs[k])
  PROVE  \A n \in Nat : n \in 1..Len(seqs) =>
           f[n] \in Seq(S) /\ Len(f[n]) = SumFunctionOnSet(lens, 1..n)
  <1> DEFINE Good(n) == n \in 1..Len(seqs) =>
                f[n] \in Seq(S) /\ Len(f[n]) = SumFunctionOnSet(lens, 1..n)
             T == {n \in Nat : Good(n)}
  <1>0. \A n \in 1..Len(seqs) : seqs[n] \in Seq(S) /\ lens[n] \in Int /\ lens[n] = Len(seqs[n])
    OBVIOUS
  <1>1. 0 \in T
    OBVIOUS
  <1>2. ASSUME NEW n \in Nat, n \in T PROVE n + 1 \in T
    <2>1. ASSUME n + 1 \in 1..Len(seqs)
          PROVE  f[n + 1] \in Seq(S) /\ Len(f[n + 1]) = SumFunctionOnSet(lens, 1..(n + 1))
      <3>0. IsFiniteSet(1..n) /\ Len(seqs) \in Nat
        BY FS_Interval
      <3>1. /\ IsFiniteSet(1..n) /\ n + 1 \notin 1..n /\ 1..(n + 1) = (1..n) \cup {n + 1}
            /\ 1..(n + 1) \subseteq 1..Len(seqs)
        BY <2>1, <3>0
      <3>2. \A x \in (1..n) \cup {n + 1} : lens[x] \in Int
        BY <1>0, <3>1
      <3>3. SumFunctionOnSet(lens, (1..n) \cup {n + 1}) = lens[n + 1] + SumFunctionOnSet(lens, 1..n)
        BY <3>1, <3>2, SumAdd
      <3>4. SumFunctionOnSet(lens, 1..(n + 1)) = lens[n + 1] + SumFunctionOnSet(lens, 1..n)
        BY <3>1, <3>3
      <3>5. CASE n = 0
        <4>1. f[n + 1] = seqs[n + 1] /\ 1..n = {}
          BY <2>1, <3>5 DEF IsFlat
        <4>2. SumFunctionOnSet(lens, 1..n) = 0
          BY <4>1, SumOverNothing
        <4> QED BY <1>0, <2>1, <3>4, <4>1, <4>2
      <3>6. CASE n # 0
        <4>0. n \in 1..Len(seqs) /\ n + 1 # 1 /\ (n + 1) - 1 = n
          BY <2>1, <3>6
        <4>1. n \in 1..Len(seqs) /\ f[n + 1] = f[n] \o seqs[n + 1]
          <5>1. f[n + 1] = IF n + 1 = 1 THEN seqs[n + 1] ELSE f[(n + 1) - 1] \o seqs[n + 1]
            BY <2>1, Zenon DEF IsFlat
          <5> QED BY <4>0, <5>1
        <4>2. f[n] \in Seq(S) /\ Len(f[n]) = SumFunctionOnSet(lens, 1..n)
          BY <1>2, <4>1
        <4>3. seqs[n + 1] \in Seq(S) /\ lens[n + 1] = Len(seqs[n + 1])
          BY <1>0, <2>1
        <4>4. f[n + 1] \in Seq(S) /\ Len(f[n + 1]) = Len(f[n]) + Len(seqs[n + 1])
          <5>1. /\ f[n] \o seqs[n + 1] \in Seq(S)
                /\ Len(f[n] \o seqs[n + 1]) = Len(f[n]) + Len(seqs[n + 1])
            BY <4>2, <4>3, ConcatProperties
          <5> QED BY <4>1, <5>1, Zenon
        <4>5. Len(f[n]) \in Nat /\ Len(seqs[n + 1]) \in Nat
          BY <4>2, <4>3
        <4> QED BY <3>4, <4>2, <4>3, <4>4, <4>5
      <3> QED BY <3>5, <3>6
    <2>2. n + 1 \in Nat
      OBVIOUS
    <2> QED BY <2>1, <2>2
  <1> HIDE DEF T
  <1>3. \A n \in Nat : n \in T
    BY <1>1, <1>2, Induction
  <1> QED BY <1>3 DEF T

LEMMA FlattenedSeq ==
  ASSUME NEW S, NEW seqs \in Seq(Seq(S)),
         NEW lens, \A k \in 1..Len(seqs) : lens[k] = Len(seqs[k])
  PROVE  /\ FlattenSeq(seqs) \in Seq(S)
         /\ Len(FlattenSeq(seqs)) = SumFunctionOnSet(lens, 1..Len(seqs))
  <1>1. CASE Len(seqs) = 0
    <2>1. seqs = <<>> /\ FlattenSeq(seqs) = <<>> /\ 1..Len(seqs) = {}
      BY <1>1 DEF FlattenSeq
    <2>2. SumFunctionOnSet(lens, 1..Len(seqs)) = 0
      BY <2>1, SumOverNothing
    <2>3. <<>> \in Seq(S) /\ Len(<<>>) = 0
      OBVIOUS
    <2> QED BY <2>1, <2>2, <2>3, Zenon
  <1>2. CASE Len(seqs) # 0
    <2>1. FlattenSeq(seqs) = (CHOOSE f : IsFlat(f, seqs, Len(seqs)))[Len(seqs)]
      BY <1>2 DEF FlattenSeq, IsFlat
    <2>2. PICK f : IsFlat(f, seqs, Len(seqs)) /\ FlattenSeq(seqs) = f[Len(seqs)]
      <3>1. \E f : IsFlat(f, seqs, Len(seqs))
        <4>1. Len(seqs) \in Nat
          OBVIOUS
        <4> QED BY <4>1, FlatExists, Zenon
      <3> QED BY <2>1, <3>1
    <2>3. Len(seqs) \in Nat /\ Len(seqs) \in 1..Len(seqs)
      BY <1>2
    <2> QED BY <2>2, <2>3, FlatPrefix
  <1> QED BY <1>1, <1>2

-------------------------------------------------------------------------------
(* Folds that pick their elements in any order *)

PickStep(step, base, g, s) == IF s = {} THEN base ELSE step[<<Picked(s), g[s \ {Picked(s)}]>>]
IsPick(g, step, base, D) == g = [s \in D |-> PickStep(step, base, g, s)]

LEMMA PickExists ==
  ASSUME NEW S, IsFiniteSet(S), NEW step, NEW base
  PROVE  \E g : IsPick(g, step, base, SUBSET S)
  <1> DEFINE T == {n \in Nat : \E g : IsPick(g, step, base, UpTo(S, n))}
  <1>1. 0 \in T
    <2> DEFINE g == [s \in UpTo(S, 0) |-> base]
    <2>1. \A s \in UpTo(S, 0) : PickStep(step, base, g, s) = base
      BY OnlyEmpty DEF PickStep
    <2>2. g = [s \in UpTo(S, 0) |-> PickStep(step, base, g, s)]
      BY <2>1
    <2> QED BY <2>2 DEF IsPick
  <1>2. ASSUME NEW n \in Nat, n \in T PROVE n + 1 \in T
    <2>1. PICK g : IsPick(g, step, base, UpTo(S, n))
      BY <1>2
    <2> DEFINE h == [s \in UpTo(S, n + 1) |-> PickStep(step, base, g, s)]
    <2>2. UpTo(S, n) \subseteq UpTo(S, n + 1)
      <3>1. ASSUME NEW s \in SUBSET S, Cardinality(s) <= n PROVE Cardinality(s) <= n + 1
        BY <3>1, FS_Subset, FS_CardinalityType
      <3> QED BY <3>1 DEF UpTo
    <2>3. \A s \in UpTo(S, n) : h[s] = g[s]
      BY <2>1, <2>2 DEF IsPick
    <2>4. ASSUME NEW s \in UpTo(S, n + 1) PROVE h[s] = PickStep(step, base, h, s)
      <3>1. CASE s = {}
        BY <3>1 DEF PickStep
      <3>2. CASE s # {}
        <4>1. h[s \ {Picked(s)}] = g[s \ {Picked(s)}]
          BY <3>2, <2>3, PickedIn, Smaller
        <4>2. PickStep(step, base, g, s) = PickStep(step, base, h, s)
          <5> HIDE DEF h
          <5> QED BY <4>1 DEF PickStep
        <4> QED BY <4>2
      <3> QED BY <3>1, <3>2
    <2>5. h = [s \in UpTo(S, n + 1) |-> h[s]]
      OBVIOUS
    <2>6. h = [s \in UpTo(S, n + 1) |-> PickStep(step, base, h, s)]
      <3> HIDE DEF h
      <3> QED BY <2>4, <2>5
    <2>7. \E k : IsPick(k, step, base, UpTo(S, n + 1))
      <3> HIDE DEF h
      <3> QED BY <2>6, Zenon DEF IsPick
    <2>8. n + 1 \in Nat
      OBVIOUS
    <2> HIDE DEF h
    <2> QED BY <2>7, <2>8, Zenon
  <1>3. \A n \in Nat : n \in T
    <2> HIDE DEF T
    <2> QED BY <1>1, <1>2, Induction
  <1>4. \E g : IsPick(g, step, base, UpTo(S, Cardinality(S)))
    BY <1>3, WholeSet, Zenon
  <1> QED BY <1>4, WholeSet

\* When each step stays within V, so does every part of the fold.
PickSteps(S, V) == [S \X V -> V]
PicksIn(g, step, base, S, V) ==
    g \in [SUBSET S -> V] /\ \A s \in SUBSET S : g[s] = PickStep(step, base, g, s)

LEMMA PickTyped ==
  ASSUME NEW S, IsFiniteSet(S), NEW V, NEW base, base \in V, NEW step, step \in PickSteps(S, V)
  PROVE  \E g : PicksIn(g, step, base, S, V)
  <1>1. PICK g : IsPick(g, step, base, SUBSET S)
    BY PickExists
  <1>2. \A s \in SUBSET S : g[s] = PickStep(step, base, g, s)
    BY <1>1 DEF IsPick
  <1> DEFINE W == {s \in SUBSET S : g[s] \in V}
  <1>3. {} \in W
    BY <1>2 DEF PickStep
  <1>4. ASSUME NEW s \in SUBSET S, s # {}, \A x \in s : s \ {x} \in W PROVE s \in W
    <2>1. Picked(s) \in s /\ s \ {Picked(s)} \in W
      BY <1>4, PickedIn
    <2>2. g[s] = step[<<Picked(s), g[s \ {Picked(s)}]>>]
      BY <1>2, <1>4 DEF PickStep
    <2>3. <<Picked(s), g[s \ {Picked(s)}]>> \in S \X V
      BY <2>1
    <2>4. g[s] \in V
      BY <2>2, <2>3 DEF PickSteps
    <2> QED BY <2>4
  <1>5. SUBSET S \subseteq W
    <2> HIDE DEF W
    <2> QED BY <1>3, <1>4, SubsetInduction
  <1>6. g = [s \in SUBSET S |-> g[s]]
    BY <1>1, Zenon DEF IsPick
  <1>7. g \in [SUBSET S -> V]
    BY <1>5, <1>6
  <1> QED BY <1>2, <1>7 DEF PicksIn

-------------------------------------------------------------------------------
(* Products *)

ProductStep(g, s) == IF s = {} THEN 1 ELSE Picked(s) * g[s \ {Picked(s)}]
IsProduct(g, D) == g = [s \in D |-> ProductStep(g, s)]

LEMMA ProductExists ==
  ASSUME NEW S, IsFiniteSet(S), S \subseteq Int
  PROVE  \E g \in [SUBSET S -> Int] : IsProduct(g, SUBSET S)
  <1> DEFINE step == [p \in S \X Int |-> p[1] * p[2]]
  <1>1. step \in PickSteps(S, Int) /\ 1 \in Int
    <2>1. \A p \in S \X Int : p[1] \in Int /\ p[2] \in Int
      OBVIOUS
    <2>2. \A p \in S \X Int : p[1] * p[2] \in Int
      BY <2>1
    <2> QED BY <2>2 DEF PickSteps
  <1>2. \A x \in S, v \in Int : step[<<x, v>>] = x * v
    OBVIOUS
  <1> HIDE DEF step
  <1>3. PICK g : PicksIn(g, step, 1, S, Int)
    BY <1>1, PickTyped
  <1> USE <1>3 DEF PicksIn
  <1>4. ASSUME NEW s \in SUBSET S PROVE g[s] = ProductStep(g, s)
    <2>1. CASE s = {}
      BY <1>3, <2>1 DEF PickStep, ProductStep
    <2>2. CASE s # {}
      <3>1. Picked(s) \in S /\ g[s \ {Picked(s)}] \in Int
        BY <2>2, PickedIn
      <3>2. g[s] = step[<<Picked(s), g[s \ {Picked(s)}]>>]
        BY <1>3, <2>2 DEF PickStep
      <3>3. g[s] = Picked(s) * g[s \ {Picked(s)}]
        BY <1>2, <3>1, <3>2
      <3> QED BY <2>2, <3>3 DEF ProductStep
    <2> QED BY <2>1, <2>2
  <1>5. g = [s \in SUBSET S |-> ProductStep(g, s)]
    <2>1. g = [s \in SUBSET S |-> g[s]]
      OBVIOUS
    <2> QED BY <1>4, <2>1
  <1> QED BY <1>5 DEF IsProduct

\* A product is an integer, and any element may be taken out of it first.
LEMMA ProductOf ==
  ASSUME NEW S, IsFiniteSet(S), S \subseteq Int
  PROVE  /\ ProductSet(S) \in Int
         /\ S = {} => ProductSet(S) = 1
         /\ S # {} => ProductSet(S) = Picked(S) * ProductSet(S \ {Picked(S)})
  <1>1. PICK g \in [SUBSET S -> Int] : IsProduct(g, SUBSET S)
    BY ProductExists
  <1>2. ASSUME NEW T \in SUBSET S PROVE ProductSet(T) = g[T]
    <2>1. IsFiniteSet(T) /\ T \subseteq Int
      BY FS_Subset
    <2>2. ProductSet(T) = (CHOOSE h : IsProduct(h, SUBSET T))[T]
      BY DEF ProductSet, FoldSet, MapThenFoldSet, IsProduct, ProductStep, Picked
    <2>3. \E h : IsProduct(h, SUBSET T)
      BY <2>1, ProductExists
    <2>4. PICK h : IsProduct(h, SUBSET T) /\ ProductSet(T) = h[T]
      BY <2>2, <2>3
    <2> DEFINE W == {s \in SUBSET T : h[s] = g[s]}
    <2>5. \A s \in SUBSET T : h[s] = ProductStep(h, s)
      BY <2>4 DEF IsProduct
    <2>6. \A s \in SUBSET T : g[s] = ProductStep(g, s)
      <3>1. \A s \in SUBSET S : g[s] = ProductStep(g, s)
        BY <1>1, Zenon DEF IsProduct
      <3> QED BY <3>1
    <2>7. {} \in W
      BY <2>5, <2>6 DEF ProductStep
    <2>8. ASSUME NEW s \in SUBSET T, s # {}, \A x \in s : s \ {x} \in W PROVE s \in W
      <3>1. h[s \ {Picked(s)}] = g[s \ {Picked(s)}]
        BY <2>8, PickedIn
      <3>2. h[s] = Picked(s) * h[s \ {Picked(s)}] /\ g[s] = Picked(s) * g[s \ {Picked(s)}]
        BY <2>5, <2>6, <2>8 DEF ProductStep
      <3>3. h[s] = g[s]
        BY <3>1, <3>2, Zenon
      <3> QED BY <3>3
    <2>9. SUBSET T \subseteq W
      <3> HIDE DEF W
      <3> QED BY <2>7, <2>8, <2>1, SubsetInduction
    <2> QED BY <2>4, <2>9
  <1>3. ProductSet(S) = g[S] /\ g[S] = ProductStep(g, S) /\ g[S] \in Int
    <2>1. S \in SUBSET S
      OBVIOUS
    <2>2. \A s \in SUBSET S : g[s] = ProductStep(g, s)
      BY <1>1, Zenon DEF IsProduct
    <2> QED BY <1>2, <2>1, <2>2
  <1>4. ASSUME S # {} PROVE ProductSet(S \ {Picked(S)}) = g[S \ {Picked(S)}]
    BY <1>2
  <1> QED BY <1>3, <1>4 DEF ProductStep

LEMMA ProductTake ==
  ASSUME NEW S, IsFiniteSet(S), S \subseteq Int, NEW e \in S
  PROVE  ProductSet(S) = e * ProductSet(S \ {e})
  <1> DEFINE Takes(s) == \A x \in s : ProductSet(s) = x * ProductSet(s \ {x})
             W == {s \in SUBSET S : Takes(s)}
  <1>1. {} \in W
    OBVIOUS
  <1>2. ASSUME NEW s \in SUBSET S, s # {}, \A x \in s : s \ {x} \in W PROVE s \in W
    <2>1. ASSUME NEW x \in s PROVE ProductSet(s) = x * ProductSet(s \ {x})
      <3> DEFINE p == Picked(s)
                 rest == ProductSet((s \ {p}) \ {x})
      <3>1. p \in s /\ IsFiniteSet(s) /\ s \subseteq Int
        BY <1>2, PickedIn, FS_Subset
      <3>2. ProductSet(s) = p * ProductSet(s \ {p})
        BY <1>2, <3>1, ProductOf
      <3> HIDE DEF p
      <3>3. CASE x = p
        BY <3>2, <3>3
      <3>4. CASE x # p
        <4>1. ProductSet(s \ {p}) = x * rest
          BY <1>2, <3>1, <3>4
        <4>2. ProductSet(s \ {x}) = p * ProductSet((s \ {x}) \ {p})
          BY <1>2, <3>1, <3>4
        <4>3. (s \ {x}) \ {p} = (s \ {p}) \ {x}
          OBVIOUS
        <4>4. IsFiniteSet((s \ {p}) \ {x}) /\ (s \ {p}) \ {x} \subseteq Int
          BY <3>1, FS_Subset
        <4>5. rest \in Int /\ p \in Int /\ x \in Int
          BY <3>1, <4>4, ProductOf
        <4>6. ProductSet(s \ {x}) = p * rest
          BY <4>2, <4>3
        <4> HIDE DEF rest
        <4>7. p * (x * rest) = x * (p * rest)
          BY <4>5
        <4> QED BY <3>2, <4>1, <4>6, <4>7, Zenon
      <3> QED BY <3>3, <3>4
    <2> QED BY <2>1
  <1>3. SUBSET S \subseteq W
    <2> HIDE DEF W
    <2> QED BY <1>1, <1>2, SubsetInduction
  <1> QED BY <1>3

LEMMA ProductAdd ==
  ASSUME NEW S, IsFiniteSet(S), S \subseteq Int, NEW e \in Int, e \notin S
  PROVE  ProductSet(S \cup {e}) = e * ProductSet(S)
  <1>1. IsFiniteSet(S \cup {e}) /\ S \cup {e} \subseteq Int /\ e \in S \cup {e}
    BY FS_AddElement
  <1>2. (S \cup {e}) \ {e} = S
    OBVIOUS
  <1>3. ProductSet(S \cup {e}) = e * ProductSet((S \cup {e}) \ {e})
    BY <1>1, ProductTake
  <1> QED BY <1>2, <1>3

LEMMA ProductPositive ==
  ASSUME NEW S, IsFiniteSet(S), S \subseteq Nat \ {0}
  PROVE  ProductSet(S) \in Nat \ {0}
  <1> DEFINE W == {s \in SUBSET S : ProductSet(s) \in Nat \ {0}}
  <1>1. {} \in W
    BY FS_EmptySet, ProductOf
  <1>2. ASSUME NEW s \in SUBSET S, s # {}, \A x \in s : s \ {x} \in W PROVE s \in W
    <2> DEFINE p == Picked(s)
               rest == ProductSet(s \ {p})
    <2>1. p \in s /\ IsFiniteSet(s) /\ s \subseteq Int
      <3>1. \A x \in Nat \ {0} : x \in Int
        OBVIOUS
      <3> QED BY <1>2, <3>1, PickedIn, FS_Subset
    <2>2. ProductSet(s) = p * rest
      BY <1>2, <2>1, ProductOf
    <2>3. rest \in Nat \ {0} /\ p \in Nat \ {0}
      BY <1>2, <2>1
    <2> HIDE DEF p, rest
    <2>4. ProductSet(s) \in Nat \ {0}
      BY <2>2, <2>3
    <2> QED BY <2>4
  <1>3. SUBSET S \subseteq W
    <2> HIDE DEF W
    <2> QED BY <1>1, <1>2, SubsetInduction
  <1> QED BY <1>3

-------------------------------------------------------------------------------
(* Subsets of a given size *)

Ways(k, S) == Cardinality(kSubset(k, S))

LEMMA WaysType ==
  ASSUME NEW S, IsFiniteSet(S), NEW k
  PROVE  IsFiniteSet(kSubset(k, S)) /\ Ways(k, S) \in Nat
  <1>1. IsFiniteSet(SUBSET S)
    BY FS_SUBSET
  <1>2. kSubset(k, S) \in SUBSET (SUBSET S)
    BY DEF kSubset
  <1> QED BY <1>1, <1>2, FS_Subset, FS_CardinalityType DEF Ways

LEMMA WaysAtEnds ==
  ASSUME NEW S, IsFiniteSet(S)
  PROVE  Ways(0, S) = 1 /\ \A k \in Nat : k > Cardinality(S) => kSubset(k, S) = {} /\ Ways(k, S) = 0
  <1>1. kSubset(0, S) = {{}}
    <2>1. \A s \in SUBSET S : Cardinality(s) = 0 <=> s = {}
      BY FS_Subset, FS_EmptySet
    <2> QED BY <2>1 DEF kSubset
  <1>2. ASSUME NEW k \in Nat, k > Cardinality(S) PROVE kSubset(k, S) = {}
    <2>1. Cardinality(S) \in Nat /\ \A s \in SUBSET S : Cardinality(s) <= Cardinality(S)
      BY FS_Subset, FS_CardinalityType
    <2>2. \A s \in SUBSET S : Cardinality(s) # k
      BY <1>2, <2>1
    <2> QED BY <2>2 DEF kSubset
  <1> QED BY <1>1, <1>2, FS_EmptySet, FS_Singleton DEF Ways

\* Those of one more element leave it out or have it in.
LEMMA WaysOfMore ==
  ASSUME NEW S, IsFiniteSet(S), NEW x, x \notin S, NEW k \in Nat
  PROVE  Ways(k + 1, S \cup {x}) = Ways(k + 1, S) + Ways(k, S)
  <1> DEFINE more == S \cup {x}
             A == kSubset(k, S)
             B == {s \in kSubset(k + 1, more) : x \in s}
             C == kSubset(k + 1, S)
             h == [s \in A |-> s \cup {x}]
  <1>1. IsFiniteSet(more)
    BY FS_AddElement
  <1>2. IsFiniteSet(A) /\ IsFiniteSet(C)
    BY WaysType
  <1>3. \A s \in SUBSET S : IsFiniteSet(s) /\ Cardinality(s) \in Nat
                            /\ Cardinality(s \cup {x}) = Cardinality(s) + 1
    <2> SUFFICES ASSUME NEW s \in SUBSET S
                 PROVE  IsFiniteSet(s) /\ Cardinality(s) \in Nat
                        /\ Cardinality(s \cup {x}) = Cardinality(s) + 1
      OBVIOUS
    <2> QED BY FS_Subset, FS_CardinalityType, FS_AddElement
  <1>4. \A s \in A : h[s] \in B
    <2> SUFFICES ASSUME NEW s \in A PROVE s \cup {x} \in B
      OBVIOUS
    <2>1. s \in SUBSET S /\ Cardinality(s) = k
      BY DEF kSubset
    <2>2. Cardinality(s \cup {x}) = k + 1 /\ s \cup {x} \in SUBSET more
      BY <1>3, <2>1
    <2> QED BY <2>2 DEF kSubset
  <1>5. \A r, s \in A : h[r] = h[s] => r = s
    <2> SUFFICES ASSUME NEW r \in A, NEW s \in A, r \cup {x} = s \cup {x} PROVE r = s
      OBVIOUS
    <2>1. x \notin r /\ x \notin s
      BY DEF kSubset
    <2> QED BY <2>1
  <1>6. \A t \in B : \E s \in A : h[s] = t
    <2> SUFFICES ASSUME NEW t \in B PROVE \E s \in A : s \cup {x} = t
      OBVIOUS
    <2> DEFINE s == t \ {x}
    <2>1. t \in SUBSET more /\ Cardinality(t) = k + 1 /\ x \in t
      BY DEF kSubset
    <2>2. s \in SUBSET S /\ s \cup {x} = t
      BY <2>1
    <2> HIDE DEF s
    <2>3. Cardinality(s) = k
      BY <1>3, <2>1, <2>2
    <2>4. s \in A
      BY <2>2, <2>3 DEF kSubset
    <2> QED BY <2>2, <2>4
  <1>7. h \in [A -> B]
    BY <1>4
  <1>8. IsFiniteSet(B) /\ Cardinality(B) = Cardinality(A)
    <2> HIDE DEF h, A, B
    <2> QED BY <1>2, <1>5, <1>6, <1>7, SizeRenamed
  <1>9. kSubset(k + 1, more) = C \cup B
    BY DEF kSubset
  <1>10. C \cap B = {}
    BY DEF kSubset
  <1>11. Cardinality(C \cup B) = Cardinality(C) + Cardinality(B)
    <2> HIDE DEF C, B
    <2>1. Cardinality(C \cup B) = Cardinality(C) + Cardinality(B) - Cardinality(C \cap B)
      BY <1>2, <1>8, FS_Union
    <2>2. Cardinality(C) \in Nat /\ Cardinality(B) \in Nat /\ Cardinality(C \cap B) = 0
      BY <1>2, <1>8, <1>10, FS_CardinalityType, FS_EmptySet
    <2> QED BY <2>1, <2>2
  <1> QED BY <1>8, <1>9, <1>11 DEF Ways

\* Each subset of size k is contained in one of size k + 1 for every element it
\* has not, and each of these contains k + 1 of size k.
WaysGrow(S) == \A k \in Nat :
    (k + 1) * Ways(k + 1, S) = (Cardinality(S) - k) * Ways(k, S)

LEMMA AlwaysWaysGrow == ASSUME NEW S, IsFiniteSet(S) PROVE WaysGrow(S)
  <1> DEFINE W == {s \in SUBSET S : WaysGrow(s)}
  <1>1. {} \in W
    <2>1. IsFiniteSet({}) /\ Cardinality({}) = 0
      BY FS_EmptySet
    <2>2. \A k \in Nat : k > 0 => Ways(k, {}) = 0
      BY <2>1, WaysAtEnds
    <2>3. ASSUME NEW k \in Nat PROVE (k + 1) * Ways(k + 1, {}) = (0 - k) * Ways(k, {})
      <3>1. Ways(k + 1, {}) = 0 /\ (k = 0 \/ Ways(k, {}) = 0)
        BY <2>2
      <3>2. Ways(k, {}) \in Nat
        BY <2>1, WaysType
      <3> QED BY <3>1, <3>2
    <2> QED BY <2>1, <2>3 DEF WaysGrow
  <1>2. ASSUME NEW s \in SUBSET S, s # {}, \A x \in s : s \ {x} \in W PROVE s \in W
    <2> DEFINE x == Picked(s)
               r == s \ {x}
               m == Cardinality(r)
    <2>1. x \in s /\ x \notin r /\ s = r \cup {x} /\ IsFiniteSet(s) /\ IsFiniteSet(r)
      BY <1>2, PickedIn, FS_Subset
    <2>2. m \in Nat /\ Cardinality(s) = m + 1
      BY <2>1, FS_CardinalityType, FS_AddElement
    <2>3. \A k \in Nat : (k + 1) * Ways(k + 1, r) = (m - k) * Ways(k, r)
      BY <1>2, <2>1 DEF WaysGrow
    <2> HIDE DEF x, r, m
    <2>4. \A k \in Nat : Ways(k + 1, s) = Ways(k + 1, r) + Ways(k, r)
      BY <2>1, WaysOfMore
    <2>5. \A k \in Nat : Ways(k, r) \in Nat
      BY <2>1, WaysType
    <2>6. ASSUME NEW k \in Nat
          PROVE  (k + 1) * Ways(k + 1, s) = ((m + 1) - k) * Ways(k, s)
      <3> DEFINE a == Ways(k + 1, r)
                 b == Ways(k, r)
      <3>1. a \in Nat /\ b \in Nat /\ (k + 1) * a = (m - k) * b /\ Ways(k + 1, s) = a + b
        BY <2>3, <2>4, <2>5
      <3>2. (k + 1) * Ways(k + 1, s) = (m + 1) * b
        <4> HIDE DEF a, b
        <4>1. (k + 1) * (a + b) = (k + 1) * a + (k + 1) * b
          BY <3>1
        <4>2. (m - k) * b + (k + 1) * b = (m + 1) * b
          BY <3>1, <2>2
        <4> QED BY <3>1, <4>1, <4>2
      <3>3. CASE k = 0
        <4>1. Ways(k, s) = 1 /\ b = 1
          BY <3>3, <2>1, WaysAtEnds
        <4> HIDE DEF b
        <4> QED BY <3>2, <3>3, <4>1, <2>2
      <3>4. CASE k # 0
        <4> DEFINE j == k - 1
                   c == Ways(j, r)
        <4>1. j \in Nat /\ k = j + 1
          BY <3>4
        <4>2. c \in Nat /\ k * b = (m - j) * c /\ Ways(k, s) = b + c
          BY <4>1, <2>3, <2>4, <2>5
        <4>3. (m + 1) - k = m - j /\ m - j \in Int
          BY <4>1, <2>2
        <4> HIDE DEF b, c, j
        <4>4. (m - j) * (b + c) = (m - j) * b + (m - j) * c
          BY <4>2, <4>3, <3>1
        <4>5. (m - j) * b + k * b = (m + 1) * b
          <5>1. (m - j) + k = m + 1
            BY <4>1, <2>2
          <5>2. (m - j) * b + k * b = ((m - j) + k) * b
            BY <4>3, <3>1
          <5> QED BY <5>1, <5>2
        <4> QED BY <3>2, <4>2, <4>3, <4>4, <4>5
      <3> QED BY <3>3, <3>4
    <2> QED BY <2>2, <2>6 DEF WaysGrow
  <1>3. SUBSET S \subseteq W
    <2> HIDE DEF W
    <2> QED BY <1>1, <1>2, SubsetInduction
  <1> QED BY <1>3

LEMMA WaysWithout ==
  ASSUME NEW S, IsFiniteSet(S), NEW x, x \notin S, NEW k \in Nat
  PROVE  ((Cardinality(S) + 1) - k) * Ways(k, S \cup {x}) = (Cardinality(S) + 1) * Ways(k, S)
  <1> DEFINE m == Cardinality(S)
             b == Ways(k, S)
             more == S \cup {x}
  <1>1. m \in Nat /\ b \in Nat /\ IsFiniteSet(more)
    BY FS_CardinalityType, WaysType, FS_AddElement
  <1>2. CASE k = 0
    <2>1. Ways(k, more) = 1 /\ b = 1
      BY <1>2, <1>1, WaysAtEnds
    <2> HIDE DEF m, b, more
    <2>2. ((m + 1) - k) * Ways(k, more) = (m + 1) * b
      BY <1>1, <1>2, <2>1
    <2> QED BY <2>2 DEF m, b, more
  <1>3. CASE k # 0
    <2> DEFINE j == k - 1
               c == Ways(j, S)
    <2>1. j \in Nat /\ k = j + 1
      BY <1>3
    <2>2. c \in Nat
      BY <2>1, WaysType
    <2>3. k * b = (m - j) * c
      BY <2>1, AlwaysWaysGrow DEF WaysGrow
    <2>4. Ways(k, more) = b + c
      BY <2>1, WaysOfMore
    <2>5. (m + 1) - k = m - j /\ m - j \in Int
      BY <2>1, <1>1
    <2> HIDE DEF m, b, c, j, more
    <2>6. (m - j) * (b + c) = (m - j) * b + (m - j) * c
      BY <2>2, <2>5, <1>1
    <2>7. (m - j) * b + k * b = (m + 1) * b
      <3>1. (m - j) + k = m + 1
        BY <2>1, <1>1
      <3>2. (m - j) * b + k * b = ((m - j) + k) * b
        BY <2>5, <1>1
      <3> QED BY <3>1, <3>2
    <2>8. ((m + 1) - k) * Ways(k, more) = (m + 1) * b
      BY <2>3, <2>4, <2>5, <2>6, <2>7
    <2> QED BY <2>8 DEF m, b, more
  <1> QED BY <1>2, <1>3

\* b numbers after a, and what they leave when k is taken from each.
Drawn(a, b) == (a + 1)..(a + b)
DrawnLess(a, b, k) == {i - k : i \in Drawn(a, b)}

LEMMA DrawnProducts ==
  ASSUME NEW a \in Nat, NEW b \in Nat, NEW k \in Nat
  PROVE  /\ ProductSet(Drawn(a, b)) \in Nat \ {0} /\ ProductSet(DrawnLess(a, b, k)) \in Int
         /\ ProductSet(Drawn(a, b + 1)) = (a + b + 1) * ProductSet(Drawn(a, b))
         /\ ProductSet(DrawnLess(a, b + 1, k)) = ((a + b + 1) - k) * ProductSet(DrawnLess(a, b, k))
         /\ b = 0 => ProductSet(Drawn(a, b)) = 1 /\ ProductSet(DrawnLess(a, b, k)) = 1
  <1> DEFINE D == Drawn(a, b)
             E == DrawnLess(a, b, k)
             e == a + b + 1
  <1>1. IsFiniteSet(D) /\ D \subseteq Nat \ {0} /\ D \subseteq Int
    <2>1. IsFiniteSet(D)
      BY FS_Interval DEF Drawn
    <2> QED BY <2>1 DEF Drawn
  <1>2. IsFiniteSet(E) /\ E \subseteq Int
    <2> DEFINE h == [i \in Int |-> i - k]
    <2>1. E = {h[i] : i \in D}
      BY <1>1 DEF DrawnLess
    <2>2. IsFiniteSet({h[i] : i \in D})
      <3> HIDE DEF h, D
      <3> QED BY <1>1, FiniteImage
    <2>3. E \subseteq Int
      BY DEF DrawnLess, Drawn
    <2> QED BY <2>1, <2>2, <2>3
  <1>3. e \in Int /\ e \notin D /\ Drawn(a, b + 1) = D \cup {e}
    BY DEF Drawn
  <1>4. e - k \in Int /\ e - k \notin E /\ DrawnLess(a, b + 1, k) = E \cup {e - k}
    <2>1. DrawnLess(a, b + 1, k) = E \cup {e - k}
      BY <1>3 DEF DrawnLess
    <2>2. ASSUME NEW i \in D PROVE i - k # e - k
      BY DEF Drawn
    <2>3. e - k \notin E
      BY <2>2 DEF DrawnLess
    <2> QED BY <2>1, <2>3
  <1>5. ProductSet(D) \in Nat \ {0} /\ ProductSet(E) \in Int
    <2> HIDE DEF D, E
    <2> QED BY <1>1, <1>2, ProductPositive, ProductOf
  <1>6. ProductSet(D \cup {e}) = e * ProductSet(D) /\ ProductSet(E \cup {e - k}) = (e - k) * ProductSet(E)
    <2> HIDE DEF D, E, e
    <2> QED BY <1>1, <1>2, <1>3, <1>4, ProductAdd
  <1>7. ASSUME b = 0 PROVE ProductSet(D) = 1 /\ ProductSet(E) = 1
    <2>1. D = {}
      BY <1>7 DEF Drawn
    <2>2. E = {}
      BY <2>1 DEF DrawnLess
    <2> HIDE DEF D, E
    <2> QED BY <1>1, <1>2, <2>1, <2>2, ProductOf
  <1> QED BY <1>3, <1>4, <1>5, <1>6, <1>7

\* Adding elements one at a time multiplies the ways by these quotients.
LEMMA WaysDrawn ==
  ASSUME NEW F, IsFiniteSet(F), NEW T, IsFiniteSet(T), F \cap T = {}, NEW k \in Nat
  PROVE  ProductSet(DrawnLess(Cardinality(F), Cardinality(T), k)) * Ways(k, F \cup T)
           = ProductSet(Drawn(Cardinality(F), Cardinality(T))) * Ways(k, F)
  <1> DEFINE a == Cardinality(F)
             Equal(s) == ProductSet(DrawnLess(a, Cardinality(s), k)) * Ways(k, F \cup s)
                           = ProductSet(Drawn(a, Cardinality(s))) * Ways(k, F)
             W == {s \in SUBSET T : Equal(s)}
  <1>1. a \in Nat /\ Ways(k, F) \in Nat
    BY FS_CardinalityType, WaysType
  <1>2. {} \in W
    <2>1. Cardinality({}) = 0 /\ F \cup {} = F
      BY FS_EmptySet
    <2>2. ProductSet(Drawn(a, 0)) = 1 /\ ProductSet(DrawnLess(a, 0, k)) = 1
      <3> HIDE DEF a
      <3>1. \A x \in Nat : ProductSet(Drawn(x, 0)) = 1 /\ ProductSet(DrawnLess(x, 0, k)) = 1
        BY DrawnProducts
      <3> QED BY <1>1, <3>1
    <2> HIDE DEF a
    <2>3. Equal({})
      BY <2>1, <2>2
    <2> QED BY <2>3
  <1>3. ASSUME NEW s \in SUBSET T, s # {}, \A x \in s : s \ {x} \in W PROVE s \in W
    <2> DEFINE x == Picked(s)
               r == s \ {x}
               b == Cardinality(r)
               all == ProductSet(Drawn(a, b))
               less == ProductSet(DrawnLess(a, b, k))
               w == Ways(k, F \cup r)
               v == Ways(k, F)
    <2>1. x \in s /\ x \notin r /\ s = r \cup {x} /\ IsFiniteSet(s) /\ IsFiniteSet(r)
      BY <1>3, PickedIn, FS_Subset
    <2>2. b \in Nat /\ Cardinality(s) = b + 1
      BY <2>1, FS_CardinalityType, FS_AddElement
    <2>3. less * w = all * v
      BY <1>3, <2>1
    <2>4. x \notin F \cup r /\ F \cup s = (F \cup r) \cup {x} /\ F \cap r = {}
      BY <2>1
    <2>5. IsFiniteSet(F \cup r) /\ Cardinality(F \cup r) = a + b
      <3>1. /\ IsFiniteSet(F \cup r)
            /\ Cardinality(F \cup r) = a + b - Cardinality(F \cap r)
        BY <2>1, FS_Union
      <3>2. Cardinality(F \cap r) = 0
        BY <2>4, FS_EmptySet
      <3> HIDE DEF a, b
      <3> QED BY <1>1, <2>2, <3>1, <3>2
    <2>6. ((a + b + 1) - k) * Ways(k, F \cup s) = (a + b + 1) * w
      <3>1. ((Cardinality(F \cup r) + 1) - k) * Ways(k, (F \cup r) \cup {x})
              = (Cardinality(F \cup r) + 1) * w
        BY <2>4, <2>5, WaysWithout
      <3> HIDE DEF a, b, w
      <3> QED BY <2>4, <2>5, <3>1
    <2>7. /\ all \in Nat /\ less \in Int
          /\ ProductSet(Drawn(a, b + 1)) = (a + b + 1) * all
          /\ ProductSet(DrawnLess(a, b + 1, k)) = ((a + b + 1) - k) * less
      <3> HIDE DEF a, b
      <3>1. \A i, j \in Nat :
              /\ ProductSet(Drawn(i, j)) \in Nat /\ ProductSet(DrawnLess(i, j, k)) \in Int
              /\ ProductSet(Drawn(i, j + 1)) = (i + j + 1) * ProductSet(Drawn(i, j))
              /\ ProductSet(DrawnLess(i, j + 1, k)) = ((i + j + 1) - k) * ProductSet(DrawnLess(i, j, k))
        BY DrawnProducts
      <3> QED BY <1>1, <2>2, <3>1
    <2>8. w \in Nat /\ Ways(k, F \cup s) \in Nat /\ v \in Nat
      <3>1. IsFiniteSet(F \cup s)
        BY <2>1, FS_Union
      <3> QED BY <2>5, <3>1, <1>1, WaysType
    <2>9. Equal(s)
      <3> DEFINE e == a + b + 1
                 u == Ways(k, F \cup s)
      <3> HIDE DEF u, w, v, all, less, a, b
      <3>1. e \in Nat /\ u \in Nat /\ (e - k) * u = e * w /\ e - k \in Int
        BY <1>1, <2>2, <2>6, <2>8 DEF u
      <3> HIDE DEF e
      <3>2. ((e - k) * less) * u = less * ((e - k) * u)
        BY <3>1, <2>7
      <3>3. less * (e * w) = e * (less * w) /\ e * (all * v) = (e * all) * v
        BY <3>1, <2>7, <2>8
      <3>4. ((e - k) * less) * u = (e * all) * v
        BY <3>1, <3>2, <3>3, <2>3, Zenon
      <3> QED BY <3>4, <2>2, <2>7, Zenon DEF e, u, v
    <2> QED BY <2>9
  <1>4. SUBSET T \subseteq W
    <2> HIDE DEF W
    <2> QED BY <1>2, <1>3, SubsetInduction
  <1>5. T \in W
    BY <1>4
  <1> QED BY <1>5

===============================================================================
