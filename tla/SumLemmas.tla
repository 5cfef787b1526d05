----------------------------- MODULE SumLemmas ------------------------------
(***************************************************************************)
(* Sums over finite sets, as the models write them: SumFunctionOnSet of    *)
(* the community module Functions.                                         *)
(*                                                                         *)
(* The operator is a recursive function on the subsets of its set.  Its    *)
(* equation and the properties of sums are shown by induction in the form  *)
(* of a least counterexample: among finitely many sets that violate the    *)
(* claim there is one without a violating proper subset.                   *)
(***************************************************************************)
EXTENDS Integers, FiniteSets, Functions, FiniteSetTheorems, TLAPS

(* A non-empty collection of subsets of a finite set has a minimal member.   *)
LEMMA MinimalSubset ==
  ASSUME NEW S, IsFiniteSet(S), NEW B \in SUBSET (SUBSET S), B # {}
  PROVE  \E m \in B : \A u \in B : u \subseteq m => u = m
<1>1. IsWellFoundedOn(StrictSubsetOrdering(S), FiniteSubsetsOf(S))
  BY FS_StrictSubsetOrderingWellFounded
<1>2. B \subseteq FiniteSubsetsOf(S)
  BY FS_Subset DEF FiniteSubsetsOf
<1>3. \E m \in B : \A u \in B : ~(<<u, m>> \in StrictSubsetOrdering(S))
  BY <1>1, <1>2, WFMin, Zenon
<1> QED
  BY <1>3 DEF StrictSubsetOrdering

-----------------------------------------------------------------------------
(***************************************************************************)
(* The recursive function.                                                 *)
(***************************************************************************)

Pick(s) == CHOOSE x \in s : TRUE

\* What the recursive function makes of its values on smaller sets.
StepOf(f, it, s) == IF s = {} THEN 0 ELSE f[Pick(s)] + it[s \ {Pick(s)}]

IsIter(f, S, it) == it = [s \in SUBSET S |-> StepOf(f, it, s)]

LEMMA PickOne == ASSUME NEW s, s # {} PROVE Pick(s) \in s
BY Zenon DEF Pick

LEMMA SumIsIter ==
  ASSUME NEW f, NEW S
  PROVE  SumFunctionOnSet(f, S) = (CHOOSE it : IsIter(f, S, it))[S]
BY Zenon DEF SumFunctionOnSet, FoldFunctionOnSet, MapThenFoldSet, IsIter, StepOf, Pick

LEMMA IterStep ==
  ASSUME NEW f, NEW S, NEW it, IsIter(f, S, it), NEW s \in SUBSET S
  PROVE  it[s] = StepOf(f, it, s)
BY DEF IsIter

(* Functions for two sets agree on the sets they share.                      *)
LEMMA IterAgree ==
  ASSUME NEW f, NEW S, NEW T, IsFiniteSet(S),
         NEW a, IsIter(f, S, a), NEW b, IsIter(f, T, b)
  PROVE  \A s \in SUBSET S : s \subseteq T => a[s] = b[s]
<1> DEFINE B == {s \in SUBSET S : s \subseteq T /\ a[s] # b[s]}
<1>1. SUFFICES ASSUME B # {} PROVE FALSE
  OBVIOUS
<1>2. PICK m \in B : \A u \in B : u \subseteq m => u = m
  <2>1. B \in SUBSET (SUBSET S)
    OBVIOUS
  <2> HIDE DEF B
  <2> QED BY <1>1, <2>1, MinimalSubset
<1>3. a[m] = StepOf(f, a, m) /\ b[m] = StepOf(f, b, m)
  BY IterStep
<1>4. CASE m = {}
  BY <1>3, <1>4 DEF StepOf
<1>5. CASE m # {}
  <2>1. Pick(m) \in m
    BY <1>5, PickOne
  <2>2. m \ {Pick(m)} \notin B
    BY <1>2, <2>1
  <2>3. a[m \ {Pick(m)}] = b[m \ {Pick(m)}]
    BY <2>2
  <2> QED
    BY <1>3, <1>5, <2>3 DEF StepOf
<1> QED
  BY <1>4, <1>5

(* There is one for every finite set.                                        *)
LEMMA IterExists ==
  ASSUME NEW f, NEW S, IsFiniteSet(S)
  PROVE  \E it : IsIter(f, S, it)
<1> DEFINE B == {s \in SUBSET S : ~ \E it : IsIter(f, s, it)}
<1>1. SUFFICES ASSUME B # {} PROVE FALSE
  OBVIOUS
<1>2. PICK m \in B : \A u \in B : u \subseteq m => u = m
  <2>1. B \in SUBSET (SUBSET S)
    OBVIOUS
  <2> HIDE DEF B
  <2> QED BY <1>1, <2>1, MinimalSubset
<1> DEFINE its == [u \in SUBSET m |-> CHOOSE it : IsIter(f, u, it)]
           val == [u \in SUBSET m |-> its[u][u]]
           g == [s \in SUBSET m |-> StepOf(f, val, s)]
<1>3. \A u \in SUBSET m : u # m => IsIter(f, u, its[u])
  <2> TAKE u \in SUBSET m
  <2> HAVE u # m
  <2>1. \E it : IsIter(f, u, it)
    BY <1>2
  <2> QED
    BY <2>1, Zenon
<1> HIDE DEF its
<1>4. \A u \in SUBSET m : u # m => g[u] = val[u]
  <2> TAKE u \in SUBSET m
  <2> HAVE u # m
  <2>1. val[u] = StepOf(f, its[u], u)
    BY <1>3, IterStep
  <2>2. CASE u = {}
    BY <2>1, <2>2 DEF StepOf
  <2>3. CASE u # {}
    <3> DEFINE w == u \ {Pick(u)}
    <3>1. Pick(u) \in u
      BY <2>3, PickOne
    <3>2. w \in SUBSET m /\ w # m /\ w \in SUBSET u
      BY <3>1
    <3>3. IsIter(f, u, its[u]) /\ IsIter(f, w, its[w])
      BY <1>3, <3>2
    <3>4. IsFiniteSet(u)
      BY FS_Subset
    <3> HIDE DEF w
    <3>5. \A a, b : IsIter(f, u, a) /\ IsIter(f, w, b)
                     => \A s \in SUBSET u : s \subseteq w => a[s] = b[s]
      BY <3>4, IterAgree
    <3>6. its[u][w] = its[w][w]
      BY <3>2, <3>3, <3>5
    <3> QED
      BY <2>1, <2>3, <3>2, <3>6 DEF StepOf, w
  <2> QED
    BY <2>2, <2>3
<1>5. \A s \in SUBSET m : StepOf(f, val, s) = StepOf(f, g, s)
  <2> TAKE s \in SUBSET m
  <2>1. CASE s = {}
    BY <2>1 DEF StepOf
  <2>2. CASE s # {}
    <3>1. Pick(s) \in s
      BY <2>2, PickOne
    <3>2. s \ {Pick(s)} \in SUBSET m /\ s \ {Pick(s)} # m
      BY <3>1
    <3>3. g[s \ {Pick(s)}] = val[s \ {Pick(s)}]
      BY <1>4, <3>2
    <3> QED
      BY <2>2, <3>3 DEF StepOf
  <2> QED
    BY <2>1, <2>2
<1>6. IsIter(f, m, g)
  BY <1>5 DEF IsIter
<1> QED
  BY <1>6

(* The sum over a set that is not empty is one term and the sum of the rest. *)
LEMMA SumStep ==
  ASSUME NEW f, NEW S, IsFiniteSet(S)
  PROVE  SumFunctionOnSet(f, S) =
           IF S = {} THEN 0 ELSE f[Pick(S)] + SumFunctionOnSet(f, S \ {Pick(S)})
<1> DEFINE a == CHOOSE it : IsIter(f, S, it)
           R == S \ {Pick(S)}
           b == CHOOSE it : IsIter(f, R, it)
<1>1. IsIter(f, S, a)
  BY IterExists, Zenon
<1>2. IsFiniteSet(R)
  BY FS_RemoveElement
<1>3. IsIter(f, R, b)
  BY <1>2, IterExists, Zenon
<1>4. SumFunctionOnSet(f, S) = a[S] /\ SumFunctionOnSet(f, R) = b[R]
  BY SumIsIter, Zenon
<1>5. R \in SUBSET S
  OBVIOUS
<1> HIDE DEF a, b, R
<1>6. a[R] = b[R]
  BY <1>1, <1>2, <1>3, <1>5, IterAgree
<1>7. a[S] = StepOf(f, a, S)
  BY <1>1, IterStep
<1> QED
  BY <1>4, <1>6, <1>7 DEF StepOf, R

-----------------------------------------------------------------------------
(***************************************************************************)
(* Sums of integers.                                                       *)
(***************************************************************************)

IntOn(f, S) == \A x \in S : f[x] \in Int

LEMMA SumEmpty == ASSUME NEW f PROVE SumFunctionOnSet(f, {}) = 0
BY FS_EmptySet, SumStep

(* A sum of integers is an integer, and of naturals a natural.               *)
LEMMA SumType ==
  ASSUME NEW f, NEW S, IsFiniteSet(S), IntOn(f, S)
  PROVE  /\ SumFunctionOnSet(f, S) \in Int
         /\ (\A x \in S : f[x] >= 0) => SumFunctionOnSet(f, S) >= 0
<1> DEFINE Good(s) == /\ SumFunctionOnSet(f, s) \in Int
                      /\ (\A x \in S : f[x] >= 0) => SumFunctionOnSet(f, s) >= 0
           B == {s \in SUBSET S : ~Good(s)}
<1>1. SUFFICES ASSUME B # {} PROVE FALSE
  OBVIOUS
<1>2. PICK m \in B : \A u \in B : u \subseteq m => u = m
  <2>1. B \in SUBSET (SUBSET S)
    OBVIOUS
  <2> HIDE DEF B
  <2> QED BY <1>1, <2>1, MinimalSubset
<1>3. m # {}
  BY SumEmpty
<1>4. Pick(m) \in m
  BY <1>3, PickOne
<1>5. Good(m \ {Pick(m)})
  BY <1>2, <1>4
<1>6. SumFunctionOnSet(f, m) = f[Pick(m)] + SumFunctionOnSet(f, m \ {Pick(m)})
  BY <1>3, FS_Subset, SumStep
<1> QED
  BY <1>4, <1>5, <1>6 DEF IntOn

(* A sum is any one term and the sum of the others.                          *)
LEMMA SumRemove ==
  ASSUME NEW f, NEW S, IsFiniteSet(S), IntOn(f, S), NEW x \in S
  PROVE  SumFunctionOnSet(f, S) = f[x] + SumFunctionOnSet(f, S \ {x})
<1> DEFINE Good(s, y) == SumFunctionOnSet(f, s) = f[y] + SumFunctionOnSet(f, s \ {y})
           B == {s \in SUBSET S : \E y \in s : ~Good(s, y)}
<1>1. SUFFICES ASSUME B # {} PROVE FALSE
  OBVIOUS
<1>2. PICK m \in B : \A u \in B : u \subseteq m => u = m
  <2>1. B \in SUBSET (SUBSET S)
    OBVIOUS
  <2> HIDE DEF B
  <2> QED BY <1>1, <2>1, MinimalSubset
<1>3. PICK y \in m : ~Good(m, y)
  OBVIOUS
<1> DEFINE c == Pick(m)
           r == m \ {c, y}
<1>4. c \in m
  BY <1>3, PickOne
<1>5. Good(m, c)
  BY <1>4, FS_Subset, SumStep
<1>6. c # y
  BY <1>3, <1>5
<1> HIDE DEF c
<1>7. y \in m \ {c} /\ m \ {c} \notin B /\ c \in m \ {y} /\ m \ {y} \notin B
  BY <1>2, <1>3, <1>4, <1>6
<1>8. Good(m \ {c}, y) /\ Good(m \ {y}, c)
  BY <1>7
<1>9. (m \ {c}) \ {y} = r /\ (m \ {y}) \ {c} = r
  OBVIOUS
<1>10. IsFiniteSet(r) /\ IntOn(f, r)
  BY FS_Subset DEF IntOn
<1>11. f[c] \in Int /\ f[y] \in Int /\ SumFunctionOnSet(f, r) \in Int
  BY <1>4, <1>10, SumType DEF IntOn
<1> HIDE DEF r
<1> QED
  BY <1>3, <1>5, <1>8, <1>9, <1>11

LEMMA SumAdd ==
  ASSUME NEW f, NEW S, IsFiniteSet(S), IntOn(f, S), NEW x, x \notin S, f[x] \in Int
  PROVE  SumFunctionOnSet(f, S \cup {x}) = f[x] + SumFunctionOnSet(f, S)
<1>1. IsFiniteSet(S \cup {x}) /\ IntOn(f, S \cup {x})
  BY FS_AddElement DEF IntOn
<1>2. (S \cup {x}) \ {x} = S
  OBVIOUS
<1> QED
  BY <1>1, <1>2, SumRemove

(* Functions that agree on a set have the same sum over it.                  *)
LEMMA SumSame ==
  ASSUME NEW f, NEW g, NEW S, IsFiniteSet(S), \A x \in S : f[x] = g[x]
  PROVE  SumFunctionOnSet(f, S) = SumFunctionOnSet(g, S)
<1> DEFINE B == {s \in SUBSET S : SumFunctionOnSet(f, s) # SumFunctionOnSet(g, s)}
<1>1. SUFFICES ASSUME B # {} PROVE FALSE
  OBVIOUS
<1>2. PICK m \in B : \A u \in B : u \subseteq m => u = m
  <2>1. B \in SUBSET (SUBSET S)
    OBVIOUS
  <2> HIDE DEF B
  <2> QED BY <1>1, <2>1, MinimalSubset
<1>3. m # {}
  BY SumEmpty
<1>4. Pick(m) \in m
  BY <1>3, PickOne
<1>5. SumFunctionOnSet(f, m \ {Pick(m)}) = SumFunctionOnSet(g, m \ {Pick(m)})
  BY <1>2, <1>4
<1>6. /\ SumFunctionOnSet(f, m) = f[Pick(m)] + SumFunctionOnSet(f, m \ {Pick(m)})
      /\ SumFunctionOnSet(g, m) = g[Pick(m)] + SumFunctionOnSet(g, m \ {Pick(m)})
  BY <1>3, FS_Subset, SumStep
<1> QED
  BY <1>4, <1>5, <1>6

(* When one term changes, the sum changes by as much.                        *)
LEMMA SumChange ==
  ASSUME NEW f, NEW g, NEW S, IsFiniteSet(S), IntOn(f, S), IntOn(g, S),
         NEW x \in S, \A y \in S \ {x} : g[y] = f[y]
  PROVE  SumFunctionOnSet(g, S) = SumFunctionOnSet(f, S) - f[x] + g[x]
<1> DEFINE R == S \ {x}
<1>1. IsFiniteSet(R) /\ IntOn(f, R) /\ f[x] \in Int /\ g[x] \in Int
  BY FS_RemoveElement DEF IntOn
<1>2. SumFunctionOnSet(f, R) = SumFunctionOnSet(g, R)
  BY <1>1, SumSame
<1>3. SumFunctionOnSet(f, R) \in Int
  BY <1>1, SumType
<1>4. /\ SumFunctionOnSet(f, S) = f[x] + SumFunctionOnSet(f, R)
      /\ SumFunctionOnSet(g, S) = g[x] + SumFunctionOnSet(g, R)
  BY SumRemove
<1> HIDE DEF R
<1> QED
  BY <1>1, <1>2, <1>3, <1>4

(* Larger terms have a larger sum.                                           *)
LEMMA SumMonotone ==
  ASSUME NEW f, NEW g, NEW S, IsFiniteSet(S), IntOn(f, S), IntOn(g, S),
         \A x \in S : f[x] <= g[x]
  PROVE  SumFunctionOnSet(f, S) <= SumFunctionOnSet(g, S)
<1> DEFINE B == {s \in SUBSET S : ~(SumFunctionOnSet(f, s) <= SumFunctionOnSet(g, s))}
<1>1. SUFFICES ASSUME B # {} PROVE FALSE
  OBVIOUS
<1>2. PICK m \in B : \A u \in B : u \subseteq m => u = m
  <2>1. B \in SUBSET (SUBSET S)
    OBVIOUS
  <2> HIDE DEF B
  <2> QED BY <1>1, <2>1, MinimalSubset
<1>3. m # {}
  BY SumEmpty
<1> DEFINE c == Pick(m)
           R == m \ {c}
<1>4. c \in m /\ R \notin B
  BY <1>2, <1>3, PickOne
<1>5. IsFiniteSet(m) /\ IsFiniteSet(R) /\ IntOn(f, R) /\ IntOn(g, R)
  BY FS_Subset DEF IntOn
<1>6. SumFunctionOnSet(f, R) \in Int /\ SumFunctionOnSet(g, R) \in Int
  BY <1>5, SumType
<1>7. /\ SumFunctionOnSet(f, m) = f[c] + SumFunctionOnSet(f, R)
      /\ SumFunctionOnSet(g, m) = g[c] + SumFunctionOnSet(g, R)
  BY <1>3, <1>5, SumStep
<1>8. f[c] \in Int /\ g[c] \in Int /\ f[c] <= g[c]
  BY <1>4 DEF IntOn
<1>9. SumFunctionOnSet(f, R) <= SumFunctionOnSet(g, R)
  BY <1>4
<1> HIDE DEF c, R
<1> QED
  BY <1>6, <1>7, <1>8, <1>9

(* The sum over two sets without a common element.                           *)
LEMMA SumDisjoint ==
  ASSUME NEW f, NEW S, NEW T, IsFiniteSet(S), IsFiniteSet(T), IntOn(f, S), IntOn(f, T),
         S \cap T = {}
  PROVE  SumFunctionOnSet(f, S \cup T) = SumFunctionOnSet(f, S) + SumFunctionOnSet(f, T)
<1> DEFINE B == {s \in SUBSET S : SumFunctionOnSet(f, s \cup T)
                                    # SumFunctionOnSet(f, s) + SumFunctionOnSet(f, T)}
<1>1. SUFFICES ASSUME B # {} PROVE FALSE
  OBVIOUS
<1>2. PICK m \in B : \A u \in B : u \subseteq m => u = m
  <2>1. B \in SUBSET (SUBSET S)
    OBVIOUS
  <2> HIDE DEF B
  <2> QED BY <1>1, <2>1, MinimalSubset
<1>3. SumFunctionOnSet(f, T) \in Int
  BY SumType
<1>4. m # {}
  BY <1>3, SumEmpty
<1>5. PICK c \in m : TRUE
  BY <1>4
<1> DEFINE R == m \ {c}
<1>6. R \notin B
  BY <1>2
<1>7. IsFiniteSet(m) /\ IsFiniteSet(R) /\ IntOn(f, m) /\ IntOn(f, R) /\ f[c] \in Int
  BY FS_Subset DEF IntOn
<1>8. IsFiniteSet(R \cup T) /\ IntOn(f, R \cup T) /\ c \notin R \cup T
  BY <1>7, FS_Union DEF IntOn
<1>9. m \cup T = (R \cup T) \cup {c}
  OBVIOUS
<1>10. SumFunctionOnSet(f, m) = f[c] + SumFunctionOnSet(f, R)
  BY <1>7, SumRemove
<1>11. SumFunctionOnSet(f, m \cup T) = f[c] + SumFunctionOnSet(f, R \cup T)
  BY <1>7, <1>8, <1>9, SumAdd
<1>12. SumFunctionOnSet(f, R \cup T) = SumFunctionOnSet(f, R) + SumFunctionOnSet(f, T)
  BY <1>6
<1>13. SumFunctionOnSet(f, R) \in Int
  BY <1>7, SumType
<1> HIDE DEF R
<1> QED
  BY <1>3, <1>7, <1>10, <1>11, <1>12, <1>13

(* More terms that are not negative have a larger sum.                       *)
LEMMA SumSubset ==
  ASSUME NEW f, NEW S, IsFiniteSet(S), IntOn(f, S), NEW T \in SUBSET S, \A x \in S : f[x] >= 0
  PROVE  SumFunctionOnSet(f, T) <= SumFunctionOnSet(f, S)
<1> DEFINE R == S \ T
<1>1. IsFiniteSet(T) /\ IsFiniteSet(R) /\ IntOn(f, T) /\ IntOn(f, R) /\ T \cap R = {} /\ S = T \cup R
  BY FS_Subset DEF IntOn
<1>2. (\A x \in R : f[x] >= 0) /\ R \subseteq S
  OBVIOUS
<1> HIDE DEF R
<1>3. SumFunctionOnSet(f, S) = SumFunctionOnSet(f, T) + SumFunctionOnSet(f, R)
  BY <1>1, SumDisjoint
<1> QED BY <1>1, <1>2, <1>3, SumType

(* The sum over the image of a set under an injective function.              *)
LEMMA SumImage ==
  ASSUME NEW f, NEW g, NEW h, NEW S, IsFiniteSet(S), IntOn(f, S),
         \A x \in S : g[h[x]] = f[x],
         \A x, y \in S : h[x] = h[y] => x = y
  PROVE  /\ IsFiniteSet({h[x] : x \in S})
         /\ SumFunctionOnSet(g, {h[x] : x \in S}) = SumFunctionOnSet(f, S)
<1> DEFINE Img(s) == {h[x] : x \in s}
           Good(s) == IsFiniteSet(Img(s)) /\ SumFunctionOnSet(g, Img(s)) = SumFunctionOnSet(f, s)
           B == {s \in SUBSET S : ~Good(s)}
<1>1. SUFFICES ASSUME B # {} PROVE FALSE
  OBVIOUS
<1>2. PICK m \in B : \A u \in B : u \subseteq m => u = m
  <2>1. B \in SUBSET (SUBSET S)
    OBVIOUS
  <2> HIDE DEF B
  <2> QED BY <1>1, <2>1, MinimalSubset
<1>3. m # {}
  <2>1. Img({}) = {}
    OBVIOUS
  <2> QED BY <2>1, SumEmpty, FS_EmptySet
<1>4. PICK c \in m : TRUE
  BY <1>3
<1> DEFINE R == m \ {c}
<1>5. R \in SUBSET S /\ R # m
  OBVIOUS
<1>6. IsFiniteSet(Img(R)) /\ SumFunctionOnSet(g, Img(R)) = SumFunctionOnSet(f, R)
  BY <1>2, <1>5
<1>7. IsFiniteSet(m) /\ IsFiniteSet(R) /\ IntOn(f, m) /\ IntOn(f, R) /\ f[c] \in Int
  BY FS_Subset DEF IntOn
<1>8. IntOn(g, Img(R)) /\ h[c] \notin Img(R) /\ g[h[c]] = f[c]
  BY DEF IntOn
<1>9. Img(m) = Img(R) \cup {h[c]}
  OBVIOUS
<1>10. SumFunctionOnSet(f, m) = f[c] + SumFunctionOnSet(f, R)
  BY <1>7, SumRemove
<1> DEFINE I == Img(R)
           J == Img(m)
<1>11. IsFiniteSet(I) /\ IntOn(g, I) /\ h[c] \notin I /\ g[h[c]] \in Int /\ J = I \cup {h[c]}
  BY <1>6, <1>7, <1>8, <1>9
<1>12. SumFunctionOnSet(g, J) = g[h[c]] + SumFunctionOnSet(g, I) /\ IsFiniteSet(J)
  <2> HIDE DEF I, J
  <2> QED BY <1>11, SumAdd, FS_AddElement
<1>13. SumFunctionOnSet(g, J) = SumFunctionOnSet(f, m)
  <2> HIDE DEF J, R
  <2> QED BY <1>6, <1>8, <1>10, <1>12
<1> QED
  BY <1>2, <1>12, <1>13

\* h numbers the members of S with those of I, and g gives a number what f gives
\* the member.
Numbers(h, S, I) ==
  /\ \A x \in S : h[x] \in I
  /\ \A x, y \in S : h[x] = h[y] => x = y
  /\ \A i \in I : \E x \in S : i = h[x]

Carries(g, h, f, S) == \A x \in S : g[h[x]] = f[x]

(* A sum does not depend on the numbering.                                   *)
LEMMA SumOnto ==
  ASSUME NEW f, NEW g, NEW h, NEW S, NEW I, IsFiniteSet(S), IntOn(f, S),
         Numbers(h, S, I), Carries(g, h, f, S)
  PROVE  IsFiniteSet(I) /\ SumFunctionOnSet(g, I) = SumFunctionOnSet(f, S)
<1>1. I = {h[x] : x \in S}
  BY DEF Numbers
<1>2. \A x, y \in S : h[x] = h[y] => x = y
  BY DEF Numbers
<1>3. \A x \in S : g[h[x]] = f[x]
  BY DEF Carries
<1> QED BY <1>1, <1>2, <1>3, SumImage

\* h on I is f on S, and g on T counted on from n.
Follows(h, I, f, S, g, T, n) ==
  /\ I = S \cup {n + i : i \in T}
  /\ \A x \in S : h[x] = f[x]
  /\ \A i \in T : h[n + i] = g[i]

(* What is numbered after the first n counts with them.                      *)
LEMMA SumConcat ==
  ASSUME NEW n \in Nat, NEW f, NEW g, NEW h, NEW S \in SUBSET (1 .. n), NEW T \in SUBSET (Nat \ {0}),
         NEW I, IsFiniteSet(T), IntOn(f, S), IntOn(g, T), Follows(h, I, f, S, g, T, n)
  PROVE  SumFunctionOnSet(h, I) = SumFunctionOnSet(f, S) + SumFunctionOnSet(g, T)
<1> DEFINE k == [i \in T |-> n + i]
           U == {n + i : i \in T}
<1>1. IsFiniteSet(S)
  <2>1. IsFiniteSet(1 .. n)
    BY FS_Interval
  <2> QED BY <2>1, FS_Subset
<1>2. S \cap U = {} /\ I = S \cup U
  BY DEF Follows
<1>3. Numbers(k, T, U)
  BY DEF Numbers
<1>4. Carries(h, k, g, T)
  BY DEF Carries, Follows
<1>5. (\A x \in S : h[x] = f[x]) /\ IntOn(h, S) /\ IntOn(h, U)
  BY DEF IntOn, Follows
<1> HIDE DEF k, U
<1>6. IsFiniteSet(U) /\ SumFunctionOnSet(h, U) = SumFunctionOnSet(g, T)
  BY <1>3, <1>4, SumOnto
<1>7. SumFunctionOnSet(h, S) = SumFunctionOnSet(f, S)
  BY <1>1, <1>5, SumSame
<1>8. SumFunctionOnSet(h, S \cup U) = SumFunctionOnSet(h, S) + SumFunctionOnSet(h, U)
  BY <1>1, <1>2, <1>5, <1>6, SumDisjoint
<1> QED BY <1>2, <1>6, <1>7, <1>8

(* Terms that are zero can be left out.                                      *)
LEMMA SumSupport ==
  ASSUME NEW f, NEW S, IsFiniteSet(S), IntOn(f, S), NEW T \in SUBSET S,
         \A x \in S \ T : f[x] = 0
  PROVE  SumFunctionOnSet(f, S) = SumFunctionOnSet(f, T)
<1> DEFINE B == {s \in SUBSET (S \ T) : SumFunctionOnSet(f, T \cup s) # SumFunctionOnSet(f, T)}
<1>1. SUFFICES ASSUME B # {} PROVE FALSE
  <2>1. T \cup (S \ T) = S
    OBVIOUS
  <2>2. S \ T \notin B
    BY <1>1
  <2> QED BY <2>1, <2>2
<1>2. PICK m \in B : \A u \in B : u \subseteq m => u = m
  <2>1. B \in SUBSET (SUBSET S)
    OBVIOUS
  <2> HIDE DEF B
  <2> QED BY <1>1, <2>1, MinimalSubset
<1>3. m # {}
  OBVIOUS
<1>4. PICK c \in m : TRUE
  BY <1>3
<1> DEFINE R == T \cup (m \ {c})
<1>5. m \ {c} \notin B
  BY <1>2, <1>4
<1>6. SumFunctionOnSet(f, R) = SumFunctionOnSet(f, T)
  BY <1>5
<1>7. R \subseteq S /\ c \notin R /\ T \cup m = R \cup {c} /\ f[c] = 0
  BY <1>4
<1>8. IsFiniteSet(R) /\ IntOn(f, R)
  BY <1>7, FS_Subset DEF IntOn
<1> HIDE DEF R
<1>9. SumFunctionOnSet(f, R) \in Int
  BY <1>8, SumType
<1>10. SumFunctionOnSet(f, T \cup m) = f[c] + SumFunctionOnSet(f, R)
  BY <1>7, <1>8, SumAdd
<1> QED BY <1>6, <1>7, <1>9, <1>10

(* Terms that are not negative and add up to zero are zero.                  *)
LEMMA SumZero ==
  ASSUME NEW f, NEW S, IsFiniteSet(S), IntOn(f, S), \A x \in S : f[x] >= 0,
         SumFunctionOnSet(f, S) = 0, NEW x \in S
  PROVE  f[x] = 0
<1> DEFINE R == S \ {x}
<1>1. SumFunctionOnSet(f, S) = f[x] + SumFunctionOnSet(f, R)
  BY SumRemove
<1>2. IsFiniteSet(R) /\ IntOn(f, R) /\ (\A y \in R : f[y] >= 0) /\ f[x] \in Int /\ f[x] >= 0
  BY FS_RemoveElement DEF IntOn
<1> HIDE DEF R
<1>3. SumFunctionOnSet(f, R) \in Int /\ SumFunctionOnSet(f, R) >= 0
  BY <1>2, SumType
<1> QED BY <1>1, <1>2, <1>3

(* The sum over a union of disjoint sets is the sum of their sums.           *)
LEMMA SumUnion ==
  ASSUME NEW K, IsFiniteSet(K), NEW F, NEW f, NEW g,
         \A k \in K : IsFiniteSet(F[k]) /\ IntOn(f, F[k]) /\ g[k] = SumFunctionOnSet(f, F[k]),
         \A j, k \in K : j # k => F[j] \cap F[k] = {}
  PROVE  /\ IsFiniteSet(UNION {F[k] : k \in K})
         /\ SumFunctionOnSet(f, UNION {F[k] : k \in K}) = SumFunctionOnSet(g, K)
<1> DEFINE All(s) == UNION {F[k] : k \in s}
           Good(s) == IsFiniteSet(All(s)) /\ SumFunctionOnSet(f, All(s)) = SumFunctionOnSet(g, s)
           B == {s \in SUBSET K : ~Good(s)}
<1>1. SUFFICES ASSUME B # {} PROVE FALSE
  <2>1. K \notin B
    BY <1>1
  <2> QED BY <2>1
<1>2. PICK m \in B : \A u \in B : u \subseteq m => u = m
  <2>1. B \in SUBSET (SUBSET K)
    OBVIOUS
  <2> HIDE DEF B
  <2> QED BY <1>1, <2>1, MinimalSubset
<1>3. m # {}
  <2>1. All({}) = {}
    OBVIOUS
  <2>2. Good({})
    BY <2>1, SumEmpty, FS_EmptySet
  <2> QED BY <2>2
<1>4. PICK c \in m : TRUE
  BY <1>3
<1> DEFINE R == m \ {c}
<1>5. R \subseteq K /\ R # m /\ R \subseteq m /\ m \subseteq K /\ c \in K
  BY <1>4
<1>6. Good(R)
  BY <1>2, <1>5
<1>7. All(m) = All(R) \cup F[c] /\ All(R) \cap F[c] = {}
  BY <1>4, <1>5
<1>8. IntOn(f, All(R)) /\ IntOn(f, F[c]) /\ IsFiniteSet(F[c])
  BY <1>5 DEF IntOn
<1>9. \A k \in K : g[k] \in Int
  BY SumType
<1>10. SumFunctionOnSet(g, m) = g[c] + SumFunctionOnSet(g, R)
  <2>1. IsFiniteSet(m) /\ IntOn(g, m)
    BY <1>5, <1>9, FS_Subset DEF IntOn
  <2> QED BY <1>4, <2>1, SumRemove
<1> DEFINE A == All(R)
           C == F[c]
           M == All(m)
<1>11. /\ IsFiniteSet(A) /\ IsFiniteSet(C) /\ IntOn(f, A) /\ IntOn(f, C) /\ A \cap C = {} /\ M = A \cup C
       /\ SumFunctionOnSet(f, A) = SumFunctionOnSet(g, R) /\ g[c] = SumFunctionOnSet(f, C)
  BY <1>5, <1>6, <1>7, <1>8
<1>12. IsFiniteSet(M) /\ SumFunctionOnSet(f, M) = SumFunctionOnSet(g, m)
  <2> HIDE DEF A, C, M, R
  <2>1. SumFunctionOnSet(f, M) = SumFunctionOnSet(f, A) + SumFunctionOnSet(f, C)
    BY <1>11, SumDisjoint
  <2>2. SumFunctionOnSet(f, A) \in Int /\ SumFunctionOnSet(f, C) \in Int
    BY <1>11, SumType
  <2>3. IsFiniteSet(M)
    BY <1>11, FS_Union
  <2>4. SumFunctionOnSet(f, M) = SumFunctionOnSet(g, m)
    BY <1>10, <1>11, <2>1, <2>2
  <2> QED BY <2>3, <2>4
<1> QED BY <1>2, <1>12

LEMMA SumSingle ==
  ASSUME NEW f, NEW x, f[x] \in Int
  PROVE  SumFunctionOnSet(f, {x}) = f[x]
<1>1. SumFunctionOnSet(f, {} \cup {x}) = f[x] + SumFunctionOnSet(f, {})
  BY SumAdd, FS_EmptySet DEF IntOn
<1>2. {} \cup {x} = {x}
  OBVIOUS
<1> QED BY <1>1, <1>2, SumEmpty

(* The sum of sums of two terms.                                             *)
LEMMA SumPlus ==
  ASSUME NEW f, NEW g, NEW h, NEW S, IsFiniteSet(S), IntOn(f, S), IntOn(g, S),
         \A x \in S : h[x] = f[x] + g[x]
  PROVE  SumFunctionOnSet(h, S) = SumFunctionOnSet(f, S) + SumFunctionOnSet(g, S)
<1> DEFINE Good(s) == SumFunctionOnSet(h, s) = SumFunctionOnSet(f, s) + SumFunctionOnSet(g, s)
           B == {s \in SUBSET S : ~Good(s)}
<1>1. SUFFICES ASSUME B # {} PROVE FALSE
  OBVIOUS
<1>2. PICK m \in B : \A u \in B : u \subseteq m => u = m
  <2>1. B \in SUBSET (SUBSET S)
    OBVIOUS
  <2> HIDE DEF B
  <2> QED BY <1>1, <2>1, MinimalSubset
<1>3. m # {}
  <2>1. Good({})
    BY SumEmpty
  <2> QED BY <2>1
<1>4. PICK c \in m : TRUE
  BY <1>3
<1> DEFINE R == m \ {c}
<1>5. Good(R)
  BY <1>2, <1>4
<1>6. IsFiniteSet(m) /\ IntOn(f, m) /\ IntOn(g, m) /\ IntOn(h, m) /\ h[c] = f[c] + g[c]
      /\ f[c] \in Int /\ g[c] \in Int
  BY <1>4, FS_Subset DEF IntOn
<1>7. IsFiniteSet(R) /\ IntOn(f, R) /\ IntOn(g, R)
  BY <1>6, FS_Subset DEF IntOn
<1>8. SumFunctionOnSet(f, R) \in Int /\ SumFunctionOnSet(g, R) \in Int
  BY <1>7, SumType
<1>9. /\ SumFunctionOnSet(f, m) = f[c] + SumFunctionOnSet(f, R)
      /\ SumFunctionOnSet(g, m) = g[c] + SumFunctionOnSet(g, R)
      /\ SumFunctionOnSet(h, m) = h[c] + SumFunctionOnSet(h, R)
  BY <1>4, <1>6, SumRemove
<1> HIDE DEF R
<1>10. Good(m)
  BY <1>5, <1>6, <1>8, <1>9
<1> QED BY <1>2, <1>10
=============================================================================
