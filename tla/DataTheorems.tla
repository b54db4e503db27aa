---------------------------- MODULE DataTheorems ----------------------------
(***************************************************************************)
(* What the proofs need of the data: sums of a function over a finite set  *)
(* of indices (SumFunctionOnSet of the community modules), the least and   *)
(* the largest of numbers, rows in an order, and sequences.  The fold      *)
(* behind a sum is a recursive function on the subsets of the set; that    *)
(* there is one, and only one, that the order of the additions does not    *)
(* matter, and that rows can be put in order is shown by looking at a      *)
(* minimal subset for which it fails.                                      *)
(***************************************************************************)
EXTENDS Integers, Functions, Ordering, FiniteSetsExt, SequencesExt,
        FiniteSetTheorems, WellFoundedInduction, TLAPS

-----------------------------------------------------------------------------
(* Sums.                                                                   *)
-----------------------------------------------------------------------------

\* A set of subsets of a finite set has a minimal element.
LEMMA MinimalSubset ==
  ASSUME NEW S, IsFiniteSet(S), NEW Bad \in SUBSET SUBSET S, Bad # {}
  PROVE  \E s \in Bad : \A t \in Bad : t \subseteq s => t = s
<1>1. IsWellFoundedOn(StrictSubsetOrdering(S), SUBSET S)
  BY FS_StrictSubsetOrderingWellFounded, FS_FiniteSubsetsOfFinite
<1>2. PICK s \in Bad : \A t \in Bad : ~ (<<t, s>> \in StrictSubsetOrdering(S))
  BY <1>1, WFMin
<1>3. QED
  BY <1>2 DEF StrictSubsetOrdering

\* What a fold adds first, of the indices that are left.
FirstAdded(rest) == CHOOSE index \in rest : TRUE

\* g tells the sum of f over each subset of S.
SumFold(f, S, g) ==
    g = [s \in SUBSET S |-> IF s = {} THEN 0 ELSE f[FirstAdded(s)] + g[s \ {FirstAdded(s)}]]

\* Two folds agree where both are defined.
LEMMA FoldsAgree ==
  ASSUME NEW S, IsFiniteSet(S), NEW f, NEW g, NEW h, NEW T, NEW U,
         S \subseteq T, S \subseteq U, SumFold(f, T, g), SumFold(f, U, h)
  PROVE  \A s \in SUBSET S : g[s] = h[s]
<1> DEFINE Bad == {s \in SUBSET S : g[s] # h[s]}
<1>1. SUFFICES ASSUME Bad # {} PROVE FALSE
  OBVIOUS
<1>2. PICK s \in Bad : \A t \in Bad : t \subseteq s => t = s
  <2>1. Bad \in SUBSET SUBSET S
    OBVIOUS
  <2>2. QED
    <3> HIDE DEF Bad
    <3>1. QED
      BY <1>1, <2>1, MinimalSubset
<1>3. s \in SUBSET T /\ s \in SUBSET U /\ g[s] # h[s]
  OBVIOUS
<1>4. s # {}
  BY <1>3 DEF SumFold
<1>5. FirstAdded(s) \in s
  BY <1>4 DEF FirstAdded
<1>6. g[s \ {FirstAdded(s)}] = h[s \ {FirstAdded(s)}]
  BY <1>2, <1>5
<1>7. g[s] = f[FirstAdded(s)] + g[s \ {FirstAdded(s)}] /\ h[s] = f[FirstAdded(s)] + h[s \ {FirstAdded(s)}]
  BY <1>3, <1>4 DEF SumFold
<1>8. QED
  BY <1>3, <1>6, <1>7

\* There is a fold on the subsets of every finite set.
LEMMA FoldsExist ==
  ASSUME NEW S, IsFiniteSet(S), NEW f
  PROVE  \E g : SumFold(f, S, g)
<1> DEFINE Bad == {s \in SUBSET S : ~\E g : SumFold(f, s, g)}
<1>1. SUFFICES ASSUME Bad # {} PROVE FALSE
  OBVIOUS
<1>2. PICK s \in Bad : \A t \in Bad : t \subseteq s => t = s
  <2>1. Bad \in SUBSET SUBSET S
    OBVIOUS
  <2>2. QED
    <3> HIDE DEF Bad
    <3>1. QED
      BY <1>1, <2>1, MinimalSubset
<1> DEFINE H(t) == CHOOSE g : SumFold(f, t, g)
           Value(t) == IF t = {} THEN 0 ELSE f[FirstAdded(t)] + H(t \ {FirstAdded(t)})[t \ {FirstAdded(t)}]
           G == [t \in SUBSET s |-> Value(t)]
<1>3. ASSUME NEW t \in SUBSET s, t # s
      PROVE  SumFold(f, t, H(t)) /\ IsFiniteSet(t)
  <2>1. \E g : SumFold(f, t, g)
    BY <1>2, <1>3
  <2>2. QED
    BY <2>1, FS_Subset
<1> HIDE DEF H, Bad
<1>4. ASSUME NEW t \in SUBSET s, t # s
      PROVE  H(t)[t] = Value(t)
  <2>1. CASE t = {}
    BY <1>3, <1>4, <2>1 DEF SumFold
  <2>2. CASE t # {}
    <3> DEFINE r == t \ {FirstAdded(t)}
    <3>1. r \in SUBSET s /\ r # s /\ r \subseteq t
      BY <1>4, <2>2 DEF FirstAdded
    <3>2. SumFold(f, t, H(t)) /\ SumFold(f, r, H(r)) /\ IsFiniteSet(r)
      BY <1>3, <1>4, <3>1
    <3>3. H(t)[r] = H(r)[r]
      <4> HIDE DEF r
      <4>1. \A u \in SUBSET r : H(t)[u] = H(r)[u]
        BY <3>1, <3>2, FoldsAgree
      <4>2. QED
        BY <4>1
    <3>4. H(t)[t] = f[FirstAdded(t)] + H(t)[r]
      BY <2>2, <3>2 DEF SumFold
    <3>5. QED
      BY <2>2, <3>3, <3>4
  <2>3. QED
    BY <2>1, <2>2
<1>5. ASSUME NEW t \in SUBSET s, t # {}
      PROVE  G[t \ {FirstAdded(t)}] = H(t \ {FirstAdded(t)})[t \ {FirstAdded(t)}]
  <2>1. t \ {FirstAdded(t)} \in SUBSET s /\ t \ {FirstAdded(t)} # s
    BY <1>5 DEF FirstAdded
  <2>2. G[t \ {FirstAdded(t)}] = Value(t \ {FirstAdded(t)})
    BY <2>1
  <2>3. QED
    BY <1>4, <2>1, <2>2
<1>6. SumFold(f, s, G)
  <2>1. ASSUME NEW t \in SUBSET s
        PROVE  G[t] = IF t = {} THEN 0 ELSE f[FirstAdded(t)] + G[t \ {FirstAdded(t)}]
    BY <1>5
  <2>2. G = [t \in SUBSET s |-> IF t = {} THEN 0 ELSE f[FirstAdded(t)] + G[t \ {FirstAdded(t)}]]
    BY <2>1
  <2>3. QED
    BY <2>2 DEF SumFold
<1>7. QED
  BY <1>2, <1>6 DEF Bad

\* A sum is the value of the fold.
LEMMA SumIsFold ==
  ASSUME NEW S, IsFiniteSet(S), NEW f
  PROVE  \E g : SumFold(f, S, g) /\ SumFunctionOnSet(f, S) = g[S]
<1> DEFINE g == CHOOSE g : SumFold(f, S, g)
<1>1. SumFold(f, S, g)
  BY FoldsExist
<1>2. SumFunctionOnSet(f, S) = g[S]
  BY DEF SumFunctionOnSet, FoldFunctionOnSet, MapThenFoldSet, SumFold, FirstAdded
<1>3. QED
  BY <1>1, <1>2

-----------------------------------------------------------------------------
(* What the proofs use.                                                    *)

\* A sum over nothing is 0; any other is that of the element taken first and of
\* the rest.
LEMMA SumUnfolds ==
  ASSUME NEW S, IsFiniteSet(S), NEW f
  PROVE  SumFunctionOnSet(f, S) =
            IF S = {} THEN 0 ELSE f[FirstAdded(S)] + SumFunctionOnSet(f, S \ {FirstAdded(S)})
<1> DEFINE R == S \ {FirstAdded(S)}
<1>1. IsFiniteSet(R)
  BY FS_RemoveElement
<1>2. PICK g : SumFold(f, S, g) /\ SumFunctionOnSet(f, S) = g[S]
  BY SumIsFold
<1>3. PICK h : SumFold(f, R, h) /\ SumFunctionOnSet(f, R) = h[R]
  <2> HIDE DEF R
  <2>1. QED
    BY <1>1, SumIsFold
<1>4. g[R] = h[R]
  <2>1. R \subseteq S /\ R \subseteq R
    OBVIOUS
  <2> HIDE DEF R
  <2>2. \A s \in SUBSET R : g[s] = h[s]
    BY <1>1, <1>2, <1>3, <2>1, FoldsAgree
  <2>3. QED
    BY <2>2
<1>5. g[S] = IF S = {} THEN 0 ELSE f[FirstAdded(S)] + g[R]
  BY <1>2 DEF SumFold
<1>6. QED
  BY <1>2, <1>3, <1>4, <1>5

\* The sum over no index.
THEOREM SumEmpty ==
  ASSUME NEW f
  PROVE  SumFunctionOnSet(f, {}) = 0
  BY FS_EmptySet, SumUnfolds

\* A sum of integers is an integer.
THEOREM SumType ==
  ASSUME NEW S, IsFiniteSet(S), NEW f, \A x \in S : f[x] \in Int
  PROVE  SumFunctionOnSet(f, S) \in Int
<1> DEFINE Bad == {s \in SUBSET S : SumFunctionOnSet(f, s) \notin Int}
<1>1. SUFFICES ASSUME Bad # {} PROVE FALSE
  OBVIOUS
<1>2. PICK s \in Bad : \A t \in Bad : t \subseteq s => t = s
  <2>1. Bad \in SUBSET SUBSET S
    OBVIOUS
  <2>2. QED
    <3> HIDE DEF Bad
    <3>1. QED
      BY <1>1, <2>1, MinimalSubset
<1>3. IsFiniteSet(s) /\ s \in SUBSET S /\ SumFunctionOnSet(f, s) \notin Int
  BY FS_Subset
<1>4. s # {}
  BY <1>3, SumEmpty
<1>5. FirstAdded(s) \in s
  BY <1>4 DEF FirstAdded
<1>6. SumFunctionOnSet(f, s) = f[FirstAdded(s)] + SumFunctionOnSet(f, s \ {FirstAdded(s)})
  BY <1>3, <1>4, SumUnfolds
<1>7. SumFunctionOnSet(f, s \ {FirstAdded(s)}) \in Int
  BY <1>2, <1>5
<1>8. QED
  BY <1>3, <1>5, <1>6, <1>7

\* A sum of natural numbers is one.
THEOREM SumNat ==
  ASSUME NEW S, IsFiniteSet(S), NEW f, \A x \in S : f[x] \in Nat
  PROVE  SumFunctionOnSet(f, S) \in Nat
<1> DEFINE Bad == {s \in SUBSET S : SumFunctionOnSet(f, s) \notin Nat}
<1>1. SUFFICES ASSUME Bad # {} PROVE FALSE
  OBVIOUS
<1>2. PICK s \in Bad : \A t \in Bad : t \subseteq s => t = s
  <2>1. Bad \in SUBSET SUBSET S
    OBVIOUS
  <2>2. QED
    <3> HIDE DEF Bad
    <3>1. QED
      BY <1>1, <2>1, MinimalSubset
<1>3. IsFiniteSet(s) /\ s \in SUBSET S /\ SumFunctionOnSet(f, s) \notin Nat
  BY FS_Subset
<1>4. s # {}
  BY <1>3, SumEmpty
<1>5. FirstAdded(s) \in s
  BY <1>4 DEF FirstAdded
<1>6. SumFunctionOnSet(f, s) = f[FirstAdded(s)] + SumFunctionOnSet(f, s \ {FirstAdded(s)})
  BY <1>3, <1>4, SumUnfolds
<1>7. SumFunctionOnSet(f, s \ {FirstAdded(s)}) \in Nat
  BY <1>2, <1>5
<1>8. QED
  BY <1>3, <1>5, <1>6, <1>7

\* Any index may be taken out of a sum.
THEOREM SumRemove ==
  ASSUME NEW S, IsFiniteSet(S), NEW f, \A x \in S : f[x] \in Int, NEW y \in S
  PROVE  SumFunctionOnSet(f, S) = f[y] + SumFunctionOnSet(f, S \ {y})
<1> DEFINE Sum(s) == SumFunctionOnSet(f, s)
           Bad == {s \in SUBSET S : \E x \in s : Sum(s) # f[x] + Sum(s \ {x})}
<1>1. SUFFICES ASSUME Bad # {} PROVE FALSE
  OBVIOUS
<1>2. PICK s \in Bad : \A t \in Bad : t \subseteq s => t = s
  <2>1. Bad \in SUBSET SUBSET S
    OBVIOUS
  <2>2. QED
    <3> HIDE DEF Bad
    <3>1. QED
      BY <1>1, <2>1, MinimalSubset
<1>3. PICK x \in s : Sum(s) # f[x] + Sum(s \ {x})
  OBVIOUS
<1> DEFINE c == FirstAdded(s)
<1>4. c \in s
  BY DEF FirstAdded
<1>5. \A t \in SUBSET s : IsFiniteSet(t) /\ Sum(t) \in Int
  BY FS_Subset, SumType
<1>6. Sum(s) = f[c] + Sum(s \ {c})
  BY <1>3, <1>5, SumUnfolds
<1>7. x # c
  BY <1>3, <1>6
<1>8. \A t \in SUBSET s : t # s => \A z \in t : Sum(t) = f[z] + Sum(t \ {z})
  BY <1>2
<1> DEFINE rest == s \ {c, x}
<1>9. /\ (s \ {c}) \ {x} = rest /\ (s \ {x}) \ {c} = rest /\ rest \in SUBSET s
      /\ s \ {c} \in SUBSET s /\ s \ {c} # s /\ x \in s \ {c}
      /\ s \ {x} \in SUBSET s /\ s \ {x} # s /\ c \in s \ {x}
  BY <1>4, <1>7
<1>10. f[x] \in Int /\ f[c] \in Int /\ Sum(rest) \in Int
  BY <1>4, <1>5, <1>9
<1> HIDE DEF Sum, c, rest, Bad
<1>11. Sum(s \ {c}) = f[x] + Sum(rest) /\ Sum(s \ {x}) = f[c] + Sum(rest)
  BY <1>8, <1>9
<1>12. QED
  BY <1>3, <1>6, <1>10, <1>11

\* One more index adds its value.
THEOREM SumAdd ==
  ASSUME NEW S, IsFiniteSet(S), NEW f, NEW y, y \notin S, \A x \in S \cup {y} : f[x] \in Int
  PROVE  SumFunctionOnSet(f, S \cup {y}) = f[y] + SumFunctionOnSet(f, S)
<1>1. IsFiniteSet(S \cup {y}) /\ (S \cup {y}) \ {y} = S /\ y \in S \cup {y}
  BY FS_AddElement
<1>2. SumFunctionOnSet(f, S \cup {y}) = f[y] + SumFunctionOnSet(f, (S \cup {y}) \ {y})
  BY <1>1, SumRemove
<1>3. QED
  BY <1>1, <1>2

\* The sum over two sets without a common index.
THEOREM SumUnion ==
  ASSUME NEW f, NEW S, NEW T, S \cap T = {}, \A x \in S \cup T : f[x] \in Int,
         IsFiniteSet(S), IsFiniteSet(T)
  PROVE  SumFunctionOnSet(f, S \cup T) = SumFunctionOnSet(f, S) + SumFunctionOnSet(f, T)
<1> DEFINE Sum(s) == SumFunctionOnSet(f, s)
           Bad == {s \in SUBSET T : Sum(S \cup s) # Sum(S) + Sum(s)}
<1>1. SUFFICES ASSUME Bad # {} PROVE FALSE
  OBVIOUS
<1>2. PICK s \in Bad : \A t \in Bad : t \subseteq s => t = s
  <2>1. Bad \in SUBSET SUBSET T
    OBVIOUS
  <2>2. QED
    <3> HIDE DEF Bad
    <3>1. QED
      BY <1>1, <2>1, MinimalSubset
<1>3. \A t \in SUBSET s : IsFiniteSet(t) /\ Sum(t) \in Int
  BY FS_Subset, SumType
<1>4. Sum(S) \in Int
  BY SumType
<1>5. s # {}
  <2>1. Sum({}) = 0
    BY SumEmpty
  <2>2. SUFFICES ASSUME s = {} PROVE FALSE
    OBVIOUS
  <2>3. S \cup s = S
    BY <2>2
  <2>4. Sum(S \cup s) # Sum(S) + Sum(s)
    OBVIOUS
  <2> HIDE DEF Sum, Bad
  <2>5. QED
    BY <1>4, <2>1, <2>2, <2>3, <2>4
<1>6. PICK y \in s : TRUE
  BY <1>5
<1> DEFINE r == s \ {y}
<1>7. Sum(S \cup r) = Sum(S) + Sum(r)
  BY <1>2
<1>8. S \cup s = (S \cup r) \cup {y} /\ s = r \cup {y} /\ y \notin S \cup r /\ r \in SUBSET s
  BY <1>6
<1>9. IsFiniteSet(S \cup r) /\ IsFiniteSet(r)
  BY <1>3, <1>8, FS_Union
<1>10. \A x \in (S \cup r) \cup {y} : f[x] \in Int
  BY <1>8
<1>11. Sum(S \cup s) = f[y] + Sum(S \cup r) /\ Sum(s) = f[y] + Sum(r)
  <2> HIDE DEF r, Bad
  <2>1. Sum((S \cup r) \cup {y}) = f[y] + Sum(S \cup r)
    BY <1>8, <1>9, <1>10, SumAdd
  <2>2. Sum(r \cup {y}) = f[y] + Sum(r)
    BY <1>8, <1>9, <1>10, SumAdd
  <2>3. QED
    BY <1>8, <2>1, <2>2
<1>12. QED
  <2>1. Sum(S \cup s) # Sum(S) + Sum(s)
    OBVIOUS
  <2>2. f[y] \in Int /\ Sum(r) \in Int
    BY <1>3, <1>8, <1>10
  <2> HIDE DEF Sum, r, Bad
  <2>3. QED
    BY <1>4, <1>7, <1>11, <2>1, <2>2

\* A sum depends on the values at its indices alone.
THEOREM SumSame ==
  ASSUME NEW S, IsFiniteSet(S), NEW f, NEW g, \A x \in S : f[x] = g[x]
  PROVE  SumFunctionOnSet(f, S) = SumFunctionOnSet(g, S)
<1> DEFINE Bad == {s \in SUBSET S : SumFunctionOnSet(f, s) # SumFunctionOnSet(g, s)}
<1>1. SUFFICES ASSUME Bad # {} PROVE FALSE
  OBVIOUS
<1>2. PICK s \in Bad : \A t \in Bad : t \subseteq s => t = s
  <2>1. Bad \in SUBSET SUBSET S
    OBVIOUS
  <2>2. QED
    <3> HIDE DEF Bad
    <3>1. QED
      BY <1>1, <2>1, MinimalSubset
<1>3. IsFiniteSet(s) /\ s \in SUBSET S
  BY FS_Subset
<1>4. s # {}
  BY SumEmpty
<1>5. FirstAdded(s) \in s
  BY <1>4 DEF FirstAdded
<1>6. /\ SumFunctionOnSet(f, s) = f[FirstAdded(s)] + SumFunctionOnSet(f, s \ {FirstAdded(s)})
      /\ SumFunctionOnSet(g, s) = g[FirstAdded(s)] + SumFunctionOnSet(g, s \ {FirstAdded(s)})
  BY <1>3, <1>4, SumUnfolds
<1>7. SumFunctionOnSet(f, s \ {FirstAdded(s)}) = SumFunctionOnSet(g, s \ {FirstAdded(s)})
  BY <1>2, <1>5
<1>8. QED
  BY <1>3, <1>5, <1>6, <1>7

-----------------------------------------------------------------------------
(* The least and the largest of numbers.                                   *)
-----------------------------------------------------------------------------

\* A set of numbers has a least one.
LEMMA LeastNumber ==
    ASSUME NEW T \in SUBSET Nat, T # {}
    PROVE  \E n \in T : \A m \in T : n <= m
<1>1. PICK x \in T : TRUE
  OBVIOUS
<1> DEFINE S == 0 .. x
           Above(n) == {k \in S : n <= k /\ \E m \in T : m <= k}
           U == {u \in SUBSET S : \E n \in T : n <= x /\ u = n .. x}
<1>2. x \in Nat /\ IsFiniteSet(S)
  BY <1>1, FS_Interval
<1> DEFINE V == {u \in SUBSET S : \E n \in T : n <= x /\ u = 0 .. n}
<1>3. V \in SUBSET SUBSET S /\ V # {}
  <2>1. 0 .. x \in V
    BY <1>1, <1>2
  <2>2. QED
    BY <2>1
<1>4. PICK s \in V : \A t \in V : t \subseteq s => t = s
  <2> HIDE DEF V, S
  <2>1. QED
    BY <1>2, <1>3, MinimalSubset
<1>5. PICK n \in T : n <= x /\ s = 0 .. n
  BY <1>4
<1>6. ASSUME NEW m \in T, ~(n <= m) PROVE FALSE
  <2>1. n \in Nat /\ m \in Nat /\ m < n
    BY <1>6
  <2>2. 0 .. m \in V /\ 0 .. m \subseteq s
    BY <2>1, <1>2, <1>5
  <2>3. 0 .. m = s
    BY <2>2, <1>4
  <2>4. n \in s /\ n \notin 0 .. m
    BY <2>1, <1>5
  <2>5. QED
    BY <2>3, <2>4
<1>7. QED
  BY <1>6

LEMMA MinFacts ==
    ASSUME NEW T \in SUBSET Nat, T # {}
    PROVE  Min(T) \in T /\ \A m \in T : Min(T) <= m
BY LeastNumber DEF Min

\* Induction on the numbers, and on the subsets of a finite set.
LEMMA AllNumbers ==
    ASSUME NEW T \in SUBSET Nat, 0 \in T, \A n \in T : n + 1 \in T
    PROVE  T = Nat
<1>1. SUFFICES ASSUME Nat \ T # {} PROVE FALSE
  OBVIOUS
<1>2. PICK n \in Nat \ T : \A m \in Nat \ T : n <= m
  BY <1>1, LeastNumber
<1>3. n # 0 /\ n - 1 \in Nat
  BY <1>2
<1>4. n - 1 \in T
  BY <1>2, <1>3
<1>5. (n - 1) + 1 \in T
  BY <1>4
<1>6. QED
  BY <1>2, <1>5

LEMMA AllSubsets ==
    ASSUME NEW S, IsFiniteSet(S), NEW G \in SUBSET SUBSET S, {} \in G,
           \A s \in G : \A x \in S \ s : s \cup {x} \in G
    PROVE  \A s \in SUBSET S : s \in G
<1> DEFINE Bad == (SUBSET S) \ G
<1>1. SUFFICES ASSUME Bad # {} PROVE FALSE
  OBVIOUS
<1>2. PICK s \in Bad : \A t \in Bad : t \subseteq s => t = s
  <2>1. Bad \in SUBSET SUBSET S
    OBVIOUS
  <2>2. QED
    <3> HIDE DEF Bad
    <3>1. QED
      BY <1>1, <2>1, MinimalSubset
<1>3. PICK x \in s : TRUE
  BY <1>2
<1>4. s \ {x} \in G /\ x \in S \ (s \ {x}) /\ (s \ {x}) \cup {x} = s
  BY <1>2, <1>3
<1>5. QED
  BY <1>2, <1>4

-----------------------------------------------------------------------------
(* What ORDER BY gives.                                                    *)

\* R tells of any two rows of S which comes first, and never both.
PutsInOrder(R, S) ==
    /\ \A x \in S : <<x, x>> \notin R
    /\ \A x, y \in S : x # y => <<x, y>> \in R \/ <<y, x>> \in R
    /\ \A x, y, z \in S : <<x, y>> \in R /\ <<y, z>> \in R => <<x, z>> \in R

\* Some row of a finite set comes last.
LEMMA LastRow ==
    ASSUME NEW S, IsFiniteSet(S), S # {}, NEW R, PutsInOrder(R, S)
    PROVE  \E l \in S : \A x \in S \ {l} : <<x, l>> \in R
<1> DEFINE Bad == {s \in SUBSET S : s # {} /\ ~\E l \in s : \A x \in s \ {l} : <<x, l>> \in R}
<1>1. SUFFICES ASSUME Bad # {} PROVE FALSE
  OBVIOUS
<1>2. PICK s \in Bad : \A t \in Bad : t \subseteq s => t = s
  <2>1. Bad \in SUBSET SUBSET S
    OBVIOUS
  <2>2. QED
    <3> HIDE DEF Bad
    <3>1. QED
      BY <1>1, <2>1, MinimalSubset
<1>3. PICK x \in s : TRUE
  OBVIOUS
<1>4. s \ {x} \notin Bad /\ s \ {x} \in SUBSET S
  BY <1>2, <1>3
<1>5. s \ {x} # {}
  BY <1>2, <1>3
<1>6. PICK l \in s \ {x} : \A y \in (s \ {x}) \ {l} : <<y, l>> \in R
  BY <1>4, <1>5
<1>7. l \in S /\ x \in S /\ l # x /\ s \subseteq S
  BY <1>2, <1>3, <1>6
<1>8. CASE <<x, l>> \in R
  <2>1. \A y \in s \ {l} : <<y, l>> \in R
    BY <1>6, <1>8
  <2>2. QED
    BY <1>2, <1>6, <2>1
<1>9. CASE <<l, x>> \in R
  <2>1. \A y \in s \ {x} : <<y, x>> \in R
    BY <1>6, <1>7, <1>9 DEF PutsInOrder
  <2>2. QED
    BY <1>2, <1>3, <2>1
<1>10. QED
  BY <1>7, <1>8, <1>9 DEF PutsInOrder

\* A finite set of numbers has a largest one.
LEMMA LargestNumber ==
    ASSUME NEW T \in SUBSET Nat, T # {}, IsFiniteSet(T)
    PROVE  \E n \in T : \A m \in T : m <= n
<1> DEFINE R == {e \in T \X T : e[1] < e[2]}
<1>1. PutsInOrder(R, T)
  <2>1. \A x, y \in T : <<x, y>> \in R <=> x < y
    OBVIOUS
  <2> HIDE DEF R
  <2>2. QED
    BY <2>1 DEF PutsInOrder
<1>2. \A x, y : <<x, y>> \in R => x < y
  OBVIOUS
<1> HIDE DEF R
<1>3. PICK n \in T : \A x \in T \ {n} : <<x, n>> \in R
  BY <1>1, LastRow
<1>4. ASSUME NEW m \in T PROVE m <= n
  <2>1. m \in Nat /\ n \in Nat
    OBVIOUS
  <2>2. CASE m # n
    <3>1. <<m, n>> \in R
      BY <1>3, <2>2
    <3>2. m < n
      BY <1>2, <3>1
    <3>3. QED
      BY <2>1, <3>2
  <2>3. QED
    BY <2>1, <2>2
<1>5. QED
  BY <1>4

LEMMA MaxFacts ==
    ASSUME NEW T \in SUBSET Nat, T # {}, IsFiniteSet(T)
    PROVE  Max(T) \in T /\ Max(T) \in Nat /\ \A m \in T : m <= Max(T)
<1>1. \E n \in T : \A m \in T : n >= m
  BY LargestNumber
<1>2. Max(T) \in T /\ \A m \in T : Max(T) >= m
  BY <1>1 DEF Max
<1>3. QED
  BY <1>2

\* The image of a finite set.
LEMMA ImageFinite ==
    ASSUME NEW S, IsFiniteSet(S), NEW f
    PROVE  IsFiniteSet({f[x] : x \in S}) /\ Cardinality({f[x] : x \in S}) <= Cardinality(S)
<1> DEFINE T == {f[x] : x \in S}
           g == [x \in S |-> f[x]]
<1>1. g \in Surjection(S, T)
  BY DEF Surjection
<1> HIDE DEF T, g
<1>2. IsFiniteSet(T) /\ Cardinality(T) <= Cardinality(S)
  BY <1>1, FS_Surjection
<1>3. QED
  BY <1>2 DEF T

\* The newest of some stamps, 0 if there are none.
LEMMA NewestFacts ==
    ASSUME NEW S, IsFiniteSet(S), NEW f, \A x \in S : f[x] \in Nat
    PROVE  LET newest == Max({0} \cup {f[x] : x \in S})
           IN  newest \in Nat /\ (\A x \in S : f[x] <= newest) /\ (newest = 0 \/ \E x \in S : newest = f[x])
<1> DEFINE T == {f[x] : x \in S}
           U == {0} \cup T
<1>1. IsFiniteSet(T)
  BY ImageFinite
<1>2. IsFiniteSet(T \cup {0})
  BY <1>1, FS_AddElement
<1>3. U = T \cup {0} /\ U # {} /\ U \in SUBSET Nat
  OBVIOUS
<1> HIDE DEF U
<1>4. IsFiniteSet(U)
  BY <1>2, <1>3
<1>5. Max(U) \in U /\ Max(U) \in Nat /\ \A m \in U : m <= Max(U)
  BY <1>3, <1>4, MaxFacts
<1>6. QED
  BY <1>5 DEF U

\* The rows of a finite set can be put in order.
LEMMA SortedExists ==
    ASSUME NEW S, IsFiniteSet(S), NEW R, PutsInOrder(R, S)
    PROVE  \E s \in [1 .. Cardinality(S) -> S] : Ascending(s, R)
<1> DEFINE Bad == {t \in SUBSET S : ~\E s \in [1 .. Cardinality(t) -> t] : Ascending(s, R)}
<1>1. SUFFICES ASSUME Bad # {} PROVE FALSE
  OBVIOUS
<1>2. PICK t \in Bad : \A u \in Bad : u \subseteq t => u = t
  <2>1. Bad \in SUBSET SUBSET S
    OBVIOUS
  <2>2. QED
    <3> HIDE DEF Bad
    <3>1. QED
      BY <1>1, <2>1, MinimalSubset
<1>3. IsFiniteSet(t) /\ Cardinality(t) \in Nat /\ PutsInOrder(R, t)
  BY <1>2, FS_Subset, FS_CardinalityType DEF PutsInOrder
<1>4. t # {}
  <2>1. SUFFICES ASSUME t = {} PROVE FALSE
    OBVIOUS
  <2>2. Cardinality(t) = 0
    BY <2>1, FS_EmptySet
  <2>3. [i \in 1 .. 0 |-> i] \in [1 .. Cardinality(t) -> t] /\ Ascending([i \in 1 .. 0 |-> i], R)
    BY <2>2 DEF Ascending
  <2>4. QED
    BY <1>2, <2>3
<1>5. PICK l \in t : \A x \in t \ {l} : <<x, l>> \in R
  BY <1>3, <1>4, LastRow
<1> DEFINE u == t \ {l}
           n == Cardinality(u)
<1>6. IsFiniteSet(u) /\ n \in Nat /\ Cardinality(t) = n + 1
  <2>1. IsFiniteSet(u) /\ Cardinality(u) = Cardinality(t) - 1
    BY <1>3, <1>5, FS_RemoveElement
  <2>2. Cardinality(u) \in Nat
    BY <2>1, FS_CardinalityType
  <2>3. QED
    BY <1>3, <2>1, <2>2
<1>7. u \in SUBSET S /\ u \notin Bad
  BY <1>2, <1>5
<1>8. PICK s \in [1 .. n -> u] : Ascending(s, R)
  BY <1>7
<1> HIDE DEF u, n
<1> DEFINE f == [i \in 1 .. n + 1 |-> IF i = n + 1 THEN l ELSE s[i]]
<1>9. \A i \in 1 .. n + 1 : i # n + 1 => i \in 1 .. n /\ s[i] \in u
  BY <1>6, <1>8
<1>10. f \in [1 .. n + 1 -> t]
  BY <1>5, <1>9 DEF u
<1>11. Ascending(f, R)
  <2>1. SUFFICES ASSUME NEW i \in 1 .. n + 1, NEW j \in 1 .. n + 1, i < j PROVE <<f[i], f[j]>> \in R
    BY DEF Ascending
  <2>2. i # n + 1 /\ f[i] = s[i] /\ s[i] \in u /\ i \in 1 .. n
    BY <1>6, <1>9, <2>1
  <2>3. CASE j = n + 1
    BY <1>5, <2>2, <2>3 DEF u
  <2>4. CASE j # n + 1
    <3>1. j \in 1 .. n /\ f[j] = s[j] /\ DOMAIN s = 1 .. n
      BY <1>8, <1>9, <2>4
    <3>2. QED
      BY <1>8, <2>1, <2>2, <3>1 DEF Ascending
  <2>5. QED
    BY <2>3, <2>4
<1>12. QED
  <2>1. f \in [1 .. Cardinality(t) -> t]
    BY <1>6, <1>10
  <2> HIDE DEF f
  <2>2. QED
    BY <1>2, <1>11, <2>1

\* All rows of the set, once each, in their order.
LEMMA SortedFacts ==
    ASSUME NEW S, IsFiniteSet(S), NEW R, PutsInOrder(R, S)
    PROVE  /\ SortedBy(S, R) \in [1 .. Cardinality(S) -> S]
           /\ \A i, j \in 1 .. Cardinality(S) : i < j => <<SortedBy(S, R)[i], SortedBy(S, R)[j]>> \in R
           /\ \A i, j \in 1 .. Cardinality(S) : SortedBy(S, R)[i] = SortedBy(S, R)[j] => i = j
           /\ \A x \in S : \E i \in 1 .. Cardinality(S) : SortedBy(S, R)[i] = x
           /\ Cardinality(S) \in Nat
<1> DEFINE s == SortedBy(S, R)
           n == Cardinality(S)
<1>1. s \in [1 .. n -> S] /\ Ascending(s, R)
  BY SortedExists DEF SortedBy
<1>2. n \in Nat
  BY FS_CardinalityType
<1> HIDE DEF s, n
<1>3. \A i, j \in 1 .. n : i < j => <<s[i], s[j]>> \in R
  BY <1>1 DEF Ascending
<1>4. \A i, j \in 1 .. n : s[i] = s[j] => i = j
  <2>1. ASSUME NEW i \in 1 .. n, NEW j \in 1 .. n, s[i] = s[j], i < j PROVE FALSE
    <3>1. <<s[i], s[j]>> \in R /\ s[i] \in S
      BY <1>1, <1>3, <2>1
    <3>2. QED
      BY <2>1, <3>1 DEF PutsInOrder
  <2>2. QED
    BY <1>2, <2>1
<1>5. s \in Injection(1 .. n, S) /\ Cardinality(1 .. n) = n
  <2>1. IsInjective(s)
    BY <1>1, <1>4 DEF IsInjective
  <2>2. s \in Injection(1 .. n, S)
    BY <1>1, <1>4, <2>1 DEF Injection, Injection, IsInjective
  <2>3. QED
    BY <1>2, <2>2, FS_Interval
<1>6. s \in Surjection(1 .. n, S)
  BY <1>5, FS_Injection DEF n
<1>7. \A x \in S : \E i \in 1 .. n : s[i] = x
  BY <1>6 DEF Surjection
<1>8. QED
  BY <1>1, <1>2, <1>3, <1>4, <1>7 DEF s, n

-----------------------------------------------------------------------------
(* Sequences.                                                              *)
-----------------------------------------------------------------------------

\* A sequence of whatever it is that it holds.
IsSeq(s) == s \in Seq(ToSet(s))

LEMMA SeqOfAny ==
    ASSUME NEW S, NEW s \in Seq(S) PROVE IsSeq(s)
PROOF
<1>1. Len(s) \in Nat /\ DOMAIN s = 1 .. Len(s) /\ s = [i \in 1 .. Len(s) |-> s[i]]
  OBVIOUS
<1>2. s \in [1 .. Len(s) -> ToSet(s)]
  BY <1>1 DEF ToSet
<1> QED BY <1>1, <1>2 DEF IsSeq

LEMMA SeqFacts ==
    ASSUME NEW s, IsSeq(s)
    PROVE  Len(s) \in Nat /\ DOMAIN s = 1 .. Len(s) /\ s = [i \in 1 .. Len(s) |-> s[i]] /\ (s = <<>> <=> Len(s) = 0)
PROOF BY DEF IsSeq

LEMMA AppendFacts ==
    ASSUME NEW s, IsSeq(s), NEW x
    PROVE  /\ IsSeq(Append(s, x)) /\ Append(s, x) # <<>>
           /\ Len(Append(s, x)) = Len(s) + 1
           /\ ToSet(Append(s, x)) = ToSet(s) \cup {x}
           /\ Append(s, x)[Len(s) + 1] = x
           /\ \A i \in 1 .. Len(s) : Append(s, x)[i] = s[i]
PROOF
<1> DEFINE S == ToSet(s) \cup {x}
           t == Append(s, x)
<1>1. s \in Seq(S) /\ x \in S /\ Len(s) \in Nat /\ DOMAIN s = 1 .. Len(s)
  BY DEF IsSeq
<1> HIDE DEF S
<1>2. /\ t \in Seq(S) /\ Len(t) = Len(s) + 1 /\ DOMAIN t = 1 .. Len(s) + 1
      /\ t[Len(s) + 1] = x /\ \A i \in 1 .. Len(s) : t[i] = s[i]
  BY <1>1
<1>3. IsSeq(t)
  BY <1>2, SeqOfAny
<1>4. ToSet(t) = ToSet(s) \cup {x}
  BY <1>1, <1>2 DEF ToSet
<1>5. t # <<>>
  BY <1>1, <1>2
<1> QED BY <1>2, <1>3, <1>4, <1>5

LEMMA NoSeq == IsSeq(<<>>)
PROOF
<1>1. \A S : <<>> \in Seq(S)
  OBVIOUS
<1> QED BY <1>1 DEF IsSeq

LEMMA NothingIn == ToSet(<<>>) = {}
PROOF
<1>1. DOMAIN <<>> = 1 .. 0
  OBVIOUS
<1> QED BY <1>1 DEF ToSet

LEMMA JoinFacts ==
    ASSUME NEW s, IsSeq(s), NEW t, IsSeq(t)
    PROVE  /\ IsSeq(s \o t) /\ Len(s \o t) = Len(s) + Len(t)
           /\ (s # <<>> => s \o t # <<>>)
           /\ \A i \in 1 .. Len(s) + Len(t) : (s \o t)[i] = IF i <= Len(s) THEN s[i] ELSE t[i - Len(s)]
PROOF
<1> DEFINE S == ToSet(s) \cup ToSet(t)
<1>1. s \in Seq(S) /\ t \in Seq(S) /\ Len(s) \in Nat /\ Len(t) \in Nat
  BY DEF IsSeq
<1> HIDE DEF S
<1>2. s \o t \in Seq(S) /\ Len(s \o t) = Len(s) + Len(t)
  BY <1>1
<1>3. \A i \in 1 .. Len(s) + Len(t) : (s \o t)[i] = IF i <= Len(s) THEN s[i] ELSE t[i - Len(s)]
  BY <1>1
<1>4. s # <<>> => s \o t # <<>>
  BY <1>1, <1>2
<1> QED BY <1>2, <1>3, <1>4, SeqOfAny

\* What is left of a sequence behind a prefix.
Rest(s, n) == SubSeq(s, n + 1, Len(s))

LEMMA RestFacts ==
    ASSUME NEW s, IsSeq(s), NEW n \in Nat, n <= Len(s)
    PROVE  /\ IsSeq(Rest(s, n)) /\ Len(Rest(s, n)) = Len(s) - n
           /\ \A i \in 1 .. Len(s) - n : Rest(s, n)[i] = s[n + i]
PROOF
<1> DEFINE S == ToSet(s)
<1>1. s \in Seq(S) /\ Len(s) \in Nat
  BY DEF IsSeq
<1> HIDE DEF S
<1>2. Rest(s, n) \in Seq(S) /\ Len(Rest(s, n)) = Len(s) - n
  BY <1>1 DEF Rest
<1>3. \A i \in 1 .. Len(s) - n : Rest(s, n)[i] = s[n + i]
  BY <1>1 DEF Rest
<1> QED BY <1>2, <1>3, SeqOfAny

LEMMA SameSeq ==
    ASSUME NEW s, IsSeq(s), NEW t, IsSeq(t), Len(s) = Len(t), \A i \in 1 .. Len(s) : s[i] = t[i]
    PROVE  s = t
PROOF BY SeqFacts

LEMMA PrefixFacts ==
    ASSUME NEW s, IsSeq(s), NEW t, IsSeq(t)
    PROVE  IsPrefix(s, t) <=> Len(s) <= Len(t) /\ \A i \in 1 .. Len(s) : s[i] = t[i]
PROOF
<1>1. s \in Seq(ToSet(s) \cup ToSet(t)) /\ t \in Seq(ToSet(s) \cup ToSet(t)) /\ Len(s) \in Nat /\ Len(t) \in Nat
  BY DEF IsSeq
<1>2. SUFFICES ASSUME Len(s) <= Len(t)
               PROVE  SubSeq(s, 1, Len(s)) = SubSeq(t, 1, Len(s)) <=> \A i \in 1 .. Len(s) : s[i] = t[i]
  BY <1>1 DEF IsPrefix
<1> DEFINE S == ToSet(s) \cup ToSet(t)
           n == Len(s)
           a == SubSeq(s, 1, n)
           b == SubSeq(t, 1, n)
<1> HIDE DEF S, n
<1>3. n \in Nat /\ n <= Len(t) /\ n = Len(s) /\ s \in Seq(S) /\ t \in Seq(S) /\ Len(t) \in Nat
  BY <1>1, <1>2 DEF n, S
<1>4. a \in Seq(S) /\ Len(a) = n /\ \A i \in 1 .. n : a[i] = s[i]
  BY <1>3
<1>5. b \in Seq(S) /\ Len(b) = n /\ \A i \in 1 .. n : b[i] = t[i]
  BY <1>3
<1>6. IsSeq(a) /\ IsSeq(b)
  BY <1>4, <1>5, SeqOfAny
<1> HIDE DEF a, b
<1>7. (\A i \in 1 .. n : s[i] = t[i]) => a = b
  BY <1>4, <1>5, <1>6, SameSeq
<1>8. a = b => \A i \in 1 .. n : s[i] = t[i]
  BY <1>4, <1>5
<1> QED BY <1>7, <1>8 DEF a, b, n
=============================================================================
