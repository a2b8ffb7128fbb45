----------------------------- MODULE FoldLemmas -----------------------------
(***************************************************************************)
(* Sums over finite sets.  A sum is a fold, and a fold is a recursive      *)
(* function on the subsets of the set; that it satisfies its own equation  *)
(* is proved here, by induction on finite sets.  The induction is stated   *)
(* for a set of subsets instead of a predicate.  A set in an order is a    *)
(* list by the ranks of its elements, which are proved to fill 0..size-1.  *)
(***************************************************************************)
EXTENDS FiniteSetTheorems, WellFoundedInduction, FiniteSetsExt, TLAPS

-----------------------------------------------------------------------------
(* Induction. *)

\* A non-empty set of subsets of a finite set has a minimal element.
LEMMA MinimalSubset ==
  ASSUME NEW S, IsFiniteSet(S), NEW T, T \subseteq SUBSET S, T # {}
  PROVE  \E x \in T : \A y \in T : y \subseteq x => y = x
<1>1. IsWellFoundedOn(StrictSubsetOrdering(S), SUBSET S)
  BY FS_StrictSubsetOrderingWellFounded, FS_FiniteSubsetsOfFinite
<1>2. \E x \in T : \A y \in T : ~(<<y, x>> \in StrictSubsetOrdering(S))
  BY <1>1, WFMin
<1>3. QED BY <1>2 DEF StrictSubsetOrdering

\* What holds of the empty set and is kept by every further element holds of
\* all subsets.
LEMMA SubsetInduction ==
  ASSUME NEW S, IsFiniteSet(S), NEW G, {} \in G,
         \A T \in SUBSET S : \A x \in S \ T : T \in G => T \cup {x} \in G
  PROVE  SUBSET S \subseteq G
<1> DEFINE Bad == (SUBSET S) \ G
<1> SUFFICES ASSUME Bad # {} PROVE FALSE
  OBVIOUS
<1>1. PICK T \in Bad : \A U \in Bad : U \subseteq T => U = T
  <2>1. Bad \subseteq SUBSET S
    OBVIOUS
  <2> HIDE DEF Bad
  <2>2. QED BY <2>1, MinimalSubset
<1>2. PICK x \in T : TRUE
  BY <1>1
<1>3. T \ {x} \in G
  BY <1>1, <1>2
<1>4. (T \ {x}) \cup {x} \in G
  BY <1>1, <1>2, <1>3
<1>5. (T \ {x}) \cup {x} = T
  BY <1>2
<1>6. QED BY <1>1, <1>4, <1>5

\* A non-empty set of naturals has a least element.
LEMMA LeastNumber ==
  ASSUME NEW T, T \subseteq Nat, T # {}
  PROVE  \E x \in T : \A y \in T : x <= y
<1>1. IsWellFoundedOn({ss \in Nat \X Nat : ss[1] < ss[2]}, Nat)
  BY NatLessThanWellFounded DEF OpToRel
<1>2. PICK x \in T : \A y \in T : ~(<<y, x>> \in {ss \in Nat \X Nat : ss[1] < ss[2]})
  BY <1>1, WFMin
<1>3. \A y \in T : ~(y < x)
  BY <1>2
<1>4. QED BY <1>3

\* The values of a function on a finite set are finitely many.
LEMMA ImageIsFinite ==
  ASSUME NEW S, IsFiniteSet(S), NEW f
  PROVE  /\ IsFiniteSet({f[x] : x \in S})
         /\ Cardinality({f[x] : x \in S}) <= Cardinality(S)
<1> DEFINE T == {f[x] : x \in S}
           g == [x \in S |-> f[x]]
<1>1. g \in Surjection(S, T)
  BY DEF Surjection
<1> HIDE DEF T, g
<1>2. IsFiniteSet(T) /\ Cardinality(T) <= Cardinality(S)
  BY <1>1, FS_Surjection
<1>3. QED BY <1>2 DEF T

\* An injection keeps the size of a set.
LEMMA ImageSize ==
  ASSUME NEW S, IsFiniteSet(S), NEW f, \A x, y \in S : f[x] = f[y] => x = y
  PROVE  Cardinality({f[x] : x \in S}) = Cardinality(S)
<1> DEFINE T == {f[x] : x \in S}
           g == [x \in S |-> f[x]]
<1>1. g \in Surjection(S, T)
  BY DEF Surjection
<1>2. g \in Injection(S, T)
  BY DEF Injection, IsInjective
<1> HIDE DEF T, g
<1>3. Cardinality(T) = Cardinality(S)
  BY <1>1, <1>2, FS_Surjection
<1>4. QED BY <1>3 DEF T

\* Two sets that share no element.
LEMMA DisjointSize ==
  ASSUME NEW S, IsFiniteSet(S), NEW T, IsFiniteSet(T), S \cap T = {}
  PROVE  IsFiniteSet(S \cup T) /\ Cardinality(S \cup T) = Cardinality(S) + Cardinality(T)
<1>1. Cardinality(S \cap T) = 0
  BY FS_EmptySet
<1>2. Cardinality(S) \in Nat /\ Cardinality(T) \in Nat
  BY FS_CardinalityType
<1>3. /\ IsFiniteSet(S \cup T)
      /\ Cardinality(S \cup T) = Cardinality(S) + Cardinality(T) - Cardinality(S \cap T)
  BY FS_Union
<1>4. QED BY <1>1, <1>2, <1>3

-----------------------------------------------------------------------------
(* The table of the sums of a function over all subsets of a set. *)

Chosen(T) == CHOOSE x \in T : TRUE

SumTable(g, f, S) ==
  g = [T \in SUBSET S |-> IF T = {} THEN 0 ELSE f[Chosen(T)] + g[T \ {Chosen(T)}]]

\* What is chosen from a non-empty set is in it.
LEMMA ChosenIn == ASSUME NEW T, T # {} PROVE Chosen(T) \in T
BY DEF Chosen

\* Two tables agree where both have a value.
LEMMA SumTableUnique ==
  ASSUME NEW S, IsFiniteSet(S), NEW R, NEW f, NEW g, NEW h,
         SumTable(g, f, S), SumTable(h, f, R)
  PROVE  \A T \in SUBSET S : T \subseteq R => g[T] = h[T]
<1> DEFINE Bad == {T \in SUBSET S : T \subseteq R /\ g[T] # h[T]}
<1> SUFFICES ASSUME Bad # {} PROVE FALSE
  OBVIOUS
<1>1. PICK T \in Bad : \A U \in Bad : U \subseteq T => U = T
  <2>1. Bad \subseteq SUBSET S
    OBVIOUS
  <2> HIDE DEF Bad
  <2>2. QED BY <2>1, MinimalSubset
<1>2. CASE T = {}
  BY <1>1, <1>2 DEF SumTable
<1>3. CASE T # {}
  <2>1. Chosen(T) \in T
    BY <1>3, ChosenIn
  <2>2. T \ {Chosen(T)} \notin Bad /\ T \ {Chosen(T)} \in SUBSET S /\ T \ {Chosen(T)} \subseteq R
    BY <1>1, <2>1
  <2>3. g[T] = f[Chosen(T)] + g[T \ {Chosen(T)}] /\ h[T] = f[Chosen(T)] + h[T \ {Chosen(T)}]
    BY <1>1, <1>3 DEF SumTable
  <2>4. QED BY <1>1, <2>2, <2>3
<1>4. QED BY <1>2, <1>3

\* There is a table for every finite set.
LEMMA SumTableExists ==
  ASSUME NEW S, IsFiniteSet(S), NEW f
  PROVE  \E g : SumTable(g, f, S)
<1> DEFINE Bad == {T \in SUBSET S : ~ \E g : SumTable(g, f, T)}
<1> SUFFICES ASSUME Bad # {} PROVE FALSE
  OBVIOUS
<1>1. PICK T \in Bad : \A U \in Bad : U \subseteq T => U = T
  <2>1. Bad \subseteq SUBSET S
    OBVIOUS
  <2> HIDE DEF Bad
  <2>2. QED BY <2>1, MinimalSubset
<1> DEFINE tab(U) == CHOOSE g : SumTable(g, f, U)
           val(U) == tab(U)[U]
           g == [U \in SUBSET T |->
                   IF U = {} THEN 0 ELSE f[Chosen(U)] + val(U \ {Chosen(U)})]
<1>2. ASSUME NEW U \in SUBSET T, U # T PROVE SumTable(tab(U), f, U)
  <2>1. U \notin Bad /\ U \in SUBSET S
    BY <1>1, <1>2
  <2>2. QED BY <2>1
<1>3. ASSUME NEW U \in SUBSET T, U # T PROVE g[U] = val(U)
  <2>1. SumTable(tab(U), f, U)
    BY <1>2, <1>3
  <2>2. CASE U = {}
    BY <2>1, <2>2 DEF SumTable
  <2>3. CASE U # {}
    <3> DEFINE V == U \ {Chosen(U)}
    <3>1. Chosen(U) \in U
      BY <2>3, ChosenIn
    <3>2. V \in SUBSET T /\ V # T /\ V \in SUBSET U /\ V \in SUBSET V /\ IsFiniteSet(V)
      <4>1. V \in SUBSET S
        BY <1>1
      <4>2. IsFiniteSet(V)
        BY <4>1, FS_Subset
      <4>3. QED BY <3>1, <4>2
    <3>3. SumTable(tab(V), f, V)
      BY <1>2, <3>2
    <3>4. tab(V)[V] = tab(U)[V]
      <4> HIDE DEF tab, V
      <4>1. QED BY <2>1, <3>2, <3>3, SumTableUnique
    <3>5. tab(U)[U] = f[Chosen(U)] + tab(U)[V]
      BY <2>1, <2>3 DEF SumTable
    <3>6. QED BY <2>3, <3>4, <3>5
  <2>4. QED BY <2>2, <2>3
<1>4. ASSUME NEW h, h = g PROVE SumTable(h, f, T)
  <2>1. ASSUME NEW U \in SUBSET T, U # {} PROVE h[U \ {Chosen(U)}] = val(U \ {Chosen(U)})
    <3>1. Chosen(U) \in U
      BY <2>1, ChosenIn
    <3>2. U \ {Chosen(U)} \in SUBSET T /\ U \ {Chosen(U)} # T
      BY <3>1
    <3> HIDE DEF g, val
    <3>3. QED BY <3>2, <1>3, <1>4
  <2>2. h = [U \in SUBSET T |-> IF U = {} THEN 0 ELSE f[Chosen(U)] + h[U \ {Chosen(U)}]]
    <3> HIDE DEF val
    <3>1. QED BY <2>1, <1>4
  <2>3. QED BY <2>2 DEF SumTable
<1>5. \E h : SumTable(h, f, T)
  <2> HIDE DEF g
  <2>1. QED BY <1>4
<1>6. QED BY <1>1, <1>5

-----------------------------------------------------------------------------
(* The sum of a function over a set: the fold MapThenSumSet.               *)

SumOver(f, S) == MapThenSumSet(LAMBDA x : f[x], S)

\* The fold has the value its table has.
LEMMA SumIsTable ==
  ASSUME NEW S, IsFiniteSet(S), NEW f, NEW R, S \subseteq R, NEW g, SumTable(g, f, R)
  PROVE  SumOver(f, S) = g[S]
<1> DEFINE iter == CHOOSE h : h = [T \in SUBSET S |->
                     IF T = {} THEN 0 ELSE LET x == CHOOSE y \in T : TRUE IN f[x] + h[T \ {x}]]
<1>1. SumOver(f, S) = iter[S]
  BY DEF SumOver, MapThenSumSet, MapThenFoldSet
<1>2. iter = [T \in SUBSET S |->
                IF T = {} THEN 0 ELSE LET x == CHOOSE y \in T : TRUE IN f[x] + iter[T \ {x}]]
  <2>1. PICK h : SumTable(h, f, S)
    BY SumTableExists
  <2>2. h = [T \in SUBSET S |->
               IF T = {} THEN 0 ELSE LET x == CHOOSE y \in T : TRUE IN f[x] + h[T \ {x}]]
    BY <2>1 DEF SumTable, Chosen
  <2>3. QED BY <2>2
<1> HIDE DEF iter
<1>3. SumTable(iter, f, S)
  BY <1>2 DEF SumTable, Chosen
<1>4. QED BY <1>1, <1>3, SumTableUnique

\* Nothing adds up to 0.
LEMMA SumEmpty == ASSUME NEW f PROVE SumOver(f, {}) = 0
<1>1. PICK g : SumTable(g, f, {})
  BY SumTableExists, FS_EmptySet
<1>2. SumOver(f, {}) = g[{}]
  BY <1>1, SumIsTable, FS_EmptySet
<1>3. QED BY <1>1, <1>2 DEF SumTable

\* A sum of integers is an integer.
LEMMA SumIsInt ==
  ASSUME NEW S, IsFiniteSet(S), NEW f, \A x \in S : f[x] \in Int
  PROVE  SumOver(f, S) \in Int
<1>1. PICK g : SumTable(g, f, S)
  BY SumTableExists
<1> DEFINE Bad == {T \in SUBSET S : g[T] \notin Int}
<1>2. Bad = {}
  <2> SUFFICES ASSUME Bad # {} PROVE FALSE
    OBVIOUS
  <2>1. PICK T \in Bad : \A U \in Bad : U \subseteq T => U = T
    <3>1. Bad \subseteq SUBSET S
      OBVIOUS
    <3> HIDE DEF Bad
    <3>2. QED BY <3>1, MinimalSubset
  <2>2. CASE T = {}
    BY <1>1, <2>1, <2>2 DEF SumTable
  <2>3. CASE T # {}
    <3>1. Chosen(T) \in T
      BY <2>3, ChosenIn
    <3>2. g[T \ {Chosen(T)}] \in Int
      BY <2>1, <3>1
    <3>3. g[T] = f[Chosen(T)] + g[T \ {Chosen(T)}]
      BY <1>1, <2>1, <2>3 DEF SumTable
    <3>4. f[Chosen(T)] \in Int
      BY <2>1, <3>1
    <3>5. QED BY <2>1, <3>2, <3>3, <3>4
  <2>4. QED BY <2>2, <2>3
<1>3. QED BY <1>1, <1>2, SumIsTable

\* An element may be taken out first, whichever the fold takes.
LEMMA SumRemove ==
  ASSUME NEW S, IsFiniteSet(S), NEW f, \A x \in S : f[x] \in Int, NEW x \in S
  PROVE  SumOver(f, S) = f[x] + SumOver(f, S \ {x})
<1>1. PICK g : SumTable(g, f, S)
  BY SumTableExists
<1>2. \A T \in SUBSET S : g[T] = SumOver(f, T) /\ g[T] \in Int
  <2> SUFFICES ASSUME NEW T \in SUBSET S PROVE g[T] = SumOver(f, T) /\ g[T] \in Int
    OBVIOUS
  <2>1. IsFiniteSet(T)
    BY FS_Subset
  <2>2. QED BY <1>1, <2>1, SumIsTable, SumIsInt
<1> DEFINE Bad == {T \in SUBSET S : \E y \in T : g[T] # f[y] + g[T \ {y}]}
<1>3. Bad = {}
  <2> SUFFICES ASSUME Bad # {} PROVE FALSE
    OBVIOUS
  <2>1. PICK T \in Bad : \A U \in Bad : U \subseteq T => U = T
    <3>1. Bad \subseteq SUBSET S
      OBVIOUS
    <3> HIDE DEF Bad
    <3>2. QED BY <3>1, MinimalSubset
  <2>2. PICK y \in T : g[T] # f[y] + g[T \ {y}]
    BY <2>1
  <2>3. PICK c \in T : g[T] = f[c] + g[T \ {c}]
    <3>1. Chosen(T) \in T
      BY <2>2, ChosenIn
    <3>2. g[T] = f[Chosen(T)] + g[T \ {Chosen(T)}]
      BY <1>1, <2>1, <3>1 DEF SumTable
    <3>3. QED BY <3>1, <3>2
  <2>4. c # y /\ T \in SUBSET S
    BY <2>1, <2>2, <2>3
  <2>5. T \ {c} \notin Bad /\ T \ {y} \notin Bad
    BY <2>1, <2>2, <2>3
  <2>6. g[T \ {c}] = f[y] + g[(T \ {c}) \ {y}]
    BY <2>2, <2>4, <2>5
  <2>7. g[T \ {y}] = f[c] + g[(T \ {y}) \ {c}]
    BY <2>3, <2>4, <2>5
  <2>8. (T \ {y}) \ {c} = (T \ {c}) \ {y} /\ (T \ {c}) \ {y} \in SUBSET S
    BY <2>4
  <2>9. f[c] \in Int /\ f[y] \in Int /\ g[(T \ {c}) \ {y}] \in Int
    BY <1>2, <2>4, <2>8
  <2>10. g[T] = f[c] + (f[y] + g[(T \ {c}) \ {y}])
    BY <2>3, <2>6
  <2>11. g[T \ {y}] = f[c] + g[(T \ {c}) \ {y}]
    BY <2>7, <2>8
  <2>12. f[c] + (f[y] + g[(T \ {c}) \ {y}]) = f[y] + (f[c] + g[(T \ {c}) \ {y}])
    BY <2>9
  <2>13. QED BY <2>2, <2>10, <2>11, <2>12
<1>4. QED BY <1>2, <1>3

\* An element that is added adds its value.
LEMMA SumAdd ==
  ASSUME NEW S, IsFiniteSet(S), NEW x, x \notin S, NEW f, \A y \in S \cup {x} : f[y] \in Int
  PROVE  SumOver(f, S \cup {x}) = f[x] + SumOver(f, S)
<1>1. IsFiniteSet(S \cup {x}) /\ (S \cup {x}) \ {x} = S
  BY FS_AddElement
<1>2. QED BY <1>1, SumRemove

\* A sum depends on the function's values on the set only.
LEMMA SumSame ==
  ASSUME NEW S, IsFiniteSet(S), NEW f, NEW h,
         \A x \in S : f[x] \in Int /\ f[x] = h[x]
  PROVE  SumOver(f, S) = SumOver(h, S)
<1> DEFINE G == {T \in SUBSET S : SumOver(f, T) = SumOver(h, T)}
<1>1. {} \in G
  BY SumEmpty
<1>2. ASSUME NEW T \in SUBSET S, NEW x \in S \ T, T \in G PROVE T \cup {x} \in G
  <2>1. IsFiniteSet(T)
    BY FS_Subset
  <2>2. SumOver(f, T \cup {x}) = f[x] + SumOver(f, T)
    BY <2>1, SumAdd
  <2>3. SumOver(h, T \cup {x}) = h[x] + SumOver(h, T)
    BY <2>1, SumAdd
  <2>4. QED BY <1>2, <2>2, <2>3
<1> HIDE DEF G
<1>3. SUBSET S \subseteq G
  BY <1>1, <1>2, SubsetInduction
<1>4. QED BY <1>3 DEF G

\* A sum grows with its terms.
LEMMA SumAtMost ==
  ASSUME NEW S, IsFiniteSet(S), NEW f, NEW h,
         \A x \in S : f[x] \in Int /\ h[x] \in Int /\ f[x] <= h[x]
  PROVE  SumOver(f, S) <= SumOver(h, S)
<1> DEFINE G == {T \in SUBSET S : SumOver(f, T) <= SumOver(h, T)}
<1>1. {} \in G
  BY SumEmpty
<1>2. ASSUME NEW T \in SUBSET S, NEW x \in S \ T, T \in G PROVE T \cup {x} \in G
  <2>1. IsFiniteSet(T)
    BY FS_Subset
  <2>2. SumOver(f, T \cup {x}) = f[x] + SumOver(f, T) /\ SumOver(f, T) \in Int
    BY <2>1, SumAdd, SumIsInt
  <2>3. SumOver(h, T \cup {x}) = h[x] + SumOver(h, T) /\ SumOver(h, T) \in Int
    BY <2>1, SumAdd, SumIsInt
  <2>4. QED BY <1>2, <2>2, <2>3
<1> HIDE DEF G
<1>3. SUBSET S \subseteq G
  BY <1>1, <1>2, SubsetInduction
<1>4. QED BY <1>3 DEF G

\* The sum of sums.
LEMMA SumPlus ==
  ASSUME NEW S, IsFiniteSet(S), NEW f, NEW h, NEW k,
         \A x \in S : f[x] \in Int /\ h[x] \in Int /\ k[x] = f[x] + h[x]
  PROVE  SumOver(k, S) = SumOver(f, S) + SumOver(h, S)
<1> DEFINE G == {T \in SUBSET S : SumOver(k, T) = SumOver(f, T) + SumOver(h, T)}
<1>1. {} \in G
  BY SumEmpty
<1>2. ASSUME NEW T \in SUBSET S, NEW x \in S \ T, T \in G PROVE T \cup {x} \in G
  <2>1. IsFiniteSet(T)
    BY FS_Subset
  <2>2. SumOver(f, T \cup {x}) = f[x] + SumOver(f, T) /\ SumOver(f, T) \in Int
    BY <2>1, SumAdd, SumIsInt
  <2>3. SumOver(h, T \cup {x}) = h[x] + SumOver(h, T) /\ SumOver(h, T) \in Int
    BY <2>1, SumAdd, SumIsInt
  <2>4. SumOver(k, T \cup {x}) = k[x] + SumOver(k, T)
    <3>1. \A y \in S : k[y] \in Int
      OBVIOUS
    <3> HIDE DEF G
    <3>2. QED BY <2>1, <3>1, SumAdd
  <2>5. SumOver(k, T) = SumOver(f, T) + SumOver(h, T)
    BY <1>2
  <2>6. f[x] \in Int /\ h[x] \in Int /\ k[x] = f[x] + h[x]
    OBVIOUS
  <2>7. \A a, b, c, d \in Int : (a + b) + (c + d) = (a + c) + (b + d)
    OBVIOUS
  <2>8. (f[x] + h[x]) + (SumOver(f, T) + SumOver(h, T))
          = (f[x] + SumOver(f, T)) + (h[x] + SumOver(h, T))
    BY <2>2, <2>3, <2>6, <2>7
  <2>9. SumOver(k, T \cup {x}) = SumOver(f, T \cup {x}) + SumOver(h, T \cup {x})
    BY <2>2, <2>3, <2>4, <2>5, <2>6, <2>8
  <2>10. QED BY <2>9
<1> HIDE DEF G
<1>3. SUBSET S \subseteq G
  BY <1>1, <1>2, SubsetInduction
<1>4. QED BY <1>3 DEF G

\* The sum over two sets without an element in common.
LEMMA SumSplit ==
  ASSUME NEW A, IsFiniteSet(A), NEW B, IsFiniteSet(B), A \cap B = {}, NEW f,
         \A x \in A \cup B : f[x] \in Int
  PROVE  SumOver(f, A \cup B) = SumOver(f, A) + SumOver(f, B)
<1> DEFINE G == {T \in SUBSET B : SumOver(f, A \cup T) = SumOver(f, A) + SumOver(f, T)}
<1>1. {} \in G
  BY SumEmpty, SumIsInt
<1>2. ASSUME NEW T \in SUBSET B, NEW x \in B \ T, T \in G PROVE T \cup {x} \in G
  <2>1. IsFiniteSet(T) /\ IsFiniteSet(A \cup T)
    BY FS_Subset, FS_Union
  <2>2. SumOver(f, T \cup {x}) = f[x] + SumOver(f, T) /\ SumOver(f, T) \in Int
    BY <2>1, SumAdd, SumIsInt
  <2>3. SumOver(f, (A \cup T) \cup {x}) = f[x] + SumOver(f, A \cup T)
    <3>1. x \notin A \cup T
      BY <1>2
    <3>2. \A y \in (A \cup T) \cup {x} : f[y] \in Int
      BY <1>2
    <3>3. QED BY <2>1, <3>1, <3>2, SumAdd
  <2>4. (A \cup T) \cup {x} = A \cup (T \cup {x}) /\ f[x] \in Int /\ SumOver(f, A) \in Int
    BY SumIsInt
  <2>5. SumOver(f, A \cup T) = SumOver(f, A) + SumOver(f, T)
    BY <1>2
  <2>6. f[x] + (SumOver(f, A) + SumOver(f, T)) = SumOver(f, A) + (f[x] + SumOver(f, T))
    BY <2>2, <2>4
  <2>7. SumOver(f, A \cup (T \cup {x})) = SumOver(f, A) + SumOver(f, T \cup {x})
    BY <2>2, <2>3, <2>4, <2>5, <2>6
  <2>8. QED BY <2>7
<1> HIDE DEF G
<1>3. SUBSET B \subseteq G
  BY <1>1, <1>2, SubsetInduction
<1>4. QED BY <1>3 DEF G

\* The sizes of sets without an element in common add up to that of all.
LEMMA SumOfSizes ==
  ASSUME NEW S, IsFiniteSet(S), NEW I, NEW f,
         \A x \in S : IsFiniteSet(I[x]) /\ f[x] = Cardinality(I[x]),
         \A x, y \in S : x # y => I[x] \cap I[y] = {}
  PROVE  /\ IsFiniteSet(UNION {I[x] : x \in S})
         /\ SumOver(f, S) = Cardinality(UNION {I[x] : x \in S})
<1> DEFINE all(T) == UNION {I[x] : x \in T}
           G == {T \in SUBSET S : IsFiniteSet(all(T)) /\ SumOver(f, T) = Cardinality(all(T))}
<1>1. \A x \in S : f[x] \in Int /\ f[x] = Cardinality(I[x])
  BY FS_CardinalityType
<1>2. {} \in G
  <2>1. all({}) = {}
    OBVIOUS
  <2>2. QED BY <2>1, SumEmpty, FS_EmptySet
<1>3. ASSUME NEW T \in SUBSET S, NEW x \in S \ T, T \in G PROVE T \cup {x} \in G
  <2>1. IsFiniteSet(T)
    BY FS_Subset
  <2>2. SumOver(f, T \cup {x}) = f[x] + SumOver(f, T)
    BY <1>1, <2>1, SumAdd
  <2>3. all(T \cup {x}) = I[x] \cup all(T)
    OBVIOUS
  <2>4. I[x] \cap all(T) = {}
    OBVIOUS
  <2>5. IsFiniteSet(I[x]) /\ IsFiniteSet(all(T)) /\ SumOver(f, T) = Cardinality(all(T))
    BY <1>3
  <2> HIDE DEF all
  <2>6. /\ IsFiniteSet(I[x] \cup all(T))
        /\ Cardinality(I[x] \cup all(T))
             = Cardinality(I[x]) + Cardinality(all(T)) - Cardinality(I[x] \cap all(T))
    BY <2>5, FS_Union
  <2>7. Cardinality(I[x] \cap all(T)) = 0 /\ Cardinality(I[x]) \in Nat /\ Cardinality(all(T)) \in Nat
    BY <2>4, <2>5, FS_EmptySet, FS_CardinalityType
  <2>8. Cardinality(I[x] \cup all(T)) = f[x] + SumOver(f, T)
    BY <1>1, <2>5, <2>6, <2>7
  <2>9. QED BY <2>2, <2>3, <2>6, <2>8
<1> HIDE DEF G
<1>4. SUBSET S \subseteq G
  BY <1>2, <1>3, SubsetInduction
<1>5. QED BY <1>4 DEF G

LEMMA SumOfDisjoint ==
  ASSUME NEW S, IsFiniteSet(S), NEW I, NEW f,
         \A x \in S : IsFiniteSet(I[x]),
         \A x \in S : f[x] = Cardinality(I[x]),
         \A x, y \in S : x # y => I[x] \cap I[y] = {},
         NEW U, \A x \in S : I[x] \subseteq U, \A u \in U : \E x \in S : u \in I[x]
  PROVE  SumOver(f, S) = Cardinality(U)
<1>1. /\ IsFiniteSet(UNION {I[x] : x \in S})
      /\ SumOver(f, S) = Cardinality(UNION {I[x] : x \in S})
  BY SumOfSizes, Z3
<1>2. UNION {I[x] : x \in S} = U
  OBVIOUS
<1>3. QED BY <1>1, <1>2

\* The sum of a function is that of its sums over the parts of a partition.
LEMMA SumOfParts ==
  ASSUME NEW S, IsFiniteSet(S), NEW f, \A x \in S : f[x] \in Int,
         NEW K, IsFiniteSet(K), NEW part,
         \A k \in K : part[k] \subseteq S,
         \A x \in S : \E k \in K : x \in part[k],
         \A k, l \in K : k # l => part[k] \cap part[l] = {},
         NEW g, \A k \in K : g[k] = SumOver(f, part[k])
  PROVE  SumOver(g, K) = SumOver(f, S)
<1> DEFINE of(T) == {x \in S : \E k \in T : x \in part[k]}
           G == {T \in SUBSET K : SumOver(g, T) = SumOver(f, of(T))}
<1>1. \A T : IsFiniteSet(of(T)) /\ of(T) \in SUBSET S
  BY FS_Subset
<1>2. \A k \in K : g[k] \in Int
  <2> SUFFICES ASSUME NEW k \in K PROVE g[k] \in Int
    OBVIOUS
  <2> DEFINE A == part[k]
  <2>1. IsFiniteSet(A) /\ \A x \in A : f[x] \in Int
    BY FS_Subset
  <2>2. g[k] = SumOver(f, A)
    OBVIOUS
  <2> HIDE DEF A
  <2>3. QED BY <2>1, <2>2, SumIsInt
<1>3. {} \in G
  <2>1. of({}) = {}
    OBVIOUS
  <2>2. QED BY <2>1, SumEmpty
<1>4. ASSUME NEW T \in SUBSET K, NEW k \in K \ T, T \in G PROVE T \cup {k} \in G
  <2> DEFINE A == part[k]
  <2>1. IsFiniteSet(T)
    BY FS_Subset
  <2>2. SumOver(g, T \cup {k}) = g[k] + SumOver(g, T)
    <3> HIDE DEF G, of
    <3>1. QED BY <1>2, <2>1, SumAdd
  <2>3. of(T \cup {k}) = A \cup of(T) /\ A \cap of(T) = {}
    BY <1>4
  <2>4. IsFiniteSet(A) /\ IsFiniteSet(of(T)) /\ \A x \in A \cup of(T) : f[x] \in Int
    <3>1. A \in SUBSET S /\ of(T) \in SUBSET S
      OBVIOUS
    <3> HIDE DEF A, of
    <3>2. QED BY <3>1, FS_Subset
  <2>5. g[k] = SumOver(f, A) /\ SumOver(g, T) = SumOver(f, of(T))
    BY <1>4
  <2> HIDE DEF A, of
  <2>6. SumOver(f, A \cup of(T)) = SumOver(f, A) + SumOver(f, of(T))
    BY <2>3, <2>4, SumSplit
  <2>7. SumOver(g, T \cup {k}) = SumOver(f, of(T \cup {k}))
    BY <2>2, <2>3, <2>5, <2>6
  <2>8. QED BY <2>7
<1> HIDE DEF G
<1>5. SUBSET K \subseteq G
  BY <1>3, <1>4, SubsetInduction
<1>6. SumOver(g, K) = SumOver(f, of(K))
  BY <1>5 DEF G
<1>7. of(K) = S
  OBVIOUS
<1>8. QED BY <1>6, <1>7

\* Among finitely many one is the greatest.
LEMMA Greatest ==
  ASSUME NEW S, IsFiniteSet(S), S # {}, NEW f, \A x \in S : f[x] \in Nat
  PROVE  \E x \in S : \A y \in S : f[y] <= f[x]
<1> DEFINE G == {T \in SUBSET S : T = {} \/ \E x \in T : \A y \in T : f[y] <= f[x]}
<1>1. {} \in G
  OBVIOUS
<1>2. ASSUME NEW T \in SUBSET S, NEW x \in S \ T, T \in G PROVE T \cup {x} \in G
  <2>1. CASE T = {}
    BY <2>1
  <2>2. CASE T # {}
    <3>1. PICK m \in T : \A y \in T : f[y] <= f[m]
      BY <1>2, <2>2
    <3>2. CASE f[m] <= f[x]
      BY <3>1, <3>2
    <3>3. CASE f[x] <= f[m]
      BY <3>1, <3>3
    <3>4. QED BY <3>2, <3>3
  <2>3. QED BY <2>1, <2>2
<1> HIDE DEF G
<1>3. SUBSET S \subseteq G
  BY <1>1, <1>2, SubsetInduction
<1>4. QED BY <1>3 DEF G

\* A finite set in an order: every place is taken by one element, and those
\* below an element are the ones that come before it.
LEMMA Listing ==
  ASSUME NEW S, IsFiniteSet(S), NEW below,
         \A x \in S : below[x] \subseteq S /\ x \notin below[x],
         \A x, y \in S : x = y \/ x \in below[y] \/ y \in below[x],
         \A x, y \in S : y \in below[x] => below[y] \subseteq below[x],
         NEW rank, \A x \in S : rank[x] = Cardinality(below[x])
  PROVE  /\ \A x \in S : rank[x] \in Nat /\ rank[x] < Cardinality(S)
         /\ \A x, y \in S : y \in below[x] <=> rank[y] < rank[x]
         /\ \A x, y \in S : rank[x] = rank[y] => x = y
         /\ \A n \in Nat : n < Cardinality(S) => \E x \in S : rank[x] = n
<1> DEFINE size == Cardinality(S)
<1>1. size \in Nat
  BY FS_CardinalityType
<1>2. \A x \in S : IsFiniteSet(below[x]) /\ rank[x] \in Nat /\ rank[x] < size
  <2> SUFFICES ASSUME NEW x \in S PROVE IsFiniteSet(below[x]) /\ rank[x] \in Nat /\ rank[x] < size
    OBVIOUS
  <2> DEFINE B == below[x]
  <2>1. B \in SUBSET S /\ B # S
    OBVIOUS
  <2> HIDE DEF B
  <2>2. IsFiniteSet(B) /\ Cardinality(B) <= Cardinality(S) /\ Cardinality(B) # Cardinality(S)
    BY <2>1, FS_Subset
  <2>3. Cardinality(B) \in Nat
    BY <2>2, FS_CardinalityType
  <2>4. rank[x] = Cardinality(B)
    BY DEF B
  <2>5. QED BY <1>1, <2>2, <2>3, <2>4 DEF B
<1>3. \A x, y \in S : y \in below[x] => rank[y] < rank[x]
  <2> SUFFICES ASSUME NEW x \in S, NEW y \in S, y \in below[x] PROVE rank[y] < rank[x]
    OBVIOUS
  <2> DEFINE B == below[x]
             C == below[y]
  <2>1. C \in SUBSET B /\ C # B
    OBVIOUS
  <2>2. IsFiniteSet(B)
    BY <1>2
  <2>3. rank[x] = Cardinality(B) /\ rank[y] = Cardinality(C) /\ rank[x] \in Nat /\ rank[y] \in Nat
    BY <1>2
  <2> HIDE DEF B, C
  <2>4. Cardinality(C) <= Cardinality(B) /\ Cardinality(C) # Cardinality(B)
    BY <2>1, <2>2, FS_Subset
  <2>5. QED BY <2>3, <2>4
<1>4. \A x, y \in S : rank[x] = rank[y] => x = y
  BY <1>2, <1>3
<1>5. \A x, y \in S : rank[y] < rank[x] => y \in below[x]
  BY <1>2, <1>3
<1> DEFINE T == {rank[x] : x \in S}
           N == 0..(size - 1)
<1>6. Cardinality(T) = size
  <2> HIDE DEF size
  <2>1. Cardinality({rank[x] : x \in S}) = Cardinality(S)
    BY <1>4, ImageSize
  <2>2. QED BY <2>1 DEF size
<1>7. T \in SUBSET N
  BY <1>1, <1>2
<1>8. IsFiniteSet(N) /\ Cardinality(N) = size
  <2>1. 0 \in Int /\ size - 1 \in Int
    BY <1>1
  <2>2. IsFiniteSet(N) /\ Cardinality(N) = IF 0 > size - 1 THEN 0 ELSE size - 1 - 0 + 1
    BY <2>1, FS_Interval
  <2>3. QED BY <1>1, <2>2
<1>9. T = N
  <2> HIDE DEF T, N, size
  <2>1. QED BY <1>6, <1>7, <1>8, FS_Subset
<1>10. \A n \in Nat : n < size => \E x \in S : rank[x] = n
  <2> SUFFICES ASSUME NEW n \in Nat, n < size PROVE \E x \in S : rank[x] = n
    OBVIOUS
  <2>1. n \in N
    BY <1>1
  <2>2. n \in T
    BY <1>9, <2>1
  <2>3. QED BY <2>2
<1>11. QED BY <1>2, <1>3, <1>4, <1>5, <1>10
=============================================================================
