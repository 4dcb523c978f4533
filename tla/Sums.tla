-------------------------------- MODULE Sums --------------------------------
(***************************************************************************)
(* Sums over finite sets.  The balances and totals of the ledger are sums  *)
(* MapThenSumSet of the community modules: a function on the subsets of a  *)
(* set, defined by recursion.  Its laws are proved here for the sum of the *)
(* values of a function, by the least counterexample: the induction        *)
(* theorems of the library take the induction hypothesis as an operator,   *)
(* the well-foundedness theorems they rest on do not.  The modules that    *)
(* use a sum show that it is one of these.                                 *)
(***************************************************************************)
EXTENDS JournalEntry, FiniteSetTheorems, WellFoundedInduction, TLAPS

-----------------------------------------------------------------------------
(***************************************************************************)
(* Induction as the least counterexample.                                  *)
(***************************************************************************)
\* A set of numbers that is not empty has a least member.
LEMMA LeastNumber ==
    ASSUME NEW Bad \in SUBSET Nat, Bad # {}
    PROVE  \E n \in Bad : \A k \in Bad : n <= k
<1> DEFINE R == {ss \in Nat \X Nat : ss[1] < ss[2]}
<1>1. IsWellFoundedOn(R, Nat)
  BY NatLessThanWellFounded DEF OpToRel
<1>2. \A x, y \in Nat : <<y, x>> \in R <=> y < x
  OBVIOUS
<1> HIDE DEF R
<1>3. PICK n \in Bad : \A y \in Bad : ~(<<y, n>> \in R)
  BY <1>1, WFMin
<1>4. ASSUME NEW k \in Bad PROVE n <= k
  <2>1. k \in Nat /\ n \in Nat /\ ~(k < n)
    BY <1>2, <1>3
  <2> QED
    BY <2>1
<1> QED
  BY <1>4

\* A set of subsets of a finite set that is not empty has a minimal member.
LEMMA LeastSubset ==
    ASSUME NEW S, IsFiniteSet(S), NEW Bad \in SUBSET SUBSET S, Bad # {}
    PROVE  \E T \in Bad : \A U \in Bad : U \subseteq T => U = T
<1>1. IsWellFoundedOn(StrictSubsetOrdering(S), SUBSET S)
  BY FS_StrictSubsetOrderingWellFounded, FS_FiniteSubsetsOfFinite
<1>2. \E T \in Bad : \A U \in Bad : ~(<<U, T>> \in StrictSubsetOrdering(S))
  BY <1>1, WFMin
<1>3. \A T, U \in SUBSET S :
          <<U, T>> \in StrictSubsetOrdering(S) <=> U \subseteq T /\ U # T
  BY DEF StrictSubsetOrdering
<1> QED
  BY <1>2, <1>3

-----------------------------------------------------------------------------
(***************************************************************************)
(* The sum and the recursion behind it.                                    *)
(***************************************************************************)
First(s) == CHOOSE x \in s : TRUE

\* g is the recursive function of MapThenSumSet for the values of F over S.
IsSum(g, F, S) ==
    g = [s \in SUBSET S |-> IF s = {} THEN 0 ELSE F[First(s)] + g[s \ {First(s)}]]

SumOver(F, S) == (CHOOSE g : IsSum(g, F, S))[S]

LEMMA FirstMember == \A s : s # {} => First(s) \in s
  BY DEF First

\* Two recursive functions agree where both are defined.
LEMMA SumsAgree ==
    ASSUME NEW F, NEW S, NEW T, IsFiniteSet(S), S \subseteq T,
           NEW g, NEW h, IsSum(g, F, S), IsSum(h, F, T)
    PROVE  g[S] = h[S]
<1> DEFINE Bad == {s \in SUBSET S : g[s] # h[s]}
<1>1. SUFFICES ASSUME Bad # {} PROVE FALSE
  OBVIOUS
<1>2. PICK s \in Bad : \A U \in Bad : U \subseteq s => U = s
  <2>1. Bad \in SUBSET SUBSET S
    OBVIOUS
  <2> HIDE DEF Bad
  <2> QED
    BY <1>1, <2>1, LeastSubset
<1>3. s \in SUBSET S /\ s \in SUBSET T
  OBVIOUS
<1>4. s # {} /\ First(s) \in s
  <2>1. s # {}
    BY <1>2, <1>3 DEF IsSum
  <2> QED
    BY <2>1, FirstMember
<1>5. s \ {First(s)} \in SUBSET S /\ s \ {First(s)} \notin Bad
  BY <1>2, <1>3, <1>4
<1>6. g[s] = F[First(s)] + g[s \ {First(s)}]
  BY <1>3, <1>4 DEF IsSum
<1>7. h[s] = F[First(s)] + h[s \ {First(s)}]
  BY <1>3, <1>4 DEF IsSum
<1> QED
  BY <1>2, <1>5, <1>6, <1>7

LEMMA SumRestricted ==
    ASSUME NEW F, NEW S, NEW U \in SUBSET S, NEW g, IsSum(g, F, S)
    PROVE  IsSum([s \in SUBSET U |-> g[s]], F, U)
<1> DEFINE h == [s \in SUBSET U |-> g[s]]
<1>1. ASSUME NEW s \in SUBSET U
      PROVE  h[s] = IF s = {} THEN 0 ELSE F[First(s)] + h[s \ {First(s)}]
  <2>1. s \in SUBSET S /\ s \ {First(s)} \in SUBSET U
    OBVIOUS
  <2>2. g[s] = IF s = {} THEN 0 ELSE F[First(s)] + g[s \ {First(s)}]
    BY <2>1 DEF IsSum
  <2> QED
    BY <2>1, <2>2
<1> QED
  BY <1>1 DEF IsSum

\* The sum over a subset is the recursive function at that subset.
LEMMA SumIs ==
    ASSUME NEW F, NEW S, IsFiniteSet(S), NEW g, IsSum(g, F, S), NEW U \in SUBSET S
    PROVE  SumOver(F, U) = g[U]
<1> DEFINE r == [s \in SUBSET U |-> g[s]]
           c == CHOOSE h : IsSum(h, F, U)
<1>1. IsSum(r, F, U)
  BY SumRestricted
<1>2. IsSum(c, F, U)
  BY <1>1
<1>3. IsFiniteSet(U)
  BY FS_Subset
<1>4. c[U] = g[U]
  <2> HIDE DEF c
  <2> QED
    BY <1>2, <1>3, SumsAgree
<1> QED
  BY <1>4 DEF SumOver

\* The recursion is well founded: the function exists.
LEMMA SumExists ==
    ASSUME NEW F, NEW S, IsFiniteSet(S)
    PROVE  \E g : IsSum(g, F, S)
<1> DEFINE Bad == {s \in SUBSET S : ~\E g : IsSum(g, F, s)}
<1>1. SUFFICES ASSUME Bad # {} PROVE FALSE
  OBVIOUS
<1>2. PICK T \in Bad : \A U \in Bad : U \subseteq T => U = T
  <2>1. Bad \in SUBSET SUBSET S
    OBVIOUS
  <2> HIDE DEF Bad
  <2> QED
    BY <1>1, <2>1, LeastSubset
<1> DEFINE G == [U \in SUBSET T |->
                    IF U = {} THEN 0 ELSE F[First(U)] + SumOver(F, U \ {First(U)})]
<1>3. ASSUME NEW U \in SUBSET T, U # T
      PROVE  SumOver(F, U) = G[U]
  <2>1. PICK g : IsSum(g, F, U)
    BY <1>2, <1>3
  <2>2. IsFiniteSet(U)
    BY FS_Subset
  <2>3. SumOver(F, U) = g[U] /\ SumOver(F, U \ {First(U)}) = g[U \ {First(U)}]
    BY <2>1, <2>2, SumIs
  <2>4. g[U] = IF U = {} THEN 0 ELSE F[First(U)] + g[U \ {First(U)}]
    BY <2>1 DEF IsSum
  <2> QED
    BY <2>3, <2>4
<1>4. ASSUME NEW U \in SUBSET T, U # {}
      PROVE  G[U] = F[First(U)] + G[U \ {First(U)}]
  <2>1. U \ {First(U)} \in SUBSET T /\ U \ {First(U)} # T
    BY <1>4, FirstMember
  <2> QED
    BY <1>3, <1>4, <2>1
<1>5. G = [U \in SUBSET T |->
              IF U = {} THEN 0 ELSE F[First(U)] + G[U \ {First(U)}]]
  BY <1>4
<1>6. IsSum(G, F, T)
  <2> HIDE DEF G
  <2> QED
    BY <1>5 DEF IsSum
<1> QED
  BY <1>2, <1>6

\* The recursion, as an equation between sums.
LEMMA SumStep ==
    ASSUME NEW F, NEW S, IsFiniteSet(S)
    PROVE  SumOver(F, S) =
               IF S = {} THEN 0 ELSE F[First(S)] + SumOver(F, S \ {First(S)})
<1>1. PICK g : IsSum(g, F, S)
  BY SumExists
<1>2. SumOver(F, S) = g[S] /\ SumOver(F, S \ {First(S)}) = g[S \ {First(S)}]
  BY <1>1, SumIs
<1>3. g[S] = IF S = {} THEN 0 ELSE F[First(S)] + g[S \ {First(S)}]
  BY <1>1 DEF IsSum
<1> QED
  BY <1>2, <1>3

-----------------------------------------------------------------------------
(***************************************************************************)
(* Laws of sums of integers.                                               *)
(***************************************************************************)
LEMMA SumOfNone == \A F : SumOver(F, {}) = 0
  BY SumStep, FS_EmptySet

LEMMA SumType ==
    ASSUME NEW S, IsFiniteSet(S), NEW F, \A x \in S : F[x] \in Int
    PROVE  SumOver(F, S) \in Int
<1> DEFINE Bad == {s \in SUBSET S : SumOver(F, s) \notin Int}
<1>1. SUFFICES ASSUME Bad # {} PROVE FALSE
  OBVIOUS
<1>2. PICK s \in Bad : \A U \in Bad : U \subseteq s => U = s
  <2>1. Bad \in SUBSET SUBSET S
    OBVIOUS
  <2> HIDE DEF Bad
  <2> QED
    BY <1>1, <2>1, LeastSubset
<1>3. s \in SUBSET S /\ IsFiniteSet(s) /\ SumOver(F, s) \notin Int
  BY FS_Subset
<1>4. s # {} /\ First(s) \in s
  BY <1>3, SumOfNone, FirstMember
<1>5. SumOver(F, s) = F[First(s)] + SumOver(F, s \ {First(s)})
  BY <1>3, <1>4, SumStep
<1>6. s \ {First(s)} \in SUBSET S /\ s \ {First(s)} \notin Bad
  BY <1>2, <1>3, <1>4
<1>7. SumOver(F, s \ {First(s)}) \in Int /\ F[First(s)] \in Int
  BY <1>3, <1>4, <1>6
<1> QED
  BY <1>3, <1>5, <1>7

\* Any element may be taken out first.
LEMMA SumRemove ==
    ASSUME NEW S, IsFiniteSet(S), NEW F, \A x \in S : F[x] \in Int, NEW x \in S
    PROVE  SumOver(F, S) = F[x] + SumOver(F, S \ {x})
<1> DEFINE Bad == {s \in SUBSET S : \E y \in s : SumOver(F, s) # F[y] + SumOver(F, s \ {y})}
<1>1. SUFFICES ASSUME Bad # {} PROVE FALSE
  <2>1. S \in SUBSET S
    OBVIOUS
  <2> QED
    BY <1>1, <2>1
<1>2. PICK s \in Bad : \A U \in Bad : U \subseteq s => U = s
  <2>1. Bad \in SUBSET SUBSET S
    OBVIOUS
  <2> HIDE DEF Bad
  <2> QED
    BY <1>1, <2>1, LeastSubset
<1>3. PICK y \in s : SumOver(F, s) # F[y] + SumOver(F, s \ {y})
  OBVIOUS
<1> DEFINE c == First(s)
<1>4. s \in SUBSET S /\ s # {} /\ c \in s /\ IsFiniteSet(s)
  BY FirstMember, FS_Subset
<1> HIDE DEF c
<1>5. SumOver(F, s) = F[c] + SumOver(F, s \ {c})
  BY <1>4, SumStep DEF c
<1>6. c # y
  BY <1>3, <1>5
<1>7. /\ s \ {c} \notin Bad /\ s \ {y} \notin Bad
      /\ s \ {c} \in SUBSET S /\ s \ {y} \in SUBSET S
  BY <1>2, <1>4
<1>8. /\ SumOver(F, s \ {c}) = F[y] + SumOver(F, (s \ {c}) \ {y})
      /\ SumOver(F, s \ {y}) = F[c] + SumOver(F, (s \ {y}) \ {c})
  BY <1>4, <1>6, <1>7
<1>9. (s \ {c}) \ {y} = (s \ {y}) \ {c}
  OBVIOUS
<1>10. F[c] \in Int /\ F[y] \in Int /\ SumOver(F, (s \ {y}) \ {c}) \in Int
  <2>1. (s \ {y}) \ {c} \in SUBSET S /\ IsFiniteSet((s \ {y}) \ {c})
    BY <1>4, FS_Subset
  <2>2. \A z \in (s \ {y}) \ {c} : F[z] \in Int
    BY <2>1
  <2> HIDE DEF Bad
  <2> QED
    BY <1>4, <2>1, <2>2, SumType
<1>11. \A m, n, k \in Int : m + (n + k) = n + (m + k)
  OBVIOUS
<1>12. SumOver(F, s) = F[c] + (F[y] + SumOver(F, (s \ {y}) \ {c}))
  BY <1>5, <1>8, <1>9
<1>13. F[y] + SumOver(F, s \ {y}) = F[y] + (F[c] + SumOver(F, (s \ {y}) \ {c}))
  BY <1>8
<1> QED
  BY <1>3, <1>10, <1>11, <1>12, <1>13

\* A member more.
LEMMA SumAdd ==
    ASSUME NEW S, IsFiniteSet(S), NEW x, x \notin S,
           NEW F, \A y \in S \cup {x} : F[y] \in Int
    PROVE  SumOver(F, S \cup {x}) = SumOver(F, S) + F[x]
<1>1. IsFiniteSet(S \cup {x}) /\ (S \cup {x}) \ {x} = S
  BY FS_AddElement
<1>2. SumOver(F, S) \in Int
  BY SumType
<1> QED
  BY <1>1, <1>2, SumRemove

\* The sum depends on the values on the set only.
LEMMA SumSame ==
    ASSUME NEW S, IsFiniteSet(S), NEW F, NEW G, \A x \in S : F[x] = G[x]
    PROVE  SumOver(F, S) = SumOver(G, S)
<1> DEFINE Bad == {s \in SUBSET S : SumOver(F, s) # SumOver(G, s)}
<1>1. SUFFICES ASSUME Bad # {} PROVE FALSE
  <2>1. S \in SUBSET S
    OBVIOUS
  <2> QED
    BY <1>1, <2>1
<1>2. PICK s \in Bad : \A U \in Bad : U \subseteq s => U = s
  <2>1. Bad \in SUBSET SUBSET S
    OBVIOUS
  <2> HIDE DEF Bad
  <2> QED
    BY <1>1, <2>1, LeastSubset
<1>3. s \in SUBSET S /\ IsFiniteSet(s) /\ SumOver(F, s) # SumOver(G, s)
  BY FS_Subset
<1>4. s # {} /\ First(s) \in s
  BY <1>3, SumOfNone, FirstMember
<1>5. s \ {First(s)} \in SUBSET S /\ s \ {First(s)} \notin Bad
  BY <1>2, <1>3, <1>4
<1>6. SumOver(F, s \ {First(s)}) = SumOver(G, s \ {First(s)}) /\ F[First(s)] = G[First(s)]
  BY <1>3, <1>4, <1>5
<1> QED
  BY <1>3, <1>4, <1>6, SumStep

\* The sum of the sums of two functions.
LEMMA SumPlus ==
    ASSUME NEW S, IsFiniteSet(S), NEW F, NEW G, NEW H,
           \A x \in S : F[x] \in Int /\ G[x] \in Int /\ H[x] = F[x] + G[x]
    PROVE  SumOver(H, S) = SumOver(F, S) + SumOver(G, S)
<1> DEFINE Bad == {s \in SUBSET S : SumOver(H, s) # SumOver(F, s) + SumOver(G, s)}
<1>1. SUFFICES ASSUME Bad # {} PROVE FALSE
  <2>1. S \in SUBSET S
    OBVIOUS
  <2> QED
    BY <1>1, <2>1
<1>2. PICK s \in Bad : \A U \in Bad : U \subseteq s => U = s
  <2>1. Bad \in SUBSET SUBSET S
    OBVIOUS
  <2> HIDE DEF Bad
  <2> QED
    BY <1>1, <2>1, LeastSubset
<1>3. s \in SUBSET S /\ IsFiniteSet(s) /\ SumOver(H, s) # SumOver(F, s) + SumOver(G, s)
  BY FS_Subset
<1>4. s # {} /\ First(s) \in s
  <2>1. SumOver(F, {}) = 0 /\ SumOver(G, {}) = 0 /\ SumOver(H, {}) = 0 /\ 0 = 0 + 0
    BY SumOfNone
  <2>2. s # {}
    BY <1>3, <2>1
  <2> QED
    BY <2>2, FirstMember
<1>5. s \ {First(s)} \in SUBSET S /\ s \ {First(s)} \notin Bad /\ IsFiniteSet(s \ {First(s)})
  BY <1>2, <1>3, <1>4, FS_Subset
<1>6. /\ SumOver(H, s \ {First(s)}) = SumOver(F, s \ {First(s)}) + SumOver(G, s \ {First(s)})
      /\ H[First(s)] = F[First(s)] + G[First(s)] /\ F[First(s)] \in Int /\ G[First(s)] \in Int
  BY <1>3, <1>4, <1>5
<1>7. /\ SumOver(F, s) = F[First(s)] + SumOver(F, s \ {First(s)})
      /\ SumOver(G, s) = G[First(s)] + SumOver(G, s \ {First(s)})
      /\ SumOver(H, s) = H[First(s)] + SumOver(H, s \ {First(s)})
  BY <1>3, <1>4, SumStep
<1>8. SumOver(F, s \ {First(s)}) \in Int /\ SumOver(G, s \ {First(s)}) \in Int
  <2>1. \A x \in s \ {First(s)} : F[x] \in Int /\ G[x] \in Int
    BY <1>5
  <2> HIDE DEF Bad
  <2> QED
    BY <1>5, <2>1, SumType
<1> QED
  BY <1>3, <1>6, <1>7, <1>8

\* Nothing adds up to nothing.
LEMMA SumZero ==
    ASSUME NEW S, IsFiniteSet(S), NEW F, \A x \in S : F[x] = 0
    PROVE  SumOver(F, S) = 0
<1>1. \A x \in S : F[x] \in Int /\ F[x] = F[x] + F[x]
  OBVIOUS
<1>2. SumOver(F, S) = SumOver(F, S) + SumOver(F, S)
  BY <1>1, SumPlus
<1>3. SumOver(F, S) \in Int
  BY SumType
<1>4. \A n \in Int : n = n + n => n = 0
  OBVIOUS
<1> QED
  BY <1>2, <1>3, <1>4

\* Only one member counts.
LEMMA SumOne ==
    ASSUME NEW S, IsFiniteSet(S), NEW x \in S, NEW F, F[x] \in Int,
           \A y \in S \ {x} : F[y] = 0
    PROVE  SumOver(F, S) = F[x]
<1>1. IsFiniteSet(S \ {x}) /\ \A y \in S : F[y] \in Int
  BY FS_RemoveElement
<1>2. SumOver(F, S \ {x}) = 0
  BY <1>1, SumZero
<1> QED
  BY <1>1, <1>2, SumRemove

LEMMA SumSingle ==
    ASSUME NEW F, NEW x, F[x] \in Int
    PROVE  SumOver(F, {x}) = F[x]
<1>1. IsFiniteSet({x}) /\ x \in {x} /\ \A y \in {x} \ {x} : F[y] = 0
  BY FS_Singleton
<1> QED
  BY <1>1, SumOne

\* Values that are not negative: the sum grows with the set.
LEMMA SumNat ==
    ASSUME NEW S, IsFiniteSet(S), NEW F, \A x \in S : F[x] \in Nat
    PROVE  SumOver(F, S) \in Nat
<1> DEFINE Bad == {s \in SUBSET S : SumOver(F, s) \notin Nat}
<1>1. SUFFICES ASSUME Bad # {} PROVE FALSE
  OBVIOUS
<1>2. PICK s \in Bad : \A U \in Bad : U \subseteq s => U = s
  <2>1. Bad \in SUBSET SUBSET S
    OBVIOUS
  <2> HIDE DEF Bad
  <2> QED
    BY <1>1, <2>1, LeastSubset
<1>3. s \in SUBSET S /\ IsFiniteSet(s) /\ SumOver(F, s) \notin Nat
  BY FS_Subset
<1>4. s # {} /\ First(s) \in s
  BY <1>3, SumOfNone, FirstMember
<1>5. SumOver(F, s) = F[First(s)] + SumOver(F, s \ {First(s)})
  BY <1>3, <1>4, SumStep
<1>6. SumOver(F, s \ {First(s)}) \in Nat /\ F[First(s)] \in Nat
  BY <1>2, <1>3, <1>4
<1> QED
  BY <1>3, <1>5, <1>6

\* Two disjoint sets.
LEMMA SumUnion ==
    ASSUME NEW S, IsFiniteSet(S), NEW T, IsFiniteSet(T), S \cap T = {},
           NEW F, \A x \in S \cup T : F[x] \in Int
    PROVE  SumOver(F, S \cup T) = SumOver(F, S) + SumOver(F, T)
<1> DEFINE Bad == {s \in SUBSET S : SumOver(F, s \cup T) # SumOver(F, s) + SumOver(F, T)}
<1>1. SUFFICES ASSUME Bad # {} PROVE FALSE
  <2>1. S \in SUBSET S
    OBVIOUS
  <2> QED
    BY <1>1, <2>1
<1>2. PICK s \in Bad : \A U \in Bad : U \subseteq s => U = s
  <2>1. Bad \in SUBSET SUBSET S
    OBVIOUS
  <2> HIDE DEF Bad
  <2> QED
    BY <1>1, <2>1, LeastSubset
<1>3. s \in SUBSET S /\ IsFiniteSet(s) /\ IsFiniteSet(s \cup T)
      /\ SumOver(F, s \cup T) # SumOver(F, s) + SumOver(F, T)
  BY FS_Subset, FS_Union
<1>4. SumOver(F, T) \in Int
  BY SumType
<1>5. s # {}
  <2>1. {} \cup T = T
    OBVIOUS
  <2> QED
    BY <1>3, <1>4, <2>1, SumOfNone
<1>6. PICK x \in s : TRUE
  BY <1>5
<1>7. /\ s \ {x} \in SUBSET S /\ s \ {x} \notin Bad /\ IsFiniteSet(s \ {x})
      /\ (s \cup T) \ {x} = (s \ {x}) \cup T
  BY <1>2, <1>3, FS_Subset
<1>8. SumOver(F, (s \ {x}) \cup T) = SumOver(F, s \ {x}) + SumOver(F, T)
  BY <1>7
<1>9. /\ \A y \in s : F[y] \in Int
      /\ \A y \in s \cup T : F[y] \in Int
      /\ \A y \in s \ {x} : F[y] \in Int
  BY <1>3
<1> HIDE DEF Bad
<1>10. SumOver(F, s) = F[x] + SumOver(F, s \ {x})
  BY <1>3, <1>9, SumRemove
<1>11. SumOver(F, s \cup T) = F[x] + SumOver(F, (s \ {x}) \cup T)
  BY <1>3, <1>7, <1>9, SumRemove
<1>12. SumOver(F, s \ {x}) \in Int
  BY <1>7, <1>9, SumType
<1> QED
  BY <1>3, <1>4, <1>8, <1>9, <1>10, <1>11, <1>12

\* A part of what is not negative is at most the whole.
LEMMA SumPart ==
    ASSUME NEW S, IsFiniteSet(S), NEW T \in SUBSET S, NEW F, \A x \in S : F[x] \in Nat
    PROVE  SumOver(F, T) <= SumOver(F, S)
<1>1. IsFiniteSet(T) /\ IsFiniteSet(S \ T) /\ T \cap (S \ T) = {} /\ T \cup (S \ T) = S
  BY FS_Subset
<1>2. SumOver(F, S) = SumOver(F, T) + SumOver(F, S \ T)
  BY <1>1, SumUnion
<1>3. SumOver(F, T) \in Nat /\ SumOver(F, S \ T) \in Nat
  BY <1>1, SumNat
<1> QED
  BY <1>2, <1>3

\* Values that are at most others.
LEMMA SumAtMost ==
    ASSUME NEW S, IsFiniteSet(S), NEW F, NEW G,
           \A x \in S : F[x] \in Int /\ G[x] \in Int /\ F[x] <= G[x]
    PROVE  SumOver(F, S) <= SumOver(G, S)
<1> DEFINE D == [x \in S |-> G[x] - F[x]]
<1>1. \A x \in S : D[x] \in Nat /\ F[x] \in Int /\ D[x] \in Int /\ G[x] = F[x] + D[x]
  <2>1. \A m, n \in Int : m <= n => n - m \in Nat /\ n = m + (n - m)
    OBVIOUS
  <2> QED
    BY <2>1
<1> HIDE DEF D
<1>2. SumOver(G, S) = SumOver(F, S) + SumOver(D, S)
  BY <1>1, SumPlus
<1>3. SumOver(F, S) \in Int /\ SumOver(D, S) \in Nat
  BY <1>1, SumType, SumNat
<1> QED
  BY <1>2, <1>3

\* What is taken away instead of added.
LEMMA SumNegated ==
    ASSUME NEW S, IsFiniteSet(S), NEW F, NEW G,
           \A x \in S : F[x] \in Int /\ G[x] = -F[x]
    PROVE  SumOver(G, S) = -SumOver(F, S)
<1> DEFINE H == [x \in S |-> 0]
<1>1. \A x \in S : G[x] \in Int /\ H[x] = F[x] + G[x]
  OBVIOUS
<1>2. SumOver(H, S) = 0
  BY SumZero
<1>3. SumOver(F, S) \in Int /\ SumOver(G, S) \in Int
  BY <1>1, SumType
<1> HIDE DEF H
<1>4. SumOver(H, S) = SumOver(F, S) + SumOver(G, S)
  BY <1>1, SumPlus
<1>5. \A m, n \in Int : 0 = m + n => n = -m
  OBVIOUS
<1> QED
  BY <1>2, <1>3, <1>4, <1>5

\* The sum of the rows of a table is the sum of its columns.
LEMMA SumExchange ==
    ASSUME NEW A, IsFiniteSet(A), NEW S, IsFiniteSet(S),
           NEW F, \A a \in A : \A x \in S : F[a][x] \in Int
    PROVE  SumOver([a \in A |-> SumOver(F[a], S)], A)
             = SumOver([x \in S |-> SumOver([a \in A |-> F[a][x]], A)], S)
<1> DEFINE Row(T) == [a \in A |-> SumOver(F[a], T)]
           Column(x) == [a \in A |-> F[a][x]]
           Columns == [x \in S |-> SumOver(Column(x), A)]
           Bad == {T \in SUBSET S : SumOver(Row(T), A) # SumOver(Columns, T)}
<1>1. SUFFICES ASSUME Bad # {} PROVE FALSE
  <2>1. S \in SUBSET S
    OBVIOUS
  <2> QED
    BY <1>1, <2>1
<1>2. PICK T \in Bad : \A U \in Bad : U \subseteq T => U = T
  <2>1. Bad \in SUBSET SUBSET S
    OBVIOUS
  <2> HIDE DEF Bad
  <2> QED
    BY <1>1, <2>1, LeastSubset
<1>3. T \in SUBSET S /\ IsFiniteSet(T) /\ SumOver(Row(T), A) # SumOver(Columns, T)
  BY FS_Subset
<1>4. T # {}
  <2>1. \A a \in A : Row({})[a] = 0
    BY SumOfNone
  <2> HIDE DEF Row, Columns
  <2>2. SumOver(Row({}), A) = 0
    BY <2>1, SumZero
  <2> QED
    BY <1>3, <2>2, SumOfNone
<1>5. PICK x \in T : TRUE
  BY <1>4
<1> DEFINE U == T \ {x}
<1>6. /\ x \in S /\ U \in SUBSET S /\ U \notin Bad /\ IsFiniteSet(U)
      /\ SumOver(Row(U), A) = SumOver(Columns, U)
  <2>1. x \in S /\ U \in SUBSET S /\ U \subseteq T /\ U # T
    BY <1>3, <1>5
  <2>2. U \notin Bad
    BY <1>2, <2>1
  <2> HIDE DEF Row, Columns, U
  <2> QED
    BY <2>1, <2>2, FS_Subset
<1>7. ASSUME NEW a \in A
      PROVE  Row(U)[a] \in Int /\ Column(x)[a] \in Int /\ Row(T)[a] = Column(x)[a] + Row(U)[a]
  <2>1. \A y \in T : F[a][y] \in Int
    BY <1>3
  <2>2. SumOver(F[a], U) \in Int
    BY <1>6, <2>1, SumType
  <2>3. SumOver(F[a], T) = F[a][x] + SumOver(F[a], U)
    BY <1>3, <1>5, <2>1, SumRemove
  <2> QED
    BY <1>6, <2>2, <2>3
<1>8. \A y \in T : Columns[y] = SumOver(Column(y), A) /\ Columns[y] \in Int
  <2> SUFFICES ASSUME NEW y \in T
               PROVE  Columns[y] = SumOver(Column(y), A) /\ Columns[y] \in Int
    OBVIOUS
  <2>1. y \in S /\ \A a \in A : Column(y)[a] \in Int
    BY <1>3
  <2>2. Columns[y] = SumOver(Column(y), A)
    BY <2>1
  <2> HIDE DEF Column, Columns
  <2> QED
    BY <2>1, <2>2, SumType
<1> HIDE DEF Row, Column, Columns, Bad
<1>9. SumOver(Row(T), A) = SumOver(Column(x), A) + SumOver(Row(U), A)
  BY <1>7, SumPlus
<1>10. SumOver(Columns, T) = Columns[x] + SumOver(Columns, U)
  BY <1>3, <1>5, <1>8, SumRemove
<1> QED
  BY <1>3, <1>5, <1>6, <1>8, <1>9, <1>10

\* The members of S of one class.
OfClass(S, class, a) == {x \in S : class[x] = a}

\* Summing class by class: each member of S is in one class of A.
LEMMA SumByClass ==
    ASSUME NEW S, IsFiniteSet(S), NEW A, IsFiniteSet(A),
           NEW F, \A x \in S : F[x] \in Int,
           NEW class, \A x \in S : class[x] \in A,
           NEW G, \A a \in A : G[a] = SumOver(F, OfClass(S, class, a))
    PROVE  SumOver(G, A) = SumOver(F, S)
<1> DEFINE In(B) == {x \in S : class[x] \in B}
           Bad == {B \in SUBSET A : SumOver(G, B) # SumOver(F, In(B))}
<1>1. SUFFICES ASSUME Bad # {} PROVE FALSE
  <2>1. A \in SUBSET A /\ In(A) = S
    OBVIOUS
  <2> QED
    BY <1>1, <2>1
<1>2. PICK B \in Bad : \A U \in Bad : U \subseteq B => U = B
  <2>1. Bad \in SUBSET SUBSET A
    OBVIOUS
  <2> HIDE DEF Bad
  <2> QED
    BY <1>1, <2>1, LeastSubset
<1>3. B \in SUBSET A /\ IsFiniteSet(B) /\ SumOver(G, B) # SumOver(F, In(B))
  BY FS_Subset
<1>4. B # {}
  <2>1. In({}) = {}
    OBVIOUS
  <2> QED
    BY <1>3, <2>1, SumOfNone
<1>5. PICK a \in B : TRUE
  BY <1>4
<1> DEFINE C == B \ {a}
           Class == OfClass(S, class, a)
<1>6. C \in SUBSET A /\ C \notin Bad /\ IsFiniteSet(C) /\ SumOver(G, C) = SumOver(F, In(C))
  BY <1>2, <1>3, FS_Subset
<1>7. /\ IsFiniteSet(In(B)) /\ IsFiniteSet(In(C)) /\ IsFiniteSet(Class)
      /\ In(B) = In(C) \cup Class /\ In(C) \cap Class = {}
  <2>1. In(B) \in SUBSET S /\ In(C) \in SUBSET S /\ Class \in SUBSET S
    BY DEF OfClass
  <2>2. In(B) = In(C) \cup Class /\ In(C) \cap Class = {}
    BY DEF OfClass
  <2> HIDE DEF In, Class
  <2> QED
    BY <2>1, <2>2, FS_Subset
<1>8. \A x \in In(C) \cup Class : F[x] \in Int
  BY DEF OfClass
<1>9. \A b \in B : G[b] \in Int
  <2>1. ASSUME NEW b \in B PROVE G[b] \in Int
    <3>1. OfClass(S, class, b) \in SUBSET S
      BY DEF OfClass
    <3>2. IsFiniteSet(OfClass(S, class, b)) /\ SumOver(F, OfClass(S, class, b)) \in Int
      BY <3>1, FS_Subset, SumType
    <3> QED
      BY <1>3, <3>2
  <2> QED
    BY <2>1
<1> HIDE DEF Bad, In
<1>10. SumOver(F, In(B)) = SumOver(F, In(C)) + SumOver(F, Class)
  <2> HIDE DEF Class
  <2>1. SumOver(F, In(C) \cup Class) = SumOver(F, In(C)) + SumOver(F, Class)
    BY <1>7, <1>8, SumUnion
  <2> QED
    BY <1>7, <2>1
<1>11. SumOver(G, B) = G[a] + SumOver(G, C)
  BY <1>3, <1>9, SumRemove
<1>12. G[a] = SumOver(F, Class) /\ G[a] \in Int
  BY <1>3, <1>9
<1>13. SumOver(G, C) \in Int
  BY <1>6, <1>9, SumType
<1> QED
  BY <1>3, <1>6, <1>10, <1>11, <1>12, <1>13

-----------------------------------------------------------------------------
(***************************************************************************)
(* The totals of an entry: the money moved in one direction, and what the  *)
(* validation loop accumulates for it.                                     *)
(***************************************************************************)
AmountsOf(lines) == [i \in DOMAIN lines |-> lines[i].amount]
Side(lines, direction) == {i \in DOMAIN lines : lines[i].direction = direction}

LEMMA FitsInLong == \A x \in 0..MaxLong : Wrap(x) = x
  BY MaxLongAssumption DEF Wrap, LongRange

\* Quotient and remainder.
LEMMA Division ==
    ASSUME NEW m \in Nat \ {0}, NEW x \in Int
    PROVE  /\ x = (x \div m) * m + (x % m)
           /\ x \div m \in Int /\ x % m \in 0..(m - 1)
  OBVIOUS

\* Remainders that differ by a multiple of the divisor are the same.
LEMMA SameRemainder ==
    ASSUME NEW m \in Nat \ {0}, NEW r \in 0..(m - 1), NEW s \in 0..(m - 1),
           NEW q \in Int, s = r + q * m
    PROVE  r = s
<1>1. CASE q = 0
  BY <1>1
<1>2. CASE q >= 1
  <2>1. q * m >= m
    BY <1>2
  <2> QED
    BY <2>1
<1>3. CASE q <= -1
  <2>1. q * m <= -m
    BY <1>3
  <2> QED
    BY <2>1
<1> QED
  BY <1>1, <1>2, <1>3

\* Numbers that differ by a multiple of the divisor have the same remainder.
LEMMA Congruent ==
    ASSUME NEW m \in Nat \ {0}, NEW x \in Int, NEW y \in Int, NEW q \in Int, y = x + q * m
    PROVE  x % m = y % m
<1> DEFINE a == x \div m
           b == y \div m
           r == x % m
           s == y % m
<1>1. x = a * m + r /\ a \in Int /\ r \in 0..(m - 1)
  BY Division
<1>2. y = b * m + s /\ b \in Int /\ s \in 0..(m - 1)
  BY Division
<1> HIDE DEF a, b, r, s
<1>3. s = r + (a + q - b) * m
  BY <1>1, <1>2
<1>4. r = s
  BY <1>1, <1>2, <1>3, SameRemainder
<1> QED
  BY <1>4 DEF r, s

\* So do numbers that some multiples of the divisor make equal: their difference is one.
LEMMA Difference ==
    ASSUME NEW m \in Nat \ {0}, NEW x \in Int, NEW y \in Int,
           NEW p \in Int, NEW q \in Int, x + p * m = y + q * m
    PROVE  (x - y) % m = 0
<1>1. x - y = 0 + (q - p) * m
  OBVIOUS
<1> DEFINE d == x - y
           k == q - p
<1>2. d \in Int /\ k \in Int /\ d = 0 + k * m
  BY <1>1
<1> HIDE DEF d, k
<1>3. 0 % m = d % m
  BY <1>2, Congruent
<1>4. 0 % m = 0
  OBVIOUS
<1> QED
  BY <1>3, <1>4 DEF d

\* A wrapped number is off by a multiple of the range, and by nothing else.
LEMMA WrapCongruent ==
    /\ LongRange \in Nat \ {0}
    /\ \A x \in Int : Wrap(x) \in Int /\ \E q \in Int : Wrap(x) = x + q * LongRange
    /\ \A x, y \in Int : Wrap(x) = Wrap(y) <=> (x - y) % LongRange = 0
<1>1. LongRange \in Nat \ {0} /\ MaxLong + 1 \in Int
  BY MaxLongAssumption DEF LongRange
<1> DEFINE m == LongRange
           h == MaxLong + 1
<1>2. \A x \in Int : Wrap(x) = ((x + h) % m) - h
  BY <1>1, MaxLongAssumption DEF Wrap
<1> HIDE DEF m, h
<1>3. m \in Nat \ {0} /\ h \in Int
  BY <1>1 DEF m, h
<1>4. ASSUME NEW x \in Int
      PROVE  Wrap(x) \in Int /\ \E q \in Int : Wrap(x) = x + q * m
  <2> DEFINE d == (x + h) \div m
             r == (x + h) % m
  <2>1. x + h = d * m + r /\ d \in Int /\ r \in 0..(m - 1)
    BY <1>3, Division
  <2>2. Wrap(x) = r - h
    BY <1>2
  <2> HIDE DEF d, r
  <2>3. -d \in Int /\ Wrap(x) = x + (-d) * m
    BY <1>3, <2>1, <2>2
  <2>4. Wrap(x) \in Int
    BY <1>3, <2>1, <2>2
  <2> QED
    BY <2>3, <2>4
<1>5. ASSUME NEW x \in Int, NEW y \in Int
      PROVE  Wrap(x) = Wrap(y) <=> (x - y) % m = 0
  <2>1. ASSUME Wrap(x) = Wrap(y) PROVE (x - y) % m = 0
    <3>1. PICK p \in Int : Wrap(x) = x + p * m
      BY <1>4
    <3>2. PICK q \in Int : Wrap(y) = y + q * m
      BY <1>4
    <3> QED
      BY <1>3, <2>1, <3>1, <3>2, Difference
  <2>2. ASSUME (x - y) % m = 0 PROVE Wrap(x) = Wrap(y)
    <3> DEFINE d == (x - y) \div m
    <3>1. x - y = d * m /\ d \in Int
      BY <1>3, <2>2, Division
    <3> HIDE DEF d
    <3> DEFINE u == x + h
               v == y + h
    <3>2. u = v + d * m /\ u \in Int /\ v \in Int
      BY <1>3, <3>1
    <3>3. Wrap(x) = (u % m) - h /\ Wrap(y) = (v % m) - h
      BY <1>2
    <3> HIDE DEF u, v
    <3>4. v % m = u % m
      BY <1>3, <3>1, <3>2, Congruent
    <3> QED
      BY <3>3, <3>4
  <2> QED
    BY <2>1, <2>2
<1> QED
  BY <1>1, <1>4, <1>5 DEF m

\* It does not matter whether a summand has been wrapped before.
LEMMA WrapTwice ==
    ASSUME NEW x \in Int, NEW y \in Int
    PROVE  Wrap(Wrap(x) + y) = Wrap(x + y)
<1>1. PICK q \in Int : Wrap(x) = x + q * LongRange
  BY WrapCongruent
<1>2. LongRange \in Nat \ {0} /\ Wrap(x) \in Int
  BY WrapCongruent
<1> DEFINE u == Wrap(x) + y
           v == x + y
           none == 0
<1>3. u = v + q * LongRange /\ u \in Int /\ v \in Int
  BY <1>1, <1>2
<1>4. u + none * LongRange = v + q * LongRange /\ none \in Int
  BY <1>2, <1>3
<1> HIDE DEF u, v, none
<1>5. (u - v) % LongRange = 0
  BY <1>2, <1>3, <1>4, Difference
<1>6. Wrap(u) = Wrap(v)
  BY <1>3, <1>5, WrapCongruent
<1> QED
  BY <1>6 DEF u, v

\* The positions of a sequence.
LEMMA Positions ==
    ASSUME NEW A, NEW lines \in Seq(A)
    PROVE  /\ Len(lines) \in Nat /\ DOMAIN lines = 1..Len(lines)
           /\ IsFiniteSet(DOMAIN lines)
           /\ \A direction : IsFiniteSet(Side(lines, direction))
<1>1. Len(lines) \in Nat /\ DOMAIN lines = 1..Len(lines)
  OBVIOUS
<1>2. IsFiniteSet(DOMAIN lines)
  BY <1>1, FS_Interval
<1>3. \A direction : Side(lines, direction) \in SUBSET DOMAIN lines
  BY DEF Side
<1> QED
  BY <1>1, <1>2, <1>3, FS_Subset

\* Total is the sum of the amounts on one side.
LEMMA TotalIsSum ==
    ASSUME NEW A, NEW lines \in Seq(A), NEW direction
    PROVE  Total(lines, direction) = SumOver(AmountsOf(lines), Side(lines, direction))
<1> DEFINE S == Side(lines, direction)
           F == AmountsOf(lines)
           Eq(g) == g = [s \in SUBSET S |->
                            IF s = {} THEN 0
                            ELSE lines[CHOOSE x \in s : TRUE].amount
                                   + g[s \ {CHOOSE x \in s : TRUE}]]
<1>1. ASSUME NEW g PROVE IsSum(g, F, S) <=> Eq(g)
  <2>1. ASSUME NEW s \in SUBSET S, s # {}
        PROVE  F[First(s)] + g[s \ {First(s)}]
                 = lines[CHOOSE x \in s : TRUE].amount + g[s \ {CHOOSE x \in s : TRUE}]
    <3>1. First(s) \in DOMAIN lines
      BY <2>1, FirstMember DEF Side
    <3>2. F[First(s)] = lines[First(s)].amount
      BY <3>1 DEF AmountsOf
    <3> QED
      BY <3>2 DEF First
  <2>2. [s \in SUBSET S |-> IF s = {} THEN 0 ELSE F[First(s)] + g[s \ {First(s)}]]
          = [s \in SUBSET S |->
               IF s = {} THEN 0
               ELSE lines[CHOOSE x \in s : TRUE].amount + g[s \ {CHOOSE x \in s : TRUE}]]
    BY <2>1
  <2> QED
    BY <2>2 DEF IsSum
<1>2. Total(lines, direction) = (CHOOSE g : Eq(g))[S]
  BY DEF Total, Side, SetsExt!MapThenSumSet, SetsExt!MapThenFoldSet
<1>3. IsFiniteSet(S)
  BY Positions
<1>4. \E g : Eq(g)
  <2> HIDE DEF Eq, F, S
  <2> QED
    BY <1>1, <1>3, SumExists
<1>5. Eq(CHOOSE g : Eq(g))
  <2> HIDE DEF Eq
  <2> QED
    BY <1>4
<1>6. IsSum(CHOOSE g : Eq(g), F, S)
  BY <1>1, <1>5
<1> HIDE DEF Eq, F, S
<1>7. SumOver(F, S) = (CHOOSE g : Eq(g))[S]
  BY <1>3, <1>6, SumIs
<1> QED
  BY <1>2, <1>7 DEF F, S

\* The recursive function of LongTotal.
Running(g, lines, direction, n) ==
    g = [k \in 0..n |->
            IF k = 0 THEN 0
            ELSE IF lines[k].direction = direction THEN Wrap(g[k - 1] + lines[k].amount)
            ELSE g[k - 1]]

LEMMA RunningExists ==
    ASSUME NEW lines, NEW direction, NEW n \in Nat
    PROVE  \E g : Running(g, lines, direction, n)
<1> DEFINE Bad == {k \in Nat : ~\E g : Running(g, lines, direction, k)}
<1>1. SUFFICES ASSUME Bad # {} PROVE FALSE
  OBVIOUS
<1>2. PICK k \in Bad : \A j \in Bad : k <= j
  <2>1. Bad \in SUBSET Nat
    OBVIOUS
  <2> HIDE DEF Bad
  <2> QED
    BY <1>1, <2>1, LeastNumber
<1>3. k # 0
  <2>1. Running([j \in 0..0 |-> 0], lines, direction, 0)
    BY DEF Running
  <2> QED
    BY <2>1
<1>4. k \in Nat /\ k - 1 \in Nat /\ k - 1 \notin Bad
  BY <1>2, <1>3
<1>5. PICK g : Running(g, lines, direction, k - 1)
  BY <1>4
<1> DEFINE h == [j \in 0..k |->
                    IF j < k THEN g[j]
                    ELSE IF lines[k].direction = direction THEN Wrap(g[k - 1] + lines[k].amount)
                    ELSE g[k - 1]]
<1>6. ASSUME NEW j \in 0..k
      PROVE  h[j] = IF j = 0 THEN 0
                    ELSE IF lines[j].direction = direction
                         THEN Wrap(h[j - 1] + lines[j].amount)
                         ELSE h[j - 1]
  <2>1. CASE j = k
    BY <1>3, <1>4, <2>1
  <2>2. CASE j # k
    <3>1. j \in 0..(k - 1) /\ (j # 0 => j - 1 \in 0..k /\ j - 1 < k)
      BY <1>4, <2>2
    <3>2. h[j] = g[j] /\ (j # 0 => h[j - 1] = g[j - 1])
      BY <1>4, <2>2, <3>1
    <3>3. g[j] = IF j = 0 THEN 0
                 ELSE IF lines[j].direction = direction
                      THEN Wrap(g[j - 1] + lines[j].amount)
                      ELSE g[j - 1]
      BY <1>5, <3>1 DEF Running
    <3> QED
      BY <3>2, <3>3
  <2> QED
    BY <2>1, <2>2
<1>7. Running(h, lines, direction, k)
  BY <1>6 DEF Running
<1> QED
  BY <1>7

\* g holds the running totals of the loop.
Accumulates(g, lines, direction) ==
    /\ g[0] = 0
    /\ \A k \in 1..Len(lines) :
          g[k] = IF lines[k].direction = direction
                 THEN Wrap(g[k - 1] + lines[k].amount)
                 ELSE g[k - 1]

\* LongTotal runs through the lines and accumulates.
LEMMA LongTotalRuns ==
    ASSUME NEW A, NEW lines \in Seq(A), NEW direction
    PROVE  \E g : /\ LongTotal(lines, direction) = g[Len(lines)]
                  /\ Accumulates(g, lines, direction)
<1> DEFINE c == CHOOSE g : Running(g, lines, direction, Len(lines))
<1>1. Running(c, lines, direction, Len(lines))
  BY RunningExists, Positions
<1>2. LongTotal(lines, direction) = c[Len(lines)]
  BY DEF LongTotal, Running
<1> HIDE DEF c
<1>3. c[0] = 0
  BY <1>1, Positions DEF Running
<1>4. ASSUME NEW k \in 1..Len(lines)
      PROVE  c[k] = IF lines[k].direction = direction
                    THEN Wrap(c[k - 1] + lines[k].amount)
                    ELSE c[k - 1]
  <2>1. k \in 0..Len(lines) /\ k # 0
    BY Positions
  <2> QED
    BY <1>1, <2>1 DEF Running
<1> QED
  BY <1>2, <1>3, <1>4 DEF Accumulates

\* The total of amounts that are not negative is not negative.
LEMMA TotalNat ==
    ASSUME NEW A, NEW lines \in Seq(A), NEW direction,
           \A i \in DOMAIN lines : lines[i].amount \in Nat
    PROVE  Total(lines, direction) \in Nat
<1>1. Total(lines, direction) = SumOver(AmountsOf(lines), Side(lines, direction))
  BY TotalIsSum
<1>2. IsFiniteSet(Side(lines, direction))
  BY Positions
<1>3. \A i \in Side(lines, direction) : AmountsOf(lines)[i] \in Nat
  BY DEF Side, AmountsOf
<1> QED
  BY <1>1, <1>2, <1>3, SumNat

\* What the loop accumulates is the total, wrapped around.
LEMMA LongTotalWraps ==
    ASSUME NEW A, NEW lines \in Seq(A), NEW direction,
           \A i \in DOMAIN lines : lines[i].amount \in Nat
    PROVE  LongTotal(lines, direction) = Wrap(Total(lines, direction))
<1>1. PICK g : /\ LongTotal(lines, direction) = g[Len(lines)]
               /\ Accumulates(g, lines, direction)
  BY LongTotalRuns
<1> DEFINE F == AmountsOf(lines)
           S == Side(lines, direction)
           Upto(n) == {i \in S : i <= n}
<1>2. /\ IsFiniteSet(S) /\ DOMAIN lines = 1..Len(lines) /\ Len(lines) \in Nat
      /\ \A i \in S : F[i] = lines[i].amount /\ F[i] \in Nat
      /\ S \subseteq 1..Len(lines)
      /\ \A i \in 1..Len(lines) : i \in S <=> lines[i].direction = direction
  BY Positions DEF AmountsOf, Side
<1>3. Total(lines, direction) = SumOver(F, S)
  BY TotalIsSum
<1> HIDE DEF F, S
<1>4. ASSUME NEW n \in Nat
      PROVE  /\ IsFiniteSet(Upto(n)) /\ SumOver(F, Upto(n)) \in Nat
             /\ \A i \in Upto(n) : F[i] \in Nat
  <2>1. Upto(n) \in SUBSET S
    OBVIOUS
  <2>2. IsFiniteSet(Upto(n)) /\ \A i \in Upto(n) : F[i] \in Nat
    BY <1>2, <2>1, FS_Subset
  <2> HIDE DEF Upto
  <2>3. SumOver(F, Upto(n)) \in Nat
    BY <2>2, SumNat
  <2> QED
    BY <2>2, <2>3
<1> DEFINE Bad == {n \in 0..Len(lines) : g[n] # Wrap(SumOver(F, Upto(n)))}
<1>5. Bad = {}
  <2>1. SUFFICES ASSUME Bad # {} PROVE FALSE
    OBVIOUS
  <2>2. PICK n \in Bad : \A j \in Bad : n <= j
    <3>1. Bad \in SUBSET Nat
      OBVIOUS
    <3> HIDE DEF Bad
    <3> QED
      BY <2>1, <3>1, LeastNumber
  <2>3. n \in 0..Len(lines) /\ n \in Nat /\ g[n] # Wrap(SumOver(F, Upto(n)))
    OBVIOUS
  <2>4. n # 0
    <3>1. \A i \in S : i \in Nat /\ ~(i <= 0)
      BY <1>2
    <3>2. Upto(0) = {}
      BY <3>1
    <3> HIDE DEF Upto, Bad
    <3>3. SumOver(F, Upto(0)) = 0
      BY <3>2, SumOfNone
    <3>4. Wrap(0) = 0
      BY FitsInLong, MaxLongAssumption
    <3>5. g[0] = 0
      BY <1>1 DEF Accumulates
    <3> QED
      BY <2>3, <3>3, <3>4, <3>5
  <2>5. n \in 1..Len(lines) /\ n - 1 \in Nat /\ n - 1 \in 0..Len(lines) /\ n - 1 \notin Bad
    <3>1. Len(lines) \in Nat
      BY <1>2
    <3>2. n \in 1..Len(lines) /\ n - 1 \in Nat /\ n - 1 \in 0..Len(lines) /\ ~(n <= n - 1)
      BY <2>3, <2>4, <3>1
    <3> HIDE DEF Bad
    <3> QED
      BY <2>2, <3>2
  <2>6. g[n - 1] = Wrap(SumOver(F, Upto(n - 1)))
    BY <2>5
  <2>7. ~(n <= n - 1) /\ \A i \in S : i <= n <=> i <= n - 1 \/ i = n
    <3>1. ASSUME NEW i \in S PROVE i <= n <=> i <= n - 1 \/ i = n
      <4>1. i \in Nat /\ n \in Nat
        BY <1>2, <2>3
      <4> QED
        BY <4>1
    <3> QED
      BY <2>3, <3>1
  <2>8. CASE n \in S
    <3>1. Upto(n) = Upto(n - 1) \cup {n} /\ n \notin Upto(n - 1)
      BY <2>5, <2>7, <2>8
    <3>2. F[n] \in Nat /\ F[n] = lines[n].amount /\ lines[n].direction = direction
      BY <1>2, <2>5, <2>8
    <3> HIDE DEF Upto, Bad
    <3>3. \A i \in Upto(n - 1) \cup {n} : F[i] \in Int
      <4>1. \A i \in Upto(n - 1) : F[i] \in Nat
        BY <1>4, <2>5
      <4> QED
        BY <3>2, <4>1
    <3>4. SumOver(F, Upto(n)) = SumOver(F, Upto(n - 1)) + F[n]
      BY <1>4, <2>5, <3>1, <3>3, SumAdd
    <3>5. Wrap(g[n - 1] + F[n]) = Wrap(SumOver(F, Upto(n)))
      <4>1. SumOver(F, Upto(n - 1)) \in Int /\ F[n] \in Int
        <5>1. SumOver(F, Upto(n - 1)) \in Nat
          BY <1>4, <2>5
        <5> QED
          BY <3>2, <5>1
      <4> QED
        BY <2>6, <3>4, <4>1, WrapTwice
    <3>6. g[n] = Wrap(g[n - 1] + lines[n].amount)
      BY <1>1, <2>5, <3>2 DEF Accumulates
    <3> QED
      BY <2>3, <3>2, <3>5, <3>6
  <2>9. CASE n \notin S
    <3>1. Upto(n) = Upto(n - 1)
      BY <2>5, <2>7, <2>9
    <3>2. g[n] = g[n - 1]
      BY <1>1, <1>2, <2>5, <2>9 DEF Accumulates
    <3> QED
      BY <2>3, <2>6, <3>1, <3>2
  <2> QED
    BY <2>8, <2>9
<1>6. Upto(Len(lines)) = S
  BY <1>2
<1>7. Len(lines) \in 0..Len(lines)
  BY <1>2
<1>8. g[Len(lines)] = Wrap(SumOver(F, Upto(Len(lines))))
  BY <1>5, <1>7
<1> QED
  BY <1>1, <1>3, <1>6, <1>8

\* Totals that fit into a long are what the loop accumulates.
LEMMA LongTotalFits ==
    ASSUME NEW A, NEW lines \in Seq(A), NEW direction,
           \A i \in DOMAIN lines : lines[i].amount \in Nat,
           Total(lines, direction) <= MaxLong
    PROVE  LongTotal(lines, direction) = Total(lines, direction)
<1>1. Total(lines, direction) \in 0..MaxLong
  BY TotalNat, MaxLongAssumption
<1> QED
  BY <1>1, LongTotalWraps, FitsInLong

\* Lines whose directions are swapped run through the same totals.
LEMMA LongTotalSwapped ==
    ASSUME NEW A, NEW lines \in Seq(A), NEW direction,
           NEW B, NEW others \in Seq(B), NEW opposite,
           Len(others) = Len(lines),
           \A i \in 1..Len(lines) :
              /\ others[i].amount = lines[i].amount
              /\ others[i].direction = opposite <=> lines[i].direction = direction
    PROVE  LongTotal(others, opposite) = LongTotal(lines, direction)
<1>1. PICK g : /\ LongTotal(lines, direction) = g[Len(lines)]
               /\ Accumulates(g, lines, direction)
  BY LongTotalRuns
<1>2. PICK h : /\ LongTotal(others, opposite) = h[Len(others)]
               /\ Accumulates(h, others, opposite)
  BY LongTotalRuns
<1>3. Len(lines) \in Nat
  BY Positions
<1> DEFINE Bad == {n \in 0..Len(lines) : g[n] # h[n]}
<1>4. Bad = {}
  <2>1. SUFFICES ASSUME Bad # {} PROVE FALSE
    OBVIOUS
  <2>2. PICK n \in Bad : \A j \in Bad : n <= j
    <3>1. Bad \in SUBSET Nat
      OBVIOUS
    <3> HIDE DEF Bad
    <3> QED
      BY <2>1, <3>1, LeastNumber
  <2>3. n # 0
    BY <1>1, <1>2 DEF Accumulates
  <2>4. n \in 1..Len(lines) /\ n - 1 \in 0..Len(lines) /\ n - 1 \notin Bad
    BY <1>3, <2>2, <2>3
  <2>5. g[n - 1] = h[n - 1]
    BY <2>4
  <2>6. g[n] = h[n]
    <3> HIDE DEF Bad
    <3> QED
      BY <1>1, <1>2, <2>4, <2>5 DEF Accumulates
  <2> QED
    BY <2>6
<1>5. g[Len(lines)] = h[Len(lines)]
  BY <1>3, <1>4
<1> QED
  BY <1>1, <1>2, <1>5

=============================================================================
