----------------------------- MODULE SumLemmas -----------------------------
(***************************************************************************)
(* What SumFunctionOnSet adds up, for every finite set.  It folds a set by   *)
(* taking one member at a time, by CHOOSE; the facts below do not depend on   *)
(* which.  Each induction over a finite set is a smallest counterexample.     *)
(***************************************************************************)
EXTENDS Integers, FiniteSets, Functions, FiniteSetTheorems, WellFoundedInduction, TLAPS

First(s) == CHOOSE x \in s : TRUE

IsSum(F, S, it) ==
    it = [s \in SUBSET S |-> IF s = {} THEN 0 ELSE F[First(s)] + it[s \ {First(s)}]]

\* A set of subsets of a finite set has a member none of whose subsets it has.
LEMMA Minimal ==
    ASSUME NEW S, IsFiniteSet(S), NEW Bad, Bad \subseteq SUBSET S, Bad # {}
    PROVE  \E T \in Bad : \A U \in SUBSET T : U # T => U \notin Bad
  <1>1. IsWellFoundedOn(StrictSubsetOrdering(S), SUBSET S)
    BY FS_StrictSubsetOrderingWellFounded, FS_FiniteSubsetsOfFinite
  <1>2. PICK T \in Bad : \A U \in Bad : ~(<<U, T>> \in StrictSubsetOrdering(S))
    BY <1>1, WFMin
  <1>3. QED
    BY <1>2 DEF StrictSubsetOrdering

\* A set of natural numbers that is not empty has a least member.
LEMMA LeastMember ==
    ASSUME NEW S, S \subseteq Nat, S # {}
    PROVE  \E x \in S : \A y \in S : x <= y
  <1>1. PICK n \in S : n \in Nat
    OBVIOUS
  <1> DEFINE Below == {T \in SUBSET (0 .. n) : \E k \in S : k <= n /\ T = 0 .. k}
  <1>2. 0 .. n \in Below /\ Below \subseteq SUBSET (0 .. n)
    BY <1>1
  <1>3. IsFiniteSet(0 .. n)
    BY <1>1, FS_Interval
  <1>4. PICK T \in Below : \A U \in SUBSET T : U # T => U \notin Below
    <2> DEFINE All == 0 .. n
    <2>1. Below \subseteq SUBSET All /\ Below # {} /\ IsFiniteSet(All)
      BY <1>2, <1>3
    <2> HIDE DEF Below, All
    <2>2. QED
      BY <2>1, Minimal
  <1>5. PICK x \in S : x <= n /\ T = 0 .. x
    OBVIOUS
  <1>6. ASSUME NEW y \in S, y < x PROVE FALSE
    <2>1. x \in Nat /\ y \in Nat /\ y <= n
      BY <1>1, <1>5, <1>6
    <2>2. 0 .. y \in SUBSET (0 .. n)
      BY <1>1, <2>1
    <2>3. 0 .. y \in Below
      BY <2>1, <2>2
    <2>4. 0 .. y \in SUBSET T /\ x \in T /\ x \notin 0 .. y
      BY <1>5, <1>6, <2>1
    <2>5. QED
      BY <1>4, <2>3, <2>4
  <1>7. QED
    BY <1>6

\* The fold is a recursive function on the subsets of the set.
LEMMA SumUnfold ==
    ASSUME NEW F, NEW S
    PROVE  SumFunctionOnSet(F, S) = (CHOOSE it : IsSum(F, S, it))[S]
  BY Zenon DEF SumFunctionOnSet, FoldFunctionOnSet, MapThenFoldSet, IsSum, First

LEMMA FirstIn ==
    ASSUME NEW s, s # {}
    PROVE  First(s) \in s
  BY DEF First

\* Restricted to the subsets of a subset it is that subset's function.
LEMMA SumRestricts ==
    ASSUME NEW F, NEW S, NEW it, IsSum(F, S, it), NEW T, T \subseteq S
    PROVE  IsSum(F, T, [s \in SUBSET T |-> it[s]])
  <1> DEFINE jt == [s \in SUBSET T |-> it[s]]
  <1>1. ASSUME NEW s \in SUBSET T
        PROVE  jt[s] = IF s = {} THEN 0 ELSE F[First(s)] + jt[s \ {First(s)}]
    <2>1. s \in SUBSET S /\ s \ {First(s)} \in SUBSET T
      OBVIOUS
    <2>2. it[s] = IF s = {} THEN 0 ELSE F[First(s)] + it[s \ {First(s)}]
      BY <2>1 DEF IsSum
    <2>3. QED
      BY <2>1, <2>2
  <1>2. jt = [s \in SUBSET T |-> IF s = {} THEN 0 ELSE F[First(s)] + jt[s \ {First(s)}]]
    <2> HIDE DEF jt
    <2>1. jt = [s \in SUBSET T |-> jt[s]]
      BY DEF jt
    <2>2. QED
      BY <1>1, <2>1
  <1>3. QED
    BY <1>2 DEF IsSum

LEMMA SumUnique ==
    ASSUME NEW F, NEW S, IsFiniteSet(S), NEW a, NEW b, IsSum(F, S, a), IsSum(F, S, b)
    PROVE  a = b
  <1> DEFINE Bad == {s \in SUBSET S : a[s] # b[s]}
  <1>1. CASE Bad = {}
    <2>1. /\ a = [s \in SUBSET S |-> a[s]]
          /\ b = [s \in SUBSET S |-> b[s]]
      BY DEF IsSum
    <2>2. \A s \in SUBSET S : a[s] = b[s]
      BY <1>1
    <2>3. QED
      BY <2>1, <2>2
  <1>2. CASE Bad # {}
    <2>1. PICK T \in Bad : \A U \in SUBSET T : U # T => U \notin Bad
      <3>1. Bad \subseteq SUBSET S
        OBVIOUS
      <3> HIDE DEF Bad
      <3>2. QED
        BY <1>2, <3>1, Minimal
    <2>2. /\ a[T] = IF T = {} THEN 0 ELSE F[First(T)] + a[T \ {First(T)}]
          /\ b[T] = IF T = {} THEN 0 ELSE F[First(T)] + b[T \ {First(T)}]
      BY DEF IsSum
    <2>3. T # {} => a[T \ {First(T)}] = b[T \ {First(T)}]
      BY <2>1, FirstIn
    <2>4. QED
      BY <2>2, <2>3
  <1>3. QED
    BY <1>1, <1>2

TheSum(F, S) == CHOOSE it : IsSum(F, S, it)

LEMMA SumExists ==
    ASSUME NEW F, NEW S, IsFiniteSet(S)
    PROVE  \E it : IsSum(F, S, it)
  <1> DEFINE Bad == {T \in SUBSET S : \A it : ~IsSum(F, T, it)}
  <1>1. SUFFICES ASSUME Bad # {} PROVE FALSE
    OBVIOUS
  <1>2. PICK T \in Bad : \A U \in SUBSET T : U # T => U \notin Bad
    <2>1. Bad \subseteq SUBSET S
      OBVIOUS
    <2> HIDE DEF Bad
    <2>2. QED
      BY <1>1, <2>1, Minimal
  <1> DEFINE val(s) == TheSum(F, s)[s]
             it == [s \in SUBSET T |-> IF s = {} THEN 0 ELSE F[First(s)] + val(s \ {First(s)})]
  <1>3. ASSUME NEW u \in SUBSET T, u # T
        PROVE  IsSum(F, u, TheSum(F, u))
    <2>1. u \notin Bad
      BY <1>2, <1>3
    <2>2. \E jt : IsSum(F, u, jt)
      BY <2>1
    <2>3. QED
      BY <2>2 DEF TheSum
  <1>4. ASSUME NEW u \in SUBSET T, u # T, NEW w \in SUBSET u
        PROVE  TheSum(F, u)[w] = val(w)
    <2>1. w # T /\ w \in SUBSET T
      BY <1>4
    <2>2. IsSum(F, w, [s \in SUBSET w |-> TheSum(F, u)[s]])
      BY <1>3, <1>4, SumRestricts
    <2>3. IsSum(F, w, TheSum(F, w))
      BY <1>3, <2>1
    <2>4. IsFiniteSet(w)
      BY FS_Subset
    <2>5. TheSum(F, w) = [s \in SUBSET w |-> TheSum(F, u)[s]]
      BY <2>2, <2>3, <2>4, SumUnique
    <2>6. QED
      BY <2>5
  <1>5. ASSUME NEW u \in SUBSET T, u # T
        PROVE  val(u) = IF u = {} THEN 0 ELSE F[First(u)] + val(u \ {First(u)})
    <2>1. TheSum(F, u)[u] = IF u = {} THEN 0
                            ELSE F[First(u)] + TheSum(F, u)[u \ {First(u)}]
      BY <1>3, <1>5 DEF IsSum
    <2>2. TheSum(F, u)[u \ {First(u)}] = val(u \ {First(u)})
      BY <1>4, <1>5
    <2>3. QED
      BY <2>1, <2>2
  <1>6. ASSUME NEW s \in SUBSET T
        PROVE  it[s] = IF s = {} THEN 0 ELSE F[First(s)] + it[s \ {First(s)}]
    <2>1. CASE s = {}
      BY <2>1
    <2>2. CASE s # {}
      <3>1. s \ {First(s)} \in SUBSET T /\ s \ {First(s)} # T
        BY <2>2, FirstIn
      <3>2. it[s \ {First(s)}] = val(s \ {First(s)})
        BY <3>1, <1>5
      <3>3. QED
        BY <2>2, <3>2
    <2>3. QED
      BY <2>1, <2>2
  <1>7. IsSum(F, T, it)
    <2> HIDE DEF it
    <2>1. it = [s \in SUBSET T |-> it[s]]
      BY DEF it
    <2>2. QED
      BY <1>6, <2>1 DEF IsSum
  <1>8. QED
    BY <1>2, <1>7

LEMMA SumIs ==
    ASSUME NEW F, NEW S, IsFiniteSet(S), NEW T \in SUBSET S
    PROVE  SumFunctionOnSet(F, T) = TheSum(F, S)[T]
  <1>1. IsFiniteSet(T)
    BY FS_Subset
  <1>2. IsSum(F, S, TheSum(F, S)) /\ IsSum(F, T, TheSum(F, T))
    BY <1>1, SumExists DEF TheSum
  <1>3. IsSum(F, T, [s \in SUBSET T |-> TheSum(F, S)[s]])
    BY <1>2, SumRestricts
  <1>4. TheSum(F, T) = [s \in SUBSET T |-> TheSum(F, S)[s]]
    BY <1>1, <1>2, <1>3, SumUnique
  <1>5. SumFunctionOnSet(F, T) = TheSum(F, T)[T]
    BY SumUnfold DEF TheSum
  <1>6. QED
    BY <1>4, <1>5

\* The sum of a set, from the member the fold takes first.
LEMMA SumStep ==
    ASSUME NEW F, NEW S, IsFiniteSet(S)
    PROVE  SumFunctionOnSet(F, S) =
             IF S = {} THEN 0 ELSE F[First(S)] + SumFunctionOnSet(F, S \ {First(S)})
  <1>1. IsSum(F, S, TheSum(F, S))
    BY SumExists DEF TheSum
  <1>2. TheSum(F, S)[S] = IF S = {} THEN 0
                          ELSE F[First(S)] + TheSum(F, S)[S \ {First(S)}]
    BY <1>1 DEF IsSum
  <1>3. QED
    BY <1>2, SumIs

LEMMA SumEmpty ==
    ASSUME NEW F
    PROVE  SumFunctionOnSet(F, {}) = 0
  BY SumStep, FS_EmptySet

LEMMA SumType ==
    ASSUME NEW F, NEW S, IsFiniteSet(S), \A x \in S : F[x] \in Int
    PROVE  SumFunctionOnSet(F, S) \in Int
  <1> DEFINE Bad == {T \in SUBSET S : SumFunctionOnSet(F, T) \notin Int}
  <1>1. SUFFICES ASSUME Bad # {} PROVE FALSE
    OBVIOUS
  <1>2. PICK T \in Bad : \A U \in SUBSET T : U # T => U \notin Bad
    <2>1. Bad \subseteq SUBSET S
      OBVIOUS
    <2> HIDE DEF Bad
    <2>2. QED
      BY <1>1, <2>1, Minimal
  <1>3. IsFiniteSet(T)
    BY FS_Subset
  <1>4. CASE T = {}
    BY <1>4, SumEmpty
  <1>5. CASE T # {}
    <2>1. First(T) \in T /\ T \ {First(T)} \notin Bad
      BY <1>2, <1>5, FirstIn
    <2>2. SumFunctionOnSet(F, T \ {First(T)}) \in Int /\ F[First(T)] \in Int
      BY <2>1
    <2>3. QED
      BY <1>3, <1>5, <2>2, SumStep
  <1>6. QED
    BY <1>4, <1>5

\* It does not matter which member is taken first.
LEMMA SumRemove ==
    ASSUME NEW F, NEW S, IsFiniteSet(S), \A x \in S : F[x] \in Int, NEW x \in S
    PROVE  SumFunctionOnSet(F, S) = F[x] + SumFunctionOnSet(F, S \ {x})
  <1> DEFINE Off(T) == \E y \in T :
                 SumFunctionOnSet(F, T) # F[y] + SumFunctionOnSet(F, T \ {y})
             Bad == {T \in SUBSET S : Off(T)}
  <1>1. SUFFICES ASSUME Bad # {} PROVE FALSE
    OBVIOUS
  <1>2. PICK T \in Bad : \A U \in SUBSET T : U # T => U \notin Bad
    <2>1. Bad \subseteq SUBSET S
      OBVIOUS
    <2> HIDE DEF Bad
    <2>2. QED
      BY <1>1, <2>1, Minimal
  <1>3. PICK y \in T : SumFunctionOnSet(F, T) # F[y] + SumFunctionOnSet(F, T \ {y})
    OBVIOUS
  <1> DEFINE f == First(T)
  <1>4. f \in T
    BY <1>3, FirstIn
  <1> HIDE DEF f
  <1>5. SumFunctionOnSet(F, T) = F[f] + SumFunctionOnSet(F, T \ {f})
    BY <1>3, FS_Subset, SumStep DEF f
  <1>6. f # y
    BY <1>3, <1>5
  <1>7. SumFunctionOnSet(F, T \ {f}) = F[y] + SumFunctionOnSet(F, (T \ {f}) \ {y})
    <2>1. T \ {f} \notin Bad /\ T \ {f} \in SUBSET S /\ y \in T \ {f}
      BY <1>2, <1>4, <1>6
    <2>2. QED
      BY <2>1
  <1>8. SumFunctionOnSet(F, T \ {y}) = F[f] + SumFunctionOnSet(F, (T \ {y}) \ {f})
    <2>1. T \ {y} \notin Bad /\ T \ {y} \in SUBSET S /\ f \in T \ {y}
      BY <1>2, <1>4, <1>6
    <2>2. QED
      BY <2>1
  <1>9. (T \ {f}) \ {y} = (T \ {y}) \ {f}
    OBVIOUS
  <1>10. /\ F[f] \in Int /\ F[y] \in Int
         /\ SumFunctionOnSet(F, (T \ {y}) \ {f}) \in Int
    BY <1>4, FS_Subset, SumType
  <1> DEFINE R == SumFunctionOnSet(F, (T \ {y}) \ {f})
  <1>11. /\ SumFunctionOnSet(F, T) = F[f] + (F[y] + R)
         /\ SumFunctionOnSet(F, T \ {y}) = F[f] + R
         /\ R \in Int
    BY <1>5, <1>7, <1>8, <1>9, <1>10
  <1> HIDE DEF R, Bad
  <1>12. F[f] + (F[y] + R) = F[y] + (F[f] + R)
    BY <1>10, <1>11
  <1>13. QED
    BY <1>3, <1>11, <1>12

LEMMA SumSingleton ==
    ASSUME NEW F, NEW x, F[x] \in Int
    PROVE  SumFunctionOnSet(F, {x}) = F[x]
  <1>1. IsFiniteSet({x}) /\ {x} \ {x} = {}
    BY FS_Singleton
  <1>2. SumFunctionOnSet(F, {x}) = F[x] + SumFunctionOnSet(F, {x} \ {x})
    BY <1>1, SumRemove
  <1>3. QED
    BY <1>1, <1>2, SumEmpty

\* Sums are added up member by member: the difference of two sums.
LEMMA SumMinus ==
    ASSUME NEW F, NEW G, NEW H, NEW S, IsFiniteSet(S),
           \A x \in S : F[x] \in Int /\ G[x] \in Int /\ H[x] = F[x] - G[x]
    PROVE  SumFunctionOnSet(H, S) = SumFunctionOnSet(F, S) - SumFunctionOnSet(G, S)
  <1> DEFINE Off(T) == SumFunctionOnSet(H, T)
                         # SumFunctionOnSet(F, T) - SumFunctionOnSet(G, T)
             Bad == {T \in SUBSET S : Off(T)}
  <1>1. SUFFICES ASSUME Bad # {} PROVE FALSE
    OBVIOUS
  <1>2. PICK T \in Bad : \A U \in SUBSET T : U # T => U \notin Bad
    <2>1. Bad \subseteq SUBSET S
      OBVIOUS
    <2> HIDE DEF Bad
    <2>2. QED
      BY <1>1, <2>1, Minimal
  <1>3. IsFiniteSet(T)
    BY FS_Subset
  <1>4. T # {}
    <2>1. Off(T)
      OBVIOUS
    <2>2. ~Off({})
      BY SumEmpty
    <2>3. QED
      BY <2>1, <2>2
  <1>5. PICK x \in T : TRUE
    BY <1>4
  <1> DEFINE R == T \ {x}
  <1>6. ~Off(R)
    <2>1. R \notin Bad /\ R \in SUBSET S
      BY <1>2
    <2>2. QED
      BY <2>1
  <1>7. /\ SumFunctionOnSet(F, T) = F[x] + SumFunctionOnSet(F, R)
        /\ SumFunctionOnSet(G, T) = G[x] + SumFunctionOnSet(G, R)
        /\ SumFunctionOnSet(H, T) = H[x] + SumFunctionOnSet(H, R)
    BY <1>3, SumRemove
  <1>8. IsFiniteSet(R)
    BY <1>3, FS_Subset
  <1> HIDE DEF R
  <1>9. SumFunctionOnSet(F, R) \in Int /\ SumFunctionOnSet(G, R) \in Int
    BY <1>8, SumType DEF R
  <1>10. F[x] \in Int /\ G[x] \in Int /\ H[x] = F[x] - G[x]
    OBVIOUS
  <1>11. QED
    BY <1>6, <1>7, <1>9, <1>10

\* A sum does not depend on how its members are numbered.
LEMMA SumRenamed ==
    ASSUME NEW F, NEW S, NEW G, NEW T, IsFiniteSet(S), IsFiniteSet(T),
           \A x \in S : F[x] \in Int,
           NEW h \in [S -> T],
           \A x, y \in S : h[x] = h[y] => x = y,
           \A t \in T : \E x \in S : h[x] = t,
           \A x \in S : G[h[x]] = F[x]
    PROVE  SumFunctionOnSet(F, S) = SumFunctionOnSet(G, T)
  <1> DEFINE Im(U) == {t \in T : \E x \in U : h[x] = t}
             Off(U) == SumFunctionOnSet(F, U) # SumFunctionOnSet(G, Im(U))
             Bad == {U \in SUBSET S : Off(U)}
  <1>0. Im(S) = T
    OBVIOUS
  <1>1. SUFFICES ASSUME Bad # {} PROVE FALSE
    BY <1>0
  <1>2. PICK U \in Bad : \A W \in SUBSET U : W # U => W \notin Bad
    <2>1. Bad \subseteq SUBSET S
      OBVIOUS
    <2> HIDE DEF Bad
    <2>2. QED
      BY <1>1, <2>1, Minimal
  <1>3. IsFiniteSet(U) /\ IsFiniteSet(Im(U))
    BY FS_Subset
  <1>4. U # {}
    <2>1. Im({}) = {}
      OBVIOUS
    <2>2. QED
      BY <2>1, SumEmpty
  <1>5. PICK x \in U : TRUE
    BY <1>4
  <1>6. Im(U \ {x}) = Im(U) \ {h[x]}
    OBVIOUS
  <1>7. SumFunctionOnSet(F, U \ {x}) = SumFunctionOnSet(G, Im(U \ {x}))
    <2>1. U \ {x} \notin Bad /\ U \ {x} \in SUBSET S
      BY <1>2
    <2>2. QED
      BY <2>1
  <1>8. SumFunctionOnSet(F, U) = F[x] + SumFunctionOnSet(F, U \ {x})
    BY <1>3, SumRemove
  <1>9. h[x] \in Im(U) /\ \A t \in Im(U) : G[t] \in Int
    OBVIOUS
  <1>10. SumFunctionOnSet(G, Im(U)) = G[h[x]] + SumFunctionOnSet(G, Im(U) \ {h[x]})
    <2> HIDE DEF Im
    <2>1. QED
      BY <1>3, <1>9, SumRemove
  <1>11. QED
    BY <1>6, <1>7, <1>8, <1>10
====
