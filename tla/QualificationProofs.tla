------------------------- MODULE QualificationProofs -------------------------
(***************************************************************************)
(* Theorems about Qualification for any commands, commits, profiles, suites  *)
(* of cases, grades and thresholds.                                          *)
(***************************************************************************)
EXTENDS Qualification, SumLemmas

-----------------------------------------------------------------------------
(***************************************************************************)
(* The rules, as the reports write them and as the documents state them.     *)
(***************************************************************************)

\* The grades of some slots.
Graded(g, S) == \A s \in S : g[s] \in Error .. Dims

LEMMA Numbers ==
    /\ Repeats \in Nat \ {0} /\ Dims \in Nat \ {0}
    /\ MinCase \in Nat \ {0} /\ MinGain \in Nat \ {0}
    /\ MaxDrop \in Nat /\ Error \in Int /\ Error = -1
  BY QualificationAssumption DEF Error

LEMMA ScoreType ==
    ASSUME NEW x \in Error .. Dims
    PROVE  /\ Score(x) \in Nat
           /\ x > 0 => Score(x) = x
           /\ Score(x) > 0 => x = Score(x)
  <1>1. x \in Int /\ x >= -1
    BY Numbers
  <1>2. CASE x = -1
    BY <1>2, Numbers DEF Score
  <1>3. CASE x # -1
    BY <1>1, <1>3, Numbers DEF Score
  <1>4. QED
    BY <1>2, <1>3

LEMMA LeastBound ==
    ASSUME NEW g, NEW S, Graded(g, S), S # {}, NEW n \in Nat
    PROVE  Least(g, S) >= n <=> \A s \in S : Score(g[s]) >= n
  <1> DEFINE T == {Score(g[s]) : s \in S}
  <1>1. T \subseteq Nat /\ T # {}
    BY ScoreType DEF Graded
  <1> DEFINE m == Least(g, S)
  <1>2. m = Min(T)
    BY DEF Least
  <1>3. \A s \in S : Score(g[s]) \in T
    OBVIOUS
  <1>4. \A y \in T : \E s \in S : y = Score(g[s])
    OBVIOUS
  <1> HIDE DEF T, m
  <1>5. \E x \in T : \A y \in T : x <= y
    BY <1>1, LeastMember
  <1>6. m \in T /\ (\A y \in T : m <= y) /\ m \in Nat
    BY <1>1, <1>2, <1>5 DEF Min
  <1>7. ASSUME m >= n, NEW s \in S PROVE Score(g[s]) >= n
    <2> DEFINE y == Score(g[s])
    <2>1. y \in Nat /\ m <= y
      BY <1>1, <1>3, <1>6
    <2> HIDE DEF y
    <2>2. y >= n
      BY <1>6, <1>7, <2>1
    <2>3. QED
      BY <2>2 DEF y
  <1>8. ASSUME \A s \in S : Score(g[s]) >= n PROVE m >= n
    BY <1>4, <1>6, <1>8
  <1>9. QED
    BY <1>7, <1>8 DEF m

\* The hard gates ask the same of every attempt.
LEMMA EligibleIsReliable ==
    ASSUME NEW g, NEW S, Graded(g, S), S # {}
    PROVE  ProfileEligible(g, S) <=> \A s \in S : g[s] > 0 /\ g[s] >= MinCase
  <1>1. MinCase \in Nat \ {0} /\ Error = -1 /\ Dims \in Nat
    BY Numbers
  <1>2. Least(g, S) >= MinCase <=> \A s \in S : Score(g[s]) >= MinCase
    BY <1>1, LeastBound
  <1>3. \A s \in S : /\ g[s] \in Error .. Dims
                     /\ Score(g[s]) \in Nat
                     /\ g[s] > 0 => Score(g[s]) = g[s]
                     /\ Score(g[s]) > 0 => g[s] = Score(g[s])
    BY ScoreType DEF Graded
  <1>4. \A s \in S : (g[s] # Error /\ g[s] # 0 /\ Score(g[s]) >= MinCase)
                       <=> (g[s] > 0 /\ g[s] >= MinCase)
    BY <1>1, <1>3
  <1>5. QED
    BY <1>2, <1>4 DEF ProfileEligible

LEMMA TotalType ==
    ASSUME NEW g, NEW S, Graded(g, S), IsFiniteSet(S)
    PROVE  Total(g, S) \in Int
  <1> DEFINE F == [s \in S |-> Score(g[s])]
  <1>1. \A s \in S : F[s] \in Int
    BY ScoreType DEF Graded
  <1> HIDE DEF F
  <1>2. SumFunctionOnSet(F, S) \in Int
    BY <1>1, SumType
  <1>3. QED
    BY <1>2 DEF F, Total

\* The gain of the totals is the total of the gains.
LEMMA GainIsTotal ==
    ASSUME NEW base, NEW cand, NEW S, Graded(base, S), Graded(cand, S), IsFiniteSet(S)
    PROVE  Total(cand, S) - Total(base, S)
             = SumFunctionOnSet([s \in S |-> Score(cand[s]) - Score(base[s])], S)
  <1> DEFINE F == [s \in S |-> Score(cand[s])]
             G == [s \in S |-> Score(base[s])]
             H == [s \in S |-> Score(cand[s]) - Score(base[s])]
  <1>1. \A s \in S : F[s] \in Int /\ G[s] \in Int /\ H[s] = F[s] - G[s]
    BY ScoreType DEF Graded
  <1> HIDE DEF F, G, H
  <1>2. SumFunctionOnSet(H, S) = SumFunctionOnSet(F, S) - SumFunctionOnSet(G, S)
    BY <1>1, SumMinus
  <1>3. QED
    BY <1>2 DEF F, G, H, Total

LEMMA SlotsFinite ==
    IsFiniteSet(VisibleSlots) /\ IsFiniteSet(SealedSlots)
  <1>1. IsFiniteSet(1 .. Repeats)
    BY Numbers, FS_Interval
  <1>2. IsFiniteSet({1})
    BY FS_Singleton
  <1>3. QED
    BY <1>1, <1>2, QualificationAssumption, FS_Product DEF VisibleSlots, SealedSlots

LEMMA GradingsGrade ==
    ASSUME NEW slots, slots \subseteq (Visible \cup Sealed) \X Nat, NEW g \in Gradings(slots)
    PROVE  DOMAIN g = slots /\ Graded(g, slots)
  BY DEF Gradings, Graded

LEMMA SlotsAreCases ==
    /\ VisibleSlots \subseteq (Visible \cup Sealed) \X Nat
    /\ SealedSlots \subseteq (Visible \cup Sealed) \X Nat
  BY QualificationAssumption DEF VisibleSlots, SealedSlots

LEMMA RolesHaveSlots ==
    ASSUME NEW r \in Roles
    PROVE  /\ \E s \in VisibleSlots : RoleOf[s[1]] = r
           /\ \E s \in SealedSlots : RoleOf[s[1]] = r
  <1>1. PICK c \in Visible, d \in Sealed : RoleOf[c] = r /\ RoleOf[d] = r
    BY QualificationAssumption
  <1>2. <<c, 1>> \in VisibleSlots /\ <<d, 1>> \in SealedSlots
    BY QualificationAssumption DEF VisibleSlots, SealedSlots
  <1>3. QED
    BY <1>1, <1>2

\* More successes in all is more successes won than lost.
LEMMA SuccessesCompare ==
    ASSUME NEW base, NEW cand, NEW S, Graded(base, S), Graded(cand, S), IsFiniteSet(S)
    PROVE  Successes(cand, S) >= Successes(base, S) <=>
             Cardinality({s \in S : base[s] = Dims /\ cand[s] < Dims})
               <= Cardinality({s \in S : base[s] < Dims /\ cand[s] = Dims})
  <1> DEFINE A == {s \in S : cand[s] = Dims}
             B == {s \in S : base[s] = Dims}
  <1>1. IsFiniteSet(A) /\ IsFiniteSet(B) /\ IsFiniteSet(A \cap B)
    BY FS_Subset
  <1>2. \A s \in S : /\ cand[s] < Dims <=> cand[s] # Dims
                     /\ base[s] < Dims <=> base[s] # Dims
    BY QualificationAssumption DEF Graded, Error
  <1>3. /\ {s \in S : base[s] = Dims /\ cand[s] < Dims} = B \ A
        /\ {s \in S : base[s] < Dims /\ cand[s] = Dims} = A \ B
    BY <1>2
  <1>4. Successes(cand, S) = Cardinality(A) /\ Successes(base, S) = Cardinality(B)
    BY DEF Successes
  <1> HIDE DEF A, B
  <1>5. A \cap B = B \cap A
    OBVIOUS
  <1>6. /\ Cardinality(B \ A) = Cardinality(B) - Cardinality(B \cap A)
        /\ Cardinality(A \ B) = Cardinality(A) - Cardinality(A \cap B)
    BY <1>1, FS_Difference
  <1>7. {Cardinality(A), Cardinality(B), Cardinality(A \cap B)} \subseteq Nat
    BY <1>1, FS_CardinalityType
  <1>8. QED
    BY <1>3, <1>4, <1>5, <1>6, <1>7

\* The holdout compares one attempt at each case.
LEMMA SealedCase ==
    ASSUME NEW g \in SealedGradings, NEW c \in Sealed
    PROVE  /\ <<c, 1>> \in SealedSlots
           /\ OfCase(g, c) = {<<c, 1>>}
           /\ Cardinality(OfCase(g, c)) = 1
           /\ Total(g, OfCase(g, c)) = Score(g[<<c, 1>>])
           /\ Score(g[<<c, 1>>]) \in Int
  <1> DEFINE k == <<c, 1>>
  <1>1. k \in SealedSlots /\ \A s \in SealedSlots : s[1] = c => s = k
    BY DEF SealedSlots
  <1>2. DOMAIN g = SealedSlots /\ Graded(g, SealedSlots)
    BY GradingsGrade, SlotsAreCases DEF SealedGradings
  <1>3. OfCase(g, c) = {k}
    BY <1>1, <1>2 DEF OfCase
  <1>4. Score(g[k]) \in Nat
    BY <1>1, <1>2, ScoreType DEF Graded
  <1> HIDE DEF k
  <1> DEFINE F == [s \in {k} |-> Score(g[s])]
  <1>5. F[k] = Score(g[k])
    OBVIOUS
  <1> HIDE DEF F
  <1>6. SumFunctionOnSet(F, {k}) = Score(g[k])
    BY <1>4, <1>5, SumSingleton
  <1>7. Total(g, {k}) = Score(g[k])
    BY <1>6 DEF F, Total
  <1>8. Cardinality({k}) = 1
    BY FS_Singleton
  <1>9. QED
    BY <1>1, <1>3, <1>4, <1>7, <1>8 DEF k

\* Whatever floats make of a loss of the very limit, a larger loss is a regression
\* and a smaller one is not.
LEMMA RegressionsBound ==
    ASSUME NEW base, NEW cand, NEW r, NEW C, NEW limit \in Int,
           CasesOf(base, OfRole(base, r)) = C,
           \A c \in C : /\ Loss(base, cand, c) \in Int
                       /\ MaxDrop * Cardinality(OfCase(base, c)) = limit
    PROVE  /\ MaterialRegressions(base, cand, r) = {} =>
                \A c \in C : Loss(base, cand, c) <= limit
           /\ (\A c \in C : Loss(base, cand, c) <= limit - 1) =>
                MaterialRegressions(base, cand, r) = {}
  <1> DEFINE beyond(c) == <<Scores(base, c), Scores(cand, c)>> \in RoundsBeyond[r]
  <1>1. /\ MaterialRegressions(base, cand, r) \subseteq C
        /\ \A c \in C : c \in MaterialRegressions(base, cand, r) <=>
                          \/ Loss(base, cand, c) > limit
                          \/ Loss(base, cand, c) = limit /\ beyond(c)
    <2>1. MaterialRegressions(base, cand, r) =
            {c \in C :
               \/ Loss(base, cand, c) > MaxDrop * Cardinality(OfCase(base, c))
               \/ /\ Loss(base, cand, c) = MaxDrop * Cardinality(OfCase(base, c))
                  /\ beyond(c)}
      BY DEF MaterialRegressions
    <2> HIDE DEF beyond
    <2>2. QED
      BY <2>1
  <1> HIDE DEF beyond
  <1>2. ASSUME MaterialRegressions(base, cand, r) = {}, NEW c \in C
        PROVE  Loss(base, cand, c) <= limit
    <2> DEFINE l == Loss(base, cand, c)
    <2>1. ~(l > limit)
      BY <1>1, <1>2, Zenon
    <2>2. l \in Int
      OBVIOUS
    <2> HIDE DEF l
    <2>3. l <= limit
      BY <2>1, <2>2
    <2>4. QED
      BY <2>3 DEF l
  <1>3. ASSUME \A c \in C : Loss(base, cand, c) <= limit - 1
        PROVE  MaterialRegressions(base, cand, r) = {}
    <2>1. ASSUME NEW c \in C
          PROVE  ~(Loss(base, cand, c) > limit) /\ Loss(base, cand, c) # limit
      <3> DEFINE l == Loss(base, cand, c)
      <3>1. l \in Int /\ l <= limit - 1
        BY <1>3
      <3> HIDE DEF l
      <3>2. ~(l > limit) /\ l # limit
        BY <3>1
      <3>3. QED
        BY <3>2 DEF l
    <2>2. QED
      BY <1>1, <2>1
  <1>4. QED
    BY <1>2, <1>3

\* The decision of the comparison is the rule of the document, for every report,
\* but for a loss of the very limit.
LEMMA ClaimRule ==
    ASSUME NEW base \in SealedGradings, NEW cand \in SealedGradings, NEW r \in Roles
    PROVE  /\ Qualifies(base, cand, r) => EarnsRole(base, cand, r, MaxDrop)
           /\ EarnsRole(base, cand, r, MaxDrop - 1) => Qualifies(base, cand, r)
  <1> DEFINE slots == {s \in SealedSlots : RoleOf[s[1]] = r}
             won == [s \in slots |-> Score(cand[s]) - Score(base[s])]
             lost == {s \in slots : base[s] = Dims /\ cand[s] < Dims}
             gained == {s \in slots : base[s] < Dims /\ cand[s] = Dims}
  <1>1. /\ DOMAIN base = SealedSlots /\ Graded(base, SealedSlots)
        /\ DOMAIN cand = SealedSlots /\ Graded(cand, SealedSlots)
    BY GradingsGrade, SlotsAreCases DEF SealedGradings
  <1>2. /\ Graded(base, slots) /\ Graded(cand, slots)
        /\ slots # {}
        /\ OfRole(base, r) = slots /\ OfRole(cand, r) = slots
    <2>1. Graded(base, slots) /\ Graded(cand, slots)
      BY <1>1 DEF Graded
    <2>2. slots # {}
      BY RolesHaveSlots
    <2>3. OfRole(base, r) = slots /\ OfRole(cand, r) = slots
      BY <1>1 DEF OfRole
    <2>4. QED
      BY <2>1, <2>2, <2>3
  <1>3. IsFiniteSet(slots)
    BY SlotsFinite, FS_Subset
  <1>4. ProfileEligible(cand, OfRole(cand, r))
          <=> \A s \in slots : cand[s] > 0 /\ cand[s] >= MinCase
    <2> HIDE DEF slots
    <2>1. QED
      BY <1>2, EligibleIsReliable
  <1>5. Gain(base, cand, r) = SumFunctionOnSet(won, slots)
    <2> HIDE DEF slots
    <2>1. QED
      BY <1>2, <1>3, GainIsTotal DEF Gain
  <1>6. Successes(cand, OfRole(cand, r)) >= Successes(base, OfRole(base, r))
          <=> Cardinality(lost) <= Cardinality(gained)
    <2> HIDE DEF slots
    <2>1. QED
      BY <1>2, <1>3, SuccessesCompare
  <1>7. /\ MaterialRegressions(base, cand, r) = {} => \A s \in slots : won[s] >= -MaxDrop
        /\ (\A s \in slots : won[s] >= -(MaxDrop - 1)) =>
             MaterialRegressions(base, cand, r) = {}
    <2> DEFINE C == {c \in Sealed : RoleOf[c] = r}
    <2>1. ASSUME NEW c \in C
          PROVE  /\ <<c, 1>> \in slots
                 /\ won[<<c, 1>>] \in Int
                 /\ Loss(base, cand, c) \in Int
                 /\ Loss(base, cand, c) = -won[<<c, 1>>]
                 /\ MaxDrop * Cardinality(OfCase(base, c)) = MaxDrop
      <3> DEFINE a == Score(base[<<c, 1>>])
                 b == Score(cand[<<c, 1>>])
      <3>1. /\ <<c, 1>> \in SealedSlots
            /\ Cardinality(OfCase(base, c)) = 1
            /\ Total(base, OfCase(base, c)) = a /\ a \in Int
            /\ Total(cand, OfCase(cand, c)) = b /\ b \in Int
        BY SealedCase
      <3>2. <<c, 1>> \in slots
        BY <3>1
      <3>3. won[<<c, 1>>] = b - a
        BY <3>2
      <3>4. Loss(base, cand, c) = a - b
        BY <3>1 DEF Loss
      <3> HIDE DEF a, b, won, slots
      <3>5. QED
        BY <3>1, <3>2, <3>3, <3>4, Numbers
    <2>2. CasesOf(base, OfRole(base, r)) = C
      <3>1. \A c \in Sealed : <<c, 1>> \in SealedSlots /\ <<c, 1>>[1] = c
        BY DEF SealedSlots
      <3>2. \A s \in SealedSlots : s[1] \in Sealed
        BY DEF SealedSlots
      <3>3. OfRole(base, r) = {s \in SealedSlots : RoleOf[s[1]] = r}
        BY <1>1 DEF OfRole
      <3>4. QED
        BY <3>1, <3>2, <3>3 DEF CasesOf
    <2>3. \A s \in slots : s[1] \in C /\ s = <<s[1], 1>>
      BY DEF SealedSlots
    <2> HIDE DEF slots, won, C
    <2>4. MaxDrop \in Int /\ \A c \in C : Loss(base, cand, c) \in Int
      <3>1. MaxDrop \in Int
        BY Numbers
      <3>2. \A c \in C : Loss(base, cand, c) \in Int
        BY <2>1
      <3>3. QED
        BY <3>1, <3>2
    <2>5. /\ MaterialRegressions(base, cand, r) = {} =>
               \A c \in C : Loss(base, cand, c) <= MaxDrop
          /\ (\A c \in C : Loss(base, cand, c) <= MaxDrop - 1) =>
               MaterialRegressions(base, cand, r) = {}
      BY <2>1, <2>2, <2>4, RegressionsBound
    <2>6. ASSUME MaterialRegressions(base, cand, r) = {}, NEW s \in slots
          PROVE  won[s] >= -MaxDrop
      <3>1. PICK c \in C : s = <<c, 1>>
        BY <2>3
      <3>2. Loss(base, cand, c) <= MaxDrop
        BY <2>5, <2>6
      <3>3. QED
        BY <2>1, <2>4, <3>1, <3>2
    <2>7. ASSUME \A s \in slots : won[s] >= -(MaxDrop - 1)
          PROVE  MaterialRegressions(base, cand, r) = {}
      <3>1. ASSUME NEW c \in C PROVE Loss(base, cand, c) <= MaxDrop - 1
        <4>1. won[<<c, 1>>] >= -(MaxDrop - 1)
          BY <2>1, <2>7
        <4>2. QED
          BY <2>1, <2>4, <4>1
      <3>2. QED
        BY <2>5, <3>1
    <2>8. QED
      BY <2>6, <2>7
  <1>8. ASSUME NEW allowed
        PROVE  EarnsRole(base, cand, r, allowed) <=>
          /\ \A s \in slots : cand[s] > 0 /\ cand[s] >= MinCase /\ won[s] >= -allowed
          /\ SumFunctionOnSet(won, slots) >= MinGain
          /\ Cardinality(lost) <= Cardinality(gained)
    BY DEF EarnsRole
  <1> HIDE DEF slots, won, lost, gained
  <1>9. QED
    BY <1>4, <1>5, <1>6, <1>7, <1>8 DEF Qualifies

-----------------------------------------------------------------------------
(***************************************************************************)
(* The inductive invariant.  A collection of the sealed cases holds the       *)
(* receipt of its subject from the moment it reserved it; since no receipt is *)
(* replaced, no two collections of a subject get that far, and what is read,  *)
(* reported and completed for the subject is the one collection's.            *)
(***************************************************************************)

Places == {"idle", "reserve", "open", "run", "complete", "compare"}

\* Where a command holds nothing of what it read.
Free == {"idle", "compare"}
Receipts == [by : Procs, commit : Commits]

\* A collection of the holdout passed its preflight, and nothing it rests on has
\* changed since: protocol, selection and prompts are fixed in the holdout.
HoldoutJob(p) ==
    /\ stage = "holdout"
    /\ job[p].subject \in Subjects
    /\ ~job[p].prompts
    /\ SelectionMatches

JobFits(p) ==
    IF job[p].stage = "holdout"
      THEN HoldoutJob(p)
      ELSE pc[p] = "run" /\ job[p].subject \in Profiles

\* The commands that run are collections a protocol allowed, and comparisons of the
\* holdout.
JobsFit ==
    /\ pc \in [Procs -> Places]
    /\ DOMAIN job = Procs
    /\ \A p \in Procs :
         /\ pc[p] \in Free => job[p] = None
         /\ pc[p] \notin Free => job[p] \in Job /\ JobFits(p)
         /\ pc[p] = "compare" => stage = "holdout"

WorldType ==
    /\ head \in Commits /\ deployed \in BOOLEAN /\ active \in BOOLEAN
    /\ stage \in {"profile", "prompt", "holdout"}

FiledType ==
    /\ DOMAIN filed = Subject
    /\ \A s \in Subject : filed[s] # None =>
         filed[s] \in Reports(IF stage = "holdout" THEN SealedGradings ELSE VisibleGradings)

\* A role that is ready chose a profile that gained on the control: another one.
ChoiceFits ==
    /\ selection # None =>
         /\ selection \in [chosen : Choice, ready : SUBSET Roles]
         /\ \A r \in selection.ready : selection.chosen[r] # Control
    /\ stage = "holdout" => frozen \in Choice
    /\ stage # "holdout" => frozen = None

ReceiptType ==
    /\ opened \in [Subjects -> {0, 1}]
    /\ reserved \in [Subjects -> Receipts \cup {None}]
    /\ DOMAIN completed = Subjects
    /\ stage # "holdout" =>
         /\ \A s \in Subjects : reserved[s] = None /\ completed[s] = None
         /\ claim = None

\* A collection that holds the receipt of a subject.
Sealing(p, s) ==
    /\ pc[p] \in {"open", "run", "complete"}
    /\ job[p].stage = "holdout"
    /\ job[p].subject = s

\* The receipt tells who collects, and the sealed cases are read once under it.
OneRun ==
    \A s \in Subjects :
      /\ \A p \in Procs : Sealing(p, s) =>
           /\ reserved[s] = Receipt(p)
           /\ pc[p] = "open" => opened[s] = 0
           /\ pc[p] # "open" => opened[s] = 1
      /\ opened[s] = 1 => reserved[s] # None /\ SelectionMatches

\* A report of the reserved collection, with the prompts of the code.
FromRun(report, s) ==
    /\ report \in Reports(SealedGradings)
    /\ report.commit = reserved[s].commit
    /\ ~report.prompts

\* Every report about the sealed cases comes from the one collection.
Reported ==
    \A s \in Subjects :
      /\ stage = "holdout" /\ filed[s] # None => FromRun(filed[s], s) /\ opened[s] = 1
      /\ \A p \in Procs : Sealing(p, s) /\ pc[p] = "complete" => FromRun(filed[s], s)
      /\ completed[s] # None =>
           /\ completed[s] \in [reservation : Receipts, report : Reports(SealedGradings)]
           /\ opened[s] = 1
           /\ completed[s].reservation = reserved[s]
           /\ FromRun(completed[s].report, s)

QualificationInv ==
    /\ WorldType /\ JobsFit /\ FiledType /\ ChoiceFits /\ ReceiptType
    /\ OneRun /\ Reported /\ ClaimIsEarned

LEMMA InvImpliesType == QualificationInv => TypeOK
  <1> SUFFICES ASSUME QualificationInv PROVE TypeOK
    OBVIOUS
  <1>1. WorldType /\ JobsFit /\ FiledType /\ ChoiceFits /\ ReceiptType /\ Reported
    BY DEF QualificationInv
  <1>2. opened \in [Subjects -> Nat]
    BY <1>1 DEF ReceiptType
  <1>3. \A s \in Subjects : completed[s] # None =>
          completed[s] \in [reservation : [by : Procs, commit : Commits],
                            report : Reports(SealedGradings)]
    BY <1>1 DEF Reported, Receipts
  <1>4. \A p \in Procs : IF pc[p] \in {"idle", "compare"} THEN job[p] = None
                                                        ELSE job[p] \in Job
    BY <1>1 DEF JobsFit, Free
  <1>5. selection # None => selection \in [chosen : Choice, ready : SUBSET Roles]
    BY <1>1 DEF ChoiceFits
  <1>6. IF stage = "holdout" THEN frozen \in Choice ELSE frozen = None
    BY <1>1 DEF ChoiceFits
  <1>7. QED
    BY <1>1, <1>2, <1>3, <1>4, <1>5, <1>6
       DEF TypeOK, WorldType, JobsFit, FiledType, ReceiptType, Places, Receipts

LEMMA InvImpliesOnce == QualificationInv => CollectedOnce
  <1> SUFFICES ASSUME QualificationInv, NEW s \in Subjects
               PROVE  /\ opened[s] <= 1
                      /\ opened[s] = 1 =>
                           /\ reserved[s] # None
                           /\ selection # None
                           /\ selection.ready = Roles
                           /\ \A r \in Roles : /\ frozen[r] = selection.chosen[r]
                                               /\ frozen[r] # Control
    BY DEF CollectedOnce
  <1>1. ReceiptType /\ OneRun /\ ChoiceFits
    BY DEF QualificationInv
  <1>2. opened[s] \in {0, 1}
    BY <1>1 DEF ReceiptType
  <1>3. opened[s] = 1 => reserved[s] # None /\ SelectionMatches
    BY <1>1 DEF OneRun
  <1>4. QED
    BY <1>1, <1>2, <1>3 DEF SelectionMatches, ChoiceFits

LEMMA InvInit == Init => QualificationInv
  <1> SUFFICES ASSUME Init PROVE QualificationInv
    OBVIOUS
  <1>1. WorldType /\ ChoiceFits
    BY DEF Init, WorldType, ChoiceFits
  <1>2. JobsFit
    BY DEF Init, JobsFit, Places, Free
  <1>3. FiledType
    BY DEF Init, FiledType, Subject
  <1>4. ReceiptType
    BY DEF Init, ReceiptType
  <1>5. OneRun
    BY DEF Init, OneRun, Sealing
  <1>6. Reported
    BY DEF Init, Reported, Sealing
  <1>7. ClaimIsEarned
    BY DEF Init, ClaimIsEarned
  <1>8. QED
    BY <1>1, <1>2, <1>3, <1>4, <1>5, <1>6, <1>7 DEF QualificationInv

LEMMA ReceiptIs ==
    ASSUME JobsFit, NEW p \in Procs, pc[p] \notin Free
    PROVE  Receipt(p) \in Receipts /\ Receipt(p) # None /\ Receipt(p).by = p
  <1>1. job[p].commit \in Commits
    BY DEF JobsFit, Job
  <1>2. Receipt(p) \in Receipts /\ Receipt(p).by = p
    BY <1>1 DEF Receipt, Receipts
  <1>3. QED
    BY <1>2, QualificationAssumption DEF Receipts

\* Two collections that hold receipts of one subject are one.
LEMMA OneHolder ==
    ASSUME JobsFit, OneRun, NEW s \in Subjects, NEW p \in Procs, NEW q \in Procs,
           Sealing(p, s), Sealing(q, s)
    PROVE  p = q
  <1>1. Receipt(p) = Receipt(q)
    BY DEF OneRun
  <1>2. pc[p] \notin Free /\ pc[q] \notin Free
    BY DEF Sealing, Free
  <1>3. QED
    BY <1>1, <1>2, ReceiptIs DEF Free

\* The world changes: another commit, other prompts, the candidate put in service.
LEMMA WorldStep ==
    ASSUME QualificationInv, Checkout \/ Deploy \/ Activate
    PROVE  QualificationInv'
  <1>1. UNCHANGED <<stage, pc, job, filed, selection, frozen, reserved, completed, opened, claim>>
    BY DEF Checkout, Deploy, Activate, receipts, decisions
  <1>2. WorldType'
    <2>1. WorldType
      BY DEF QualificationInv
    <2>2. CASE Checkout
      BY <2>1, <2>2 DEF WorldType, Checkout, decisions
    <2>3. CASE Deploy
      BY <2>1, <2>3 DEF WorldType, Deploy, decisions
    <2>4. CASE Activate
      BY <2>1, <2>4 DEF WorldType, Activate, world
    <2>5. QED
      BY <2>2, <2>3, <2>4
  <1>3. JobsFit'
    BY <1>1 DEF QualificationInv, JobsFit, JobFits, HoldoutJob, SelectionMatches
  <1>4. FiledType'
    BY <1>1 DEF QualificationInv, FiledType, Subject
  <1>5. ChoiceFits' /\ ReceiptType'
    BY <1>1 DEF QualificationInv, ChoiceFits, ReceiptType
  <1>6. OneRun'
    BY <1>1 DEF QualificationInv, OneRun, Sealing, Receipt, SelectionMatches
  <1>7. Reported'
    BY <1>1 DEF QualificationInv, Reported, Sealing, FromRun
  <1>8. ClaimIsEarned'
    <2>1. active' => claim # None /\ claim.qualified = Roles
      BY DEF QualificationInv, ClaimIsEarned, Checkout, Deploy, Activate, decisions
    <2>2. QED
      BY <1>1, <2>1 DEF QualificationInv, ClaimIsEarned
  <1>9. QED
    BY <1>2, <1>3, <1>4, <1>5, <1>6, <1>7, <1>8 DEF QualificationInv

\* Nobody seals anything before the holdout.
LEMMA NothingSealed ==
    ASSUME JobsFit, stage # "holdout", NEW p \in Procs, NEW s
    PROVE  ~Sealing(p, s)
  BY DEF JobsFit, JobFits, HoldoutJob, Sealing, Free

\* The control does not gain on itself.
LEMMA NoGainOnItself ==
    ASSUME NEW g \in VisibleGradings, NEW r \in Roles
    PROVE  ~(Gain(g, g, r) >= MinGain)
  <1>1. DOMAIN g = VisibleSlots /\ Graded(g, VisibleSlots)
    BY GradingsGrade, SlotsAreCases DEF VisibleGradings
  <1>2. Graded(g, OfRole(g, r)) /\ OfRole(g, r) \subseteq VisibleSlots
    BY <1>1 DEF OfRole, Graded
  <1>3. IsFiniteSet(OfRole(g, r))
    BY <1>2, SlotsFinite, FS_Subset
  <1> DEFINE t == Total(g, OfRole(g, r))
  <1>4. t \in Int
    BY <1>2, <1>3, TotalType
  <1>5. Gain(g, g, r) = t - t
    BY DEF Gain
  <1> HIDE DEF t
  <1>6. QED
    BY <1>4, <1>5, Numbers

\* A comparison of the visible cases.
LEMMA SelectStep ==
    ASSUME QualificationInv, Select
    PROVE  QualificationInv'
  <1>1. /\ UNCHANGED <<head, deployed, pc, job, filed, reserved, completed, opened,
                       stage, frozen, claim, active>>
        /\ stage # "holdout"
    BY DEF Select, world, receipts
  <1>2. WorldType' /\ ReceiptType'
    BY <1>1 DEF QualificationInv, WorldType, ReceiptType
  <1>3. JobsFit'
    BY <1>1 DEF QualificationInv, JobsFit, JobFits, HoldoutJob
  <1>4. FiledType'
    BY <1>1 DEF QualificationInv, FiledType, Subject
  <1>5. ChoiceFits'
    <2>1. PICK chosen \in [Roles -> Profiles] :
            selection' = [chosen |-> chosen, ready |-> {r \in Roles : HoldoutReady(r, chosen[r])}]
      BY DEF Select
    <2>2. selection' \in [chosen : Choice, ready : SUBSET Roles]
      BY <2>1 DEF Choice
    <2>3. ASSUME NEW r \in Roles, HoldoutReady(r, Control) PROVE FALSE
      <3>1. filed[Control] # None /\ Control \in Subject
        BY <1>1, QualificationAssumption DEF Select, Comparable, Subject
      <3>2. filed[Control] \in Reports(VisibleGradings)
        BY <1>1, <3>1 DEF QualificationInv, FiledType
      <3>3. filed[Control].grades \in VisibleGradings
        BY <3>2 DEF Reports
      <3>4. Gain(filed[Control].grades, filed[Control].grades, r) >= MinGain
        BY <2>3 DEF HoldoutReady
      <3>5. QED
        BY <3>3, <3>4, NoGainOnItself
    <2>4. \A r \in selection'.ready : selection'.chosen[r] # Control
      BY <2>1, <2>3
    <2>5. QED
      BY <1>1, <2>2, <2>4 DEF QualificationInv, ChoiceFits
  <1>6. \A s \in Subjects : reserved[s] = None /\ completed[s] = None /\ opened[s] # 1
    BY <1>1 DEF QualificationInv, ReceiptType, OneRun
  <1>7. \A p \in Procs : \A s \in Subjects : ~Sealing(p, s)'
    BY <1>1, <1>3, NothingSealed DEF QualificationInv, Sealing
  <1>8. OneRun' /\ Reported'
    BY <1>1, <1>6, <1>7 DEF OneRun, Reported
  <1>9. ClaimIsEarned'
    BY <1>1 DEF QualificationInv, ClaimIsEarned
  <1>10. QED
    BY <1>2, <1>3, <1>4, <1>5, <1>8, <1>9 DEF QualificationInv

\* The maintainers freeze the next protocol.
LEMMA FreezeStep ==
    ASSUME QualificationInv, FreezeProtocol
    PROVE  QualificationInv'
  <1>1. /\ UNCHANGED <<head, deployed, pc, job, reserved, completed, opened, claim, active>>
        /\ stage \in {"profile", "prompt"} /\ stage' \in {"prompt", "holdout"}
        /\ selection # None
    BY DEF FreezeProtocol, world, receipts
  <1>2. /\ FiledType' /\ ChoiceFits'
        /\ stage' = "holdout" => \A s \in Subjects : filed'[s] = None
    <2>1. CASE stage = "profile"
      <3>1. /\ stage' = "prompt" /\ selection' = None
            /\ filed' = [s \in Profiles |-> None] /\ UNCHANGED frozen
        BY <2>1 DEF FreezeProtocol
      <3>2. QED
        BY <2>1, <3>1 DEF QualificationInv, FiledType, ChoiceFits, Subject
    <2>2. CASE stage = "prompt"
      <3>1. /\ stage' = "holdout" /\ frozen' \in Choice
            /\ filed' = [s \in Subjects |-> None] /\ UNCHANGED selection
        BY <2>2 DEF FreezeProtocol, Choice
      <3>2. QED
        BY <2>2, <3>1 DEF QualificationInv, FiledType, ChoiceFits, Subject
    <2>3. QED
      BY <1>1, <2>1, <2>2
  <1>3. WorldType'
    BY <1>1 DEF QualificationInv, WorldType
  <1>4. stage # "holdout"
    BY <1>1
  <1>5. JobsFit'
    BY <1>1, <1>4 DEF QualificationInv, JobsFit, JobFits, HoldoutJob
  <1>6. /\ \A s \in Subjects : reserved[s] = None /\ completed[s] = None /\ opened[s] # 1
        /\ claim = None
    BY <1>4 DEF QualificationInv, ReceiptType, OneRun
  <1>7. ReceiptType'
    BY <1>1, <1>6 DEF QualificationInv, ReceiptType
  <1>8. \A p \in Procs : \A s \in Subjects : ~Sealing(p, s)'
    BY <1>1, <1>4, NothingSealed DEF QualificationInv, Sealing
  <1>9. OneRun' /\ Reported'
    BY <1>1, <1>2, <1>6, <1>8 DEF OneRun, Reported
  <1>10. ClaimIsEarned'
    BY <1>1, <1>6 DEF QualificationInv, ClaimIsEarned
  <1>11. QED
    BY <1>2, <1>3, <1>5, <1>7, <1>9, <1>10 DEF QualificationInv

\* What a step of one command leaves to the others.
LEMMA OthersKeep ==
    ASSUME QualificationInv, UNCHANGED <<stage, selection, frozen>>, NEW p \in Procs,
           pc' \in [Procs -> Places], DOMAIN job' = Procs,
           \A q \in Procs \ {p} : pc'[q] = pc[q] /\ job'[q] = job[q],
           pc'[p] \in Free => job'[p] = None,
           pc'[p] \notin Free => job'[p] \in Job /\ JobFits(p)',
           pc'[p] = "compare" => stage = "holdout"
    PROVE  /\ JobsFit'
           /\ \A q \in Procs \ {p} : \A s \in Subjects : Sealing(q, s)' <=> Sealing(q, s)
  <1>1. JobsFit
    BY DEF QualificationInv
  <1>2. ASSUME NEW q \in Procs \ {p}
        PROVE  /\ pc'[q] \in Free => job'[q] = None
               /\ pc'[q] \notin Free => job'[q] \in Job /\ JobFits(q)'
               /\ pc'[q] = "compare" => stage' = "holdout"
    BY <1>1 DEF JobsFit, JobFits, HoldoutJob, SelectionMatches
  <1>3. JobsFit'
    BY <1>2 DEF JobsFit
  <1>4. QED
    BY <1>3 DEF Sealing

\* A command that ends takes nothing along.
LEMMA EndKeeps ==
    ASSUME QualificationInv, UNCHANGED <<stage, selection, frozen>>, NEW p \in Procs, End(p)
    PROVE  /\ JobsFit'
           /\ \A q \in Procs \ {p} : \A s \in Subjects : Sealing(q, s)' <=> Sealing(q, s)
           /\ \A q \in Procs \ {p} : pc'[q] = pc[q] /\ job'[q] = job[q]
           /\ \A s \in Subjects : ~Sealing(p, s)'
  <1>1. pc \in [Procs -> Places] /\ DOMAIN job = Procs
    BY DEF QualificationInv, JobsFit
  <1>2. /\ pc' \in [Procs -> Places] /\ DOMAIN job' = Procs
        /\ pc'[p] = "idle" /\ job'[p] = None
        /\ \A q \in Procs \ {p} : pc'[q] = pc[q] /\ job'[q] = job[q]
    BY <1>1 DEF End, Places
  <1>3. QED
    BY <1>2, OthersKeep DEF Sealing, Free

\* A command is killed.
LEMMA AbortStep ==
    ASSUME QualificationInv, NEW p \in Procs, Abort(p)
    PROVE  QualificationInv'
  <1>1. /\ UNCHANGED <<head, deployed, filed, reserved, completed, opened,
                       stage, selection, frozen, claim, active>>
        /\ End(p)
    BY DEF Abort, world, receipts, decisions
  <1>2. /\ JobsFit'
        /\ \A q \in Procs \ {p} : \A s \in Subjects : Sealing(q, s)' <=> Sealing(q, s)
        /\ \A q \in Procs \ {p} : pc'[q] = pc[q] /\ job'[q] = job[q]
        /\ \A s \in Subjects : ~Sealing(p, s)'
    BY <1>1, EndKeeps
  <1>3. WorldType' /\ ReceiptType' /\ ChoiceFits'
    BY <1>1 DEF QualificationInv, WorldType, ReceiptType, ChoiceFits
  <1>4. FiledType'
    BY <1>1 DEF QualificationInv, FiledType, Subject
  <1>5. OneRun'
    BY <1>1, <1>2 DEF QualificationInv, OneRun, Receipt, SelectionMatches
  <1>6. Reported'
    BY <1>1, <1>2 DEF QualificationInv, Reported, FromRun
  <1>7. ClaimIsEarned'
    BY <1>1 DEF QualificationInv, ClaimIsEarned
  <1>8. QED
    BY <1>2, <1>3, <1>4, <1>5, <1>6, <1>7 DEF QualificationInv

\* A comparison starts: the sealed cases are loaded.
LEMMA OpenComparisonStep ==
    ASSUME QualificationInv, NEW p \in Procs, OpenComparison(p)
    PROVE  QualificationInv'
  <1>a. JobsFit /\ pc \in [Procs -> Places] /\ DOMAIN job = Procs
    BY DEF QualificationInv, JobsFit
  <1>1. /\ UNCHANGED <<head, deployed, job, filed, reserved, completed, opened,
                       stage, selection, frozen, claim, active>>
        /\ stage = "holdout"
        /\ pc[p] = "idle" /\ pc' = [pc EXCEPT ![p] = "compare"]
    BY DEF OpenComparison, world, receipts, decisions
  <1>b. /\ pc' \in [Procs -> Places] /\ pc'[p] = "compare"
        /\ \A q \in Procs \ {p} : pc'[q] = pc[q]
    BY <1>1, <1>a DEF Places
  <1>2. WorldType' /\ ReceiptType' /\ ChoiceFits'
    BY <1>1 DEF QualificationInv, WorldType, ReceiptType, ChoiceFits
  <1>3. /\ JobsFit'
        /\ \A q \in Procs \ {p} : \A s \in Subjects : Sealing(q, s)' <=> Sealing(q, s)
    <2>1. job[p] = None
      BY <1>1, <1>a DEF JobsFit, Free
    <2>2. QED
      BY <1>1, <1>a, <1>b, <2>1, OthersKeep DEF Free
  <1>c. \A s \in Subjects : ~Sealing(p, s)'
    BY <1>b DEF Sealing
  <1>4. FiledType'
    BY <1>1 DEF QualificationInv, FiledType, Subject
  <1>5. OneRun'
    BY <1>1, <1>3, <1>b, <1>c DEF QualificationInv, OneRun, Receipt, SelectionMatches
  <1>6. Reported'
    BY <1>1, <1>3, <1>b, <1>c DEF QualificationInv, Reported, FromRun
  <1>7. ClaimIsEarned'
    BY <1>1 DEF QualificationInv, ClaimIsEarned
  <1>8. QED
    BY <1>2, <1>3, <1>4, <1>5, <1>6, <1>7 DEF QualificationInv

\* The comparison of the holdout.
LEMMA CompareStep ==
    ASSUME QualificationInv, NEW p \in Procs, CompareHoldout(p)
    PROVE  QualificationInv'
  <1>a. JobsFit /\ pc \in [Procs -> Places] /\ DOMAIN job = Procs
    BY DEF QualificationInv, JobsFit
  <1>1. /\ UNCHANGED <<head, deployed, job, filed, reserved, completed, opened,
                       stage, selection, frozen, active>>
        /\ stage = "holdout" /\ claim = None
        /\ pc[p] = "compare" /\ pc' = [pc EXCEPT ![p] = "idle"]
    BY <1>a DEF CompareHoldout, world, receipts, JobsFit
  <1>b. /\ pc' \in [Procs -> Places] /\ pc'[p] = "idle"
        /\ \A q \in Procs \ {p} : pc'[q] = pc[q]
    BY <1>1, <1>a DEF Places
  <1>2. WorldType' /\ ReceiptType' /\ ChoiceFits'
    BY <1>1 DEF QualificationInv, WorldType, ReceiptType, ChoiceFits
  <1>3. /\ JobsFit'
        /\ \A q \in Procs \ {p} : \A s \in Subjects : Sealing(q, s)' <=> Sealing(q, s)
    <2>1. job[p] = None
      BY <1>1, <1>a DEF JobsFit, Free
    <2>2. QED
      BY <1>1, <1>a, <1>b, <2>1, OthersKeep DEF Free
  <1>c. \A s \in Subjects : ~Sealing(p, s)'
    BY <1>b DEF Sealing
  <1>4. FiledType'
    BY <1>1 DEF QualificationInv, FiledType, Subject
  <1>5. OneRun'
    BY <1>1, <1>3, <1>b, <1>c DEF QualificationInv, OneRun, Receipt, SelectionMatches
  <1>6. Reported'
    BY <1>1, <1>3, <1>b, <1>c DEF QualificationInv, Reported, FromRun
  <1>7. ClaimIsEarned'
    <2>1. /\ claim' = [reports |-> filed,
                       qualified |-> {r \in Roles : Qualifies(filed["baseline"].grades,
                                                              filed["candidate"].grades, r)}]
          /\ \A s \in Subjects : filed[s] # None /\ Receipted(s)
          /\ filed["baseline"].commit = filed["candidate"].commit
      BY DEF CompareHoldout
    <2>2. ~active
      BY <1>1 DEF QualificationInv, ClaimIsEarned
    <2>3. ASSUME NEW s \in Subjects
          PROVE  /\ opened[s] = 1
                 /\ completed[s] # None
                 /\ filed[s] = completed[s].report
                 /\ completed[s].reservation = reserved[s]
                 /\ FromRun(filed[s], s)
      BY <1>1, <2>1 DEF QualificationInv, Reported, Receipted
    <2>4. \A s \in Subjects : /\ filed[s].grades \in SealedGradings
                              /\ filed[s].commit = reserved[s].commit
                              /\ ~filed[s].prompts
      BY <2>3 DEF FromRun, Reports
    <2>5. "baseline" \in Subjects /\ "candidate" \in Subjects
      BY DEF Subjects
    <2>6. claim'.reports = filed
      BY <2>1
    <2>7. ASSUME NEW r \in Roles
          PROVE  LET earns(allowed) == EarnsRole(filed["baseline"].grades,
                                                 filed["candidate"].grades, r, allowed)
                 IN  /\ r \in claim'.qualified => earns(MaxDrop)
                     /\ earns(MaxDrop - 1) => r \in claim'.qualified
      <3>1. r \in claim'.qualified <=>
              Qualifies(filed["baseline"].grades, filed["candidate"].grades, r)
        BY <2>1
      <3>2. QED
        BY <2>4, <2>5, <3>1, ClaimRule
    <2>8. reserved["baseline"].commit = reserved["candidate"].commit
      BY <2>1, <2>4, <2>5
    <2>9. QED
      BY <1>1, <2>2, <2>3, <2>4, <2>6, <2>7, <2>8 DEF ClaimIsEarned
  <1>8. QED
    BY <1>2, <1>3, <1>4, <1>5, <1>6, <1>7 DEF QualificationInv

\* A collection starts.
LEMMA PreflightStep ==
    ASSUME QualificationInv, NEW p \in Procs, NEW t \in Subject, Preflight(p, t)
    PROVE  QualificationInv'
  <1>1. UNCHANGED <<head, deployed, filed, reserved, completed, opened,
                    stage, selection, frozen, claim, active>>
    BY DEF Preflight, world, receipts, decisions
  <1>2. /\ pc[p] = "idle"
        /\ stage = "holdout" => SelectionMatches /\ ~deployed
        /\ pc' = [pc EXCEPT ![p] = IF stage = "holdout" THEN "reserve" ELSE "run"]
        /\ job' = [job EXCEPT ![p] =
             [stage |-> stage, subject |-> t, commit |-> head, prompts |-> deployed]]
    BY DEF Preflight, RequireCodeBaseline
  <1>3. /\ pc \in [Procs -> Places] /\ DOMAIN job = Procs
        /\ head \in Commits /\ deployed \in BOOLEAN
        /\ stage \in {"profile", "prompt", "holdout"}
    BY DEF QualificationInv, JobsFit, WorldType
  <1>4. /\ pc' \in [Procs -> Places] /\ DOMAIN job' = Procs
        /\ pc'[p] = IF stage = "holdout" THEN "reserve" ELSE "run"
        /\ job'[p] = [stage |-> stage, subject |-> t, commit |-> head, prompts |-> deployed]
        /\ \A q \in Procs \ {p} : pc'[q] = pc[q] /\ job'[q] = job[q]
    BY <1>2, <1>3 DEF Places
  <1>5. t \in Profiles \cup Subjects /\ (stage = "holdout" => t \in Subjects)
        /\ (stage # "holdout" => t \in Profiles)
    BY DEF Subject
  <1>6. job'[p] \in Job
    BY <1>3, <1>4, <1>5 DEF Job
  <1>7. JobFits(p)'
    <2>1. CASE stage = "holdout"
      BY <1>1, <1>2, <1>4, <1>5, <2>1 DEF JobFits, HoldoutJob, SelectionMatches
    <2>2. CASE stage # "holdout"
      BY <1>1, <1>4, <1>5, <2>2 DEF JobFits
    <2>3. QED
      BY <2>1, <2>2
  <1>8. /\ JobsFit'
        /\ \A q \in Procs \ {p} : \A s \in Subjects : Sealing(q, s)' <=> Sealing(q, s)
    BY <1>1, <1>4, <1>6, <1>7, OthersKeep DEF Free
  <1>9. \A s \in Subjects : ~Sealing(p, s)'
    BY <1>4 DEF Sealing
  <1>10. WorldType' /\ ReceiptType' /\ ChoiceFits'
    BY <1>1 DEF QualificationInv, WorldType, ReceiptType, ChoiceFits
  <1>11. FiledType'
    BY <1>1 DEF QualificationInv, FiledType, Subject
  <1>12. OneRun'
    BY <1>1, <1>4, <1>8, <1>9 DEF QualificationInv, OneRun, Receipt, SelectionMatches
  <1>13. Reported'
    BY <1>1, <1>4, <1>8, <1>9 DEF QualificationInv, Reported, FromRun
  <1>14. ClaimIsEarned'
    BY <1>1 DEF QualificationInv, ClaimIsEarned
  <1>15. QED
    BY <1>8, <1>10, <1>11, <1>12, <1>13, <1>14 DEF QualificationInv

\* The subject is reserved.
LEMMA ReserveStep ==
    ASSUME QualificationInv, NEW p \in Procs, Reserve(p)
    PROVE  QualificationInv'
  <1> DEFINE t == job[p].subject
  <1>1. /\ UNCHANGED <<head, deployed, job, filed, completed, opened,
                       stage, selection, frozen, claim, active>>
        /\ pc[p] = "reserve" /\ reserved[t] = None
        /\ reserved' = [reserved EXCEPT ![t] = Receipt(p)]
        /\ pc' = [pc EXCEPT ![p] = "open"]
    BY DEF Reserve, world, decisions
  <1>2. JobsFit /\ pc \in [Procs -> Places] /\ DOMAIN job = Procs
    BY DEF QualificationInv, JobsFit
  <1>3. job[p] \in Job /\ JobFits(p) /\ job[p].stage = "holdout"
    BY <1>1, <1>2 DEF JobsFit, JobFits, Free
  <1>4. HoldoutJob(p) /\ t \in Subjects /\ stage = "holdout" /\ SelectionMatches
    BY <1>3 DEF JobFits, HoldoutJob
  <1>5. Receipt(p) \in Receipts /\ Receipt(p) # None
    BY <1>1, <1>2, ReceiptIs DEF Free
  <1> HIDE DEF t
  <1>6. /\ reserved' \in [Subjects -> Receipts \cup {None}]
        /\ reserved'[t] = Receipt(p)
        /\ \A s \in Subjects \ {t} : reserved'[s] = reserved[s]
    BY <1>1, <1>4, <1>5 DEF QualificationInv, ReceiptType
  <1>7. opened[t] = 0
    BY <1>1, <1>4 DEF QualificationInv, ReceiptType, OneRun
  <1>8. /\ pc' \in [Procs -> Places] /\ pc'[p] = "open"
        /\ \A q \in Procs \ {p} : pc'[q] = pc[q]
    BY <1>1, <1>2 DEF Places
  <1>9. JobFits(p)'
    BY <1>1, <1>3, <1>4 DEF JobFits, HoldoutJob, SelectionMatches
  <1>10. /\ JobsFit'
         /\ \A q \in Procs \ {p} : \A s \in Subjects : Sealing(q, s)' <=> Sealing(q, s)
    BY <1>1, <1>2, <1>3, <1>8, <1>9, OthersKeep DEF Free
  <1>11. \A s \in Subjects : Sealing(p, s)' => s = t
    BY <1>1 DEF Sealing, t
  <1>12. \A q \in Procs : ~Sealing(q, t)
    <2>1. SUFFICES ASSUME NEW q \in Procs, Sealing(q, t) PROVE FALSE
      OBVIOUS
    <2>2. reserved[t] = Receipt(q) /\ pc[q] \notin Free
      BY <1>4, <2>1 DEF QualificationInv, OneRun, Sealing, Free
    <2>3. QED
      BY <1>1, <1>2, <2>2, ReceiptIs DEF Free
  <1>13. WorldType' /\ ChoiceFits'
    BY <1>1 DEF QualificationInv, WorldType, ChoiceFits
  <1>14. ReceiptType'
    BY <1>1, <1>4, <1>6 DEF QualificationInv, ReceiptType
  <1>15. FiledType'
    BY <1>1 DEF QualificationInv, FiledType, Subject
  <1>16. \A q \in Procs : Receipt(q)' = Receipt(q)
    BY <1>1 DEF Receipt
  <1>17. OneRun'
    <2>1. OneRun
      BY DEF QualificationInv
    <2>2. ASSUME NEW s \in Subjects, NEW q \in Procs, Sealing(q, s)'
          PROVE  /\ reserved'[s] = Receipt(q)'
                 /\ pc'[q] = "open" => opened'[s] = 0
                 /\ pc'[q] # "open" => opened'[s] = 1
      <3>1. CASE q = p
        BY <1>1, <1>6, <1>7, <1>8, <1>11, <1>16, <2>2, <3>1
      <3>2. CASE q # p
        <4>1. Sealing(q, s) /\ s # t
          BY <1>10, <1>12, <2>2, <3>2
        <4>2. QED
          BY <1>1, <1>6, <1>8, <1>16, <2>1, <3>2, <4>1 DEF OneRun
      <3>3. QED
        BY <3>1, <3>2
    <2>3. \A s \in Subjects : opened'[s] = 1 => reserved'[s] # None /\ SelectionMatches'
      BY <1>1, <1>5, <1>6, <2>1 DEF OneRun, SelectionMatches
    <2>4. QED
      BY <2>2, <2>3 DEF OneRun
  <1>18. Reported'
    <2>1. Reported
      BY DEF QualificationInv
    <2>2. ASSUME NEW s \in Subjects, opened[s] = 1 PROVE s # t
      BY <1>7, <2>2
    <2>3. \A s \in Subjects : s # t => reserved'[s] = reserved[s]
      BY <1>6
    <2>4. ASSUME NEW s \in Subjects, NEW q \in Procs, Sealing(q, s)', pc'[q] = "complete"
          PROVE  FromRun(filed[s], s)'
      <3>1. q # p /\ Sealing(q, s) /\ pc[q] = "complete" /\ s # t
        BY <1>8, <1>10, <1>12, <2>4
      <3>2. QED
        BY <1>1, <2>1, <2>3, <3>1 DEF Reported, FromRun
    <2>5. ASSUME NEW s \in Subjects, stage = "holdout", filed[s] # None
          PROVE  FromRun(filed[s], s)' /\ opened[s] = 1
      BY <1>1, <2>1, <2>2, <2>3, <2>5 DEF Reported, FromRun
    <2>6. ASSUME NEW s \in Subjects, completed[s] # None
          PROVE  /\ completed[s] \in [reservation : Receipts, report : Reports(SealedGradings)]
                 /\ opened[s] = 1
                 /\ completed[s].reservation = reserved'[s]
                 /\ FromRun(completed[s].report, s)'
      <3>1. s # t
        BY <2>1, <2>2, <2>6 DEF Reported
      <3>2. QED
        BY <1>1, <2>1, <2>3, <2>6, <3>1 DEF Reported, FromRun
    <2>7. QED
      BY <1>1, <2>4, <2>5, <2>6 DEF Reported, FromRun
  <1>19. ClaimIsEarned'
    <2>1. claim = None
      BY <1>4, <1>7 DEF QualificationInv, ClaimIsEarned
    <2>2. QED
      BY <1>1, <2>1 DEF QualificationInv, ClaimIsEarned
  <1>20. QED
    BY <1>10, <1>13, <1>14, <1>15, <1>17, <1>18, <1>19 DEF QualificationInv

\* The sealed cases are read.
LEMMA OpenStep ==
    ASSUME QualificationInv, NEW p \in Procs, OpenSealed(p)
    PROVE  QualificationInv'
  <1> DEFINE t == job[p].subject
  <1>1. /\ UNCHANGED <<head, deployed, job, filed, reserved, completed,
                       stage, selection, frozen, claim, active>>
        /\ pc[p] = "open"
        /\ opened' = [opened EXCEPT ![t] = @ + 1]
        /\ pc' = [pc EXCEPT ![p] = "run"]
    BY DEF OpenSealed, world, decisions
  <1>2. JobsFit /\ pc \in [Procs -> Places] /\ DOMAIN job = Procs
    BY DEF QualificationInv, JobsFit
  <1>3. job[p] \in Job /\ JobFits(p) /\ job[p].stage = "holdout"
    BY <1>1, <1>2 DEF JobsFit, JobFits, Free
  <1>4. HoldoutJob(p) /\ t \in Subjects /\ stage = "holdout" /\ SelectionMatches
    BY <1>3 DEF JobFits, HoldoutJob
  <1>5. Sealing(p, t)
    BY <1>1, <1>3 DEF Sealing
  <1> HIDE DEF t
  <1>6. opened[t] = 0 /\ reserved[t] = Receipt(p) /\ reserved[t] # None
    <2>1. opened[t] = 0 /\ reserved[t] = Receipt(p)
      BY <1>1, <1>4, <1>5 DEF QualificationInv, OneRun
    <2>2. QED
      BY <1>1, <1>2, <2>1, ReceiptIs DEF Free
  <1>7. /\ opened' \in [Subjects -> {0, 1}]
        /\ opened'[t] = 1
        /\ \A s \in Subjects \ {t} : opened'[s] = opened[s]
    <2>1. opened \in [Subjects -> {0, 1}]
      BY DEF QualificationInv, ReceiptType
    <2>2. opened' = [opened EXCEPT ![t] = 1]
      BY <1>1, <1>4, <1>6, <2>1
    <2>3. QED
      BY <1>4, <2>1, <2>2
  <1>8. /\ pc' \in [Procs -> Places] /\ pc'[p] = "run"
        /\ \A q \in Procs \ {p} : pc'[q] = pc[q]
    BY <1>1, <1>2 DEF Places
  <1>9. JobFits(p)'
    BY <1>1, <1>3, <1>4 DEF JobFits, HoldoutJob, SelectionMatches
  <1>10. /\ JobsFit'
         /\ \A q \in Procs \ {p} : \A s \in Subjects : Sealing(q, s)' <=> Sealing(q, s)
    BY <1>1, <1>2, <1>3, <1>8, <1>9, OthersKeep DEF Free
  <1>11. \A s \in Subjects : Sealing(p, s)' => s = t
    BY <1>1 DEF Sealing, t
  <1>12. \A q \in Procs : Sealing(q, t) => q = p
    BY <1>2, <1>4, <1>5, OneHolder DEF QualificationInv
  <1>13. WorldType' /\ ChoiceFits'
    BY <1>1 DEF QualificationInv, WorldType, ChoiceFits
  <1>14. ReceiptType'
    BY <1>1, <1>7 DEF QualificationInv, ReceiptType
  <1>15. FiledType'
    BY <1>1 DEF QualificationInv, FiledType, Subject
  <1>16. \A q \in Procs : Receipt(q)' = Receipt(q)
    BY <1>1 DEF Receipt
  <1>17. OneRun'
    <2>1. OneRun
      BY DEF QualificationInv
    <2>2. ASSUME NEW s \in Subjects, NEW q \in Procs, Sealing(q, s)'
          PROVE  /\ reserved'[s] = Receipt(q)'
                 /\ pc'[q] = "open" => opened'[s] = 0
                 /\ pc'[q] # "open" => opened'[s] = 1
      <3>1. CASE q = p
        BY <1>1, <1>6, <1>7, <1>8, <1>11, <1>16, <2>2, <3>1
      <3>2. CASE q # p
        <4>1. Sealing(q, s) /\ s # t
          BY <1>10, <1>12, <2>2, <3>2
        <4>2. QED
          BY <1>1, <1>7, <1>8, <1>16, <2>1, <3>2, <4>1 DEF OneRun
      <3>3. QED
        BY <3>1, <3>2
    <2>3. ASSUME NEW s \in Subjects, opened'[s] = 1
          PROVE  reserved'[s] # None /\ SelectionMatches'
      <3>1. SelectionMatches'
        BY <1>1, <1>4 DEF SelectionMatches
      <3>2. reserved'[s] # None
        BY <1>1, <1>6, <1>7, <2>1, <2>3 DEF OneRun
      <3>3. QED
        BY <3>1, <3>2
    <2>4. QED
      BY <2>2, <2>3 DEF OneRun
  <1>18. Reported'
    <2>1. Reported
      BY DEF QualificationInv
    <2>2. ASSUME NEW s \in Subjects, opened[s] = 1 PROVE opened'[s] = 1
      BY <1>7, <2>2
    <2>3. ASSUME NEW s \in Subjects, NEW q \in Procs, Sealing(q, s)', pc'[q] = "complete"
          PROVE  FromRun(filed[s], s)
      <3>1. q # p /\ Sealing(q, s) /\ pc[q] = "complete"
        BY <1>8, <1>10, <2>3
      <3>2. QED
        BY <2>1, <3>1 DEF Reported
    <2>4. ASSUME NEW s \in Subjects, stage = "holdout", filed[s] # None
          PROVE  FromRun(filed[s], s) /\ opened'[s] = 1
      BY <2>1, <2>2, <2>4 DEF Reported
    <2>5. ASSUME NEW s \in Subjects, completed[s] # None
          PROVE  /\ completed[s] \in [reservation : Receipts, report : Reports(SealedGradings)]
                 /\ opened'[s] = 1
                 /\ completed[s].reservation = reserved[s]
                 /\ FromRun(completed[s].report, s)
      BY <2>1, <2>2, <2>5 DEF Reported
    <2>6. QED
      BY <1>1, <2>3, <2>4, <2>5 DEF Reported, FromRun
  <1>19. ClaimIsEarned'
    <2>1. claim = None
      BY <1>4, <1>6 DEF QualificationInv, ClaimIsEarned
    <2>2. QED
      BY <1>1, <2>1 DEF QualificationInv, ClaimIsEarned
  <1>20. QED
    BY <1>10, <1>13, <1>14, <1>15, <1>17, <1>18, <1>19 DEF QualificationInv

\* A development experiment writes a report.
LEMMA PublishVisibleStep ==
    ASSUME QualificationInv, NEW p \in Procs, Publish(p), stage # "holdout"
    PROVE  QualificationInv'
  <1> DEFINE t == job[p].subject
  <1>1. /\ UNCHANGED <<head, deployed, reserved, completed, opened,
                       stage, selection, frozen, claim, active>>
        /\ pc[p] = "run" /\ job[p].stage = stage /\ End(p)
    BY DEF Publish, world, receipts, decisions
  <1>2. PICK g \in VisibleGradings : filed' = [filed EXCEPT ![t] = Report(p, g)]
    BY DEF Publish
  <1>3. job[p] \in Job /\ JobFits(p)
    BY <1>1 DEF QualificationInv, JobsFit, Free
  <1>4. t \in Profiles
    BY <1>1, <1>3 DEF JobFits
  <1>5. Report(p, g) \in Reports(VisibleGradings)
    BY <1>3 DEF Report, Reports, Job
  <1> HIDE DEF t
  <1>6. /\ JobsFit'
        /\ \A q \in Procs \ {p} : \A s \in Subjects : Sealing(q, s)' <=> Sealing(q, s)
        /\ \A s \in Subjects : ~Sealing(p, s)'
    BY <1>1, EndKeeps
  <1>7. WorldType' /\ ReceiptType' /\ ChoiceFits'
    BY <1>1 DEF QualificationInv, WorldType, ReceiptType, ChoiceFits
  <1>8. FiledType'
    BY <1>1, <1>2, <1>4, <1>5 DEF QualificationInv, FiledType, Subject
  <1>9. \A q \in Procs : \A s \in Subjects : ~Sealing(q, s)'
    BY <1>6, NothingSealed DEF QualificationInv
  <1>10. \A s \in Subjects : reserved[s] = None /\ completed[s] = None /\ opened[s] # 1
    BY DEF QualificationInv, ReceiptType, OneRun
  <1>11. OneRun' /\ Reported'
    BY <1>1, <1>9, <1>10 DEF OneRun, Reported
  <1>12. ClaimIsEarned'
    BY <1>1 DEF QualificationInv, ClaimIsEarned
  <1>13. QED
    BY <1>6, <1>7, <1>8, <1>11, <1>12 DEF QualificationInv

\* A collection of the holdout writes its report.
LEMMA PublishSealedStep ==
    ASSUME QualificationInv, NEW p \in Procs, Publish(p), stage = "holdout"
    PROVE  QualificationInv'
  <1> DEFINE t == job[p].subject
  <1>1. /\ UNCHANGED <<head, deployed, job, reserved, completed, opened,
                       stage, selection, frozen, claim, active>>
        /\ pc[p] = "run" /\ job[p].stage = "holdout"
        /\ pc' = [pc EXCEPT ![p] = "complete"]
    BY DEF Publish, world, receipts, decisions
  <1>2. PICK g \in SealedGradings : filed' = [filed EXCEPT ![t] = Report(p, g)]
    BY DEF Publish
  <1>3. JobsFit /\ pc \in [Procs -> Places] /\ DOMAIN job = Procs
    BY DEF QualificationInv, JobsFit
  <1>4. job[p] \in Job /\ JobFits(p) /\ HoldoutJob(p) /\ t \in Subjects
    BY <1>1, <1>3 DEF JobsFit, JobFits, HoldoutJob, Free
  <1>5. Sealing(p, t)
    BY <1>1 DEF Sealing
  <1>6. /\ Report(p, g) \in Reports(SealedGradings)
        /\ Report(p, g).commit = job[p].commit
        /\ ~Report(p, g).prompts
    BY <1>4 DEF Report, Reports, Job, HoldoutJob
  <1> HIDE DEF t
  <1>7. /\ reserved[t] = Receipt(p) /\ opened[t] = 1
    BY <1>1, <1>4, <1>5 DEF QualificationInv, OneRun
  <1>8. reserved[t].commit = job[p].commit
    BY <1>7 DEF Receipt
  <1>9. /\ pc' \in [Procs -> Places] /\ pc'[p] = "complete"
        /\ \A q \in Procs \ {p} : pc'[q] = pc[q]
    BY <1>1, <1>3 DEF Places
  <1>10. JobFits(p)'
    BY <1>1, <1>4 DEF JobFits, HoldoutJob, SelectionMatches
  <1>11. /\ JobsFit'
         /\ \A q \in Procs \ {p} : \A s \in Subjects : Sealing(q, s)' <=> Sealing(q, s)
    BY <1>1, <1>3, <1>4, <1>9, <1>10, OthersKeep DEF Free
  <1>12. \A s \in Subjects : Sealing(p, s)' => Sealing(p, s)
    BY <1>1 DEF Sealing
  <1>13. WorldType' /\ ReceiptType' /\ ChoiceFits'
    BY <1>1 DEF QualificationInv, WorldType, ReceiptType, ChoiceFits
  <1>14. /\ DOMAIN filed' = Subjects /\ filed'[t] = Report(p, g)
         /\ \A s \in Subjects \ {t} : filed'[s] = filed[s]
    BY <1>2, <1>4 DEF QualificationInv, FiledType, Subject
  <1>15. FiledType'
    BY <1>1, <1>6, <1>14 DEF QualificationInv, FiledType, Subject
  <1>16. \A q \in Procs : Receipt(q)' = Receipt(q)
    BY <1>1 DEF Receipt
  <1>17. OneRun'
    <2>1. OneRun
      BY DEF QualificationInv
    <2>2. ASSUME NEW s \in Subjects, NEW q \in Procs, Sealing(q, s)'
          PROVE  /\ reserved[s] = Receipt(q)
                 /\ pc'[q] = "open" => opened[s] = 0
                 /\ pc'[q] # "open" => opened[s] = 1
      <3>1. Sealing(q, s)
        BY <1>11, <1>12, <2>2
      <3>2. QED
        BY <1>1, <1>9, <2>1, <3>1 DEF OneRun
    <2>3. QED
      BY <1>1, <1>16, <2>1, <2>2 DEF OneRun, SelectionMatches
  <1>18. Reported'
    <2>1. Reported
      BY DEF QualificationInv
    <2>2. ASSUME NEW s \in Subjects, filed'[s] # None
          PROVE  FromRun(filed[s], s)' /\ opened[s] = 1
      <3>1. CASE s = t
        BY <1>1, <1>6, <1>7, <1>8, <1>14, <3>1 DEF FromRun
      <3>2. CASE s # t
        BY <1>1, <1>14, <2>1, <2>2, <3>2 DEF Reported, FromRun
      <3>3. QED
        BY <3>1, <3>2
    <2>3. ASSUME NEW s \in Subjects, NEW q \in Procs, Sealing(q, s)', pc'[q] = "complete"
          PROVE  FromRun(filed[s], s)'
      <3>1. CASE s = t
        BY <1>1, <1>6, <1>8, <1>14, <3>1 DEF FromRun
      <3>2. CASE s # t
        <4>1. q # p /\ Sealing(q, s) /\ pc[q] = "complete"
          BY <1>9, <1>11, <1>12, <2>3, <3>2 DEF Sealing, t
        <4>2. QED
          BY <1>1, <1>14, <2>1, <3>2, <4>1 DEF Reported, FromRun
      <3>3. QED
        BY <3>1, <3>2
    <2>4. QED
      BY <1>1, <2>1, <2>2, <2>3 DEF Reported, FromRun
  <1>19. ClaimIsEarned'
    BY <1>1 DEF QualificationInv, ClaimIsEarned
  <1>20. QED
    BY <1>11, <1>13, <1>15, <1>17, <1>18, <1>19 DEF QualificationInv

\* The second receipt is written.
LEMMA CompleteStep ==
    ASSUME QualificationInv, NEW p \in Procs, Complete(p)
    PROVE  QualificationInv'
  <1> DEFINE t == job[p].subject
  <1>1. /\ UNCHANGED <<head, deployed, filed, reserved, opened,
                       stage, selection, frozen, claim, active>>
        /\ pc[p] = "complete" /\ completed[t] = None /\ End(p)
        /\ completed' = [completed EXCEPT ![t] =
                           [reservation |-> Receipt(p), report |-> filed[t]]]
    BY DEF Complete, world, decisions
  <1>2. JobsFit
    BY DEF QualificationInv
  <1>3. job[p].stage = "holdout" /\ HoldoutJob(p) /\ t \in Subjects /\ stage = "holdout"
    BY <1>1, <1>2 DEF JobsFit, JobFits, HoldoutJob, Free
  <1>4. Sealing(p, t)
    BY <1>1, <1>3 DEF Sealing
  <1> HIDE DEF t
  <1>5. reserved[t] = Receipt(p) /\ opened[t] = 1 /\ FromRun(filed[t], t)
    BY <1>1, <1>3, <1>4 DEF QualificationInv, OneRun, Reported
  <1>6. /\ DOMAIN completed' = Subjects
        /\ completed'[t] = [reservation |-> reserved[t], report |-> filed[t]]
        /\ \A s \in Subjects \ {t} : completed'[s] = completed[s]
    BY <1>1, <1>3, <1>5 DEF QualificationInv, ReceiptType
  <1>7. /\ JobsFit'
        /\ \A q \in Procs \ {p} : \A s \in Subjects : Sealing(q, s)' <=> Sealing(q, s)
        /\ \A q \in Procs \ {p} : pc'[q] = pc[q] /\ job'[q] = job[q]
        /\ \A s \in Subjects : ~Sealing(p, s)'
    BY <1>1, EndKeeps
  <1>8. WorldType' /\ ChoiceFits'
    BY <1>1 DEF QualificationInv, WorldType, ChoiceFits
  <1>9. ReceiptType'
    BY <1>1, <1>3, <1>6 DEF QualificationInv, ReceiptType
  <1>10. FiledType'
    BY <1>1 DEF QualificationInv, FiledType, Subject
  <1>11. OneRun'
    BY <1>1, <1>7 DEF QualificationInv, OneRun, Receipt, SelectionMatches
  <1>12. Reported'
    <2>1. Reported
      BY DEF QualificationInv
    <2>2. Receipt(p) \in Receipts
      BY <1>1, <1>2, ReceiptIs DEF Free
    <2>3. ASSUME NEW s \in Subjects, completed'[s] # None
          PROVE  /\ completed'[s] \in [reservation : Receipts, report : Reports(SealedGradings)]
                 /\ opened[s] = 1
                 /\ completed'[s].reservation = reserved[s]
                 /\ FromRun(completed[s].report, s)'
      <3>1. CASE s = t
        <4>1. completed'[s].reservation = Receipt(p) /\ completed'[s].report = filed[t]
          BY <1>5, <1>6, <3>1
        <4>2. completed'[s] \in [reservation : Receipts, report : Reports(SealedGradings)]
          BY <1>5, <1>6, <2>2, <3>1 DEF FromRun
        <4>3. QED
          BY <1>1, <1>5, <3>1, <4>1, <4>2 DEF FromRun
      <3>2. CASE s # t
        BY <1>1, <1>6, <2>1, <2>3, <3>2 DEF Reported, FromRun
      <3>3. QED
        BY <3>1, <3>2
    <2>4. QED
      BY <1>1, <1>7, <2>1, <2>3 DEF Reported, FromRun
  <1>13. ClaimIsEarned'
    <2>1. claim = None
      BY <1>1, <1>3 DEF QualificationInv, ClaimIsEarned
    <2>2. QED
      BY <1>1, <2>1 DEF QualificationInv, ClaimIsEarned
  <1>14. QED
    BY <1>7, <1>8, <1>9, <1>10, <1>11, <1>12, <1>13 DEF QualificationInv

LEMMA InvStep == QualificationInv /\ [Next]_vars => QualificationInv'
  <1> SUFFICES ASSUME QualificationInv, [Next]_vars PROVE QualificationInv'
    OBVIOUS
  <1>1. CASE Checkout \/ Deploy \/ Activate
    BY <1>1, WorldStep
  <1>2. CASE Select
    BY <1>2, SelectStep
  <1>3. CASE FreezeProtocol
    BY <1>3, FreezeStep
  <1>4. ASSUME NEW p \in Procs, OpenComparison(p) \/ CompareHoldout(p)
        PROVE  QualificationInv'
    BY <1>4, OpenComparisonStep, CompareStep
  <1>5. ASSUME NEW p \in Procs, NEW s \in Subject, Preflight(p, s) PROVE QualificationInv'
    BY <1>5, PreflightStep
  <1>6. ASSUME NEW p \in Procs, Reserve(p) PROVE QualificationInv'
    BY <1>6, ReserveStep
  <1>7. ASSUME NEW p \in Procs, OpenSealed(p) PROVE QualificationInv'
    BY <1>7, OpenStep
  <1>8. ASSUME NEW p \in Procs, Publish(p) PROVE QualificationInv'
    BY <1>8, PublishVisibleStep, PublishSealedStep
  <1>9. ASSUME NEW p \in Procs, Complete(p) PROVE QualificationInv'
    BY <1>9, CompleteStep
  <1>10. ASSUME NEW p \in Procs, Abort(p) PROVE QualificationInv'
    BY <1>10, AbortStep
  <1>11. CASE UNCHANGED vars
    <2>1. UNCHANGED <<head, deployed, stage, pc, job, filed, selection, frozen,
                      reserved, completed, opened, claim, active>>
      BY <1>11 DEF vars, world, receipts, decisions
    <2>2. WorldType' /\ FiledType' /\ ChoiceFits' /\ ReceiptType'
      BY <2>1 DEF QualificationInv, WorldType, FiledType, ChoiceFits, ReceiptType, Subject
    <2>3. JobsFit'
      BY <2>1 DEF QualificationInv, JobsFit, JobFits, HoldoutJob, SelectionMatches
    <2>4. OneRun'
      BY <2>1 DEF QualificationInv, OneRun, Sealing, Receipt, SelectionMatches
    <2>5. Reported'
      BY <2>1 DEF QualificationInv, Reported, Sealing, FromRun
    <2>6. ClaimIsEarned'
      BY <2>1 DEF QualificationInv, ClaimIsEarned
    <2>7. QED
      BY <2>2, <2>3, <2>4, <2>5, <2>6 DEF QualificationInv
  <1>12. QED
    BY <1>1, <1>2, <1>3, <1>4, <1>5, <1>6, <1>7, <1>8, <1>9, <1>10, <1>11 DEF Next

LEMMA InvHolds == Spec => []QualificationInv
  BY InvInit, InvStep, PTL DEF Spec

\* Every command holds what it read exactly while it runs, and every report,
\* receipt and selection is one that the commands of the protocol in force write.
THEOREM TypeCorrect == Spec => []TypeOK
  BY InvHolds, InvImpliesType, PTL

\* CollectedOnce: whatever commands race, are killed or start again, at most one
\* collection puts the sealed cases to a subject, under its reservation, and only
\* after the visible cases opened both roles for the frozen prompts.
THEOREM CollectionsOnce == Spec => []CollectedOnce
  BY InvHolds, InvImpliesOnce, PTL

\* ClaimIsEarned: a claim rests on the one reserved and completed collection of each
\* subject; a role it names has earned it by the rule of the documents, and a role
\* that earned it with every loss below the limit is named, whatever floats make of
\* a loss of the very limit, for every suite of cases, every grading and every
\* threshold; only a claim of both roles serves.
THEOREM ClaimsEarned == Spec => []ClaimIsEarned
  <1>1. QualificationInv => ClaimIsEarned
    BY DEF QualificationInv
  <1>2. QED
    BY <1>1, InvHolds, PTL

-----------------------------------------------------------------------------
(***************************************************************************)
(* The selection on the visible cases.                                       *)
(***************************************************************************)

\* A case is attempted as often as any other.
LEMMA AttemptsOfCase ==
    ASSUME NEW c \in Visible
    PROVE  LET same == {k \in VisibleSlots : k[1] = c}
           IN  same # {} /\ IsFiniteSet(same) /\ Cardinality(same) = Repeats
  <1> DEFINE same == {k \in VisibleSlots : k[1] = c}
  <1>1. same = {c} \X (1 .. Repeats)
    BY DEF VisibleSlots
  <1>2. IsFiniteSet({c}) /\ Cardinality({c}) = 1
    BY FS_Singleton
  <1>3. IsFiniteSet(1 .. Repeats) /\ Cardinality(1 .. Repeats) = Repeats
    BY Numbers, FS_Interval
  <1>4. IsFiniteSet(same) /\ Cardinality(same) = 1 * Repeats
    <2> DEFINE A == {c}
               B == 1 .. Repeats
    <2>1. IsFiniteSet(A) /\ Cardinality(A) = 1 /\ IsFiniteSet(B) /\ Cardinality(B) = Repeats
      BY <1>2, <1>3
    <2>2. same = A \X B
      BY <1>1
    <2> HIDE DEF A, B, same
    <2>3. IsFiniteSet(A \X B) /\ Cardinality(A \X B) = Cardinality(A) * Cardinality(B)
      BY <2>1, FS_Product
    <2>4. QED
      BY <2>1, <2>2, <2>3
  <1>5. <<c, 1>> \in same
    BY Numbers DEF VisibleSlots
  <1> HIDE DEF same
  <1>6. same # {} /\ IsFiniteSet(same) /\ Cardinality(same) = Repeats
    BY <1>4, <1>5, Numbers
  <1>7. QED
    BY <1>6 DEF same

\* The slots of a role, and of its cases.
LEMMA VisibleRole ==
    ASSUME NEW g \in VisibleGradings, NEW r \in Roles
    PROVE  LET slots == {k \in VisibleSlots : RoleOf[k[1]] = r}
           IN  /\ OfRole(g, r) = slots /\ slots # {} /\ IsFiniteSet(slots)
               /\ Graded(g, slots)
               /\ CasesOf(g, OfRole(g, r)) = {c \in Visible : RoleOf[c] = r}
               /\ \A c \in Visible : OfCase(g, c) = {k \in VisibleSlots : k[1] = c}
               /\ \A c \in Visible : Graded(g, OfCase(g, c)) /\ IsFiniteSet(OfCase(g, c))
  <1> DEFINE slots == {k \in VisibleSlots : RoleOf[k[1]] = r}
  <1>1. DOMAIN g = VisibleSlots /\ Graded(g, VisibleSlots)
    BY GradingsGrade, SlotsAreCases DEF VisibleGradings
  <1>2. OfRole(g, r) = slots
    BY <1>1 DEF OfRole
  <1>3. slots # {} /\ IsFiniteSet(slots) /\ Graded(g, slots)
    BY <1>1, RolesHaveSlots, SlotsFinite, FS_Subset DEF Graded
  <1>4. CasesOf(g, OfRole(g, r)) = {c \in Visible : RoleOf[c] = r}
    <2>1. \A c \in Visible : <<c, 1>> \in VisibleSlots /\ <<c, 1>>[1] = c
      BY Numbers DEF VisibleSlots
    <2>2. \A s \in VisibleSlots : s[1] \in Visible
      BY DEF VisibleSlots
    <2>3. QED
      BY <1>2, <2>1, <2>2 DEF CasesOf
  <1>5. ASSUME NEW c \in Visible
        PROVE  /\ OfCase(g, c) = {k \in VisibleSlots : k[1] = c}
               /\ Graded(g, OfCase(g, c)) /\ IsFiniteSet(OfCase(g, c))
    BY <1>1, SlotsFinite, FS_Subset DEF OfCase, Graded
  <1>6. QED
    BY <1>2, <1>3, <1>4, <1>5

\* What the comparison finds of a profile is what the document asks of it, but for
\* a loss of the very limit.
LEMMA SelectionRule ==
    ASSUME QualificationInv, stage # "holdout", Comparable,
           NEW r \in Roles, NEW s \in BestProfiles(r)
    PROVE  /\ HoldoutReady(r, s) => EarnsHoldout(r, s, MaxDrop * Repeats)
           /\ EarnsHoldout(r, s, MaxDrop * Repeats - 1) => HoldoutReady(r, s)
  <1> DEFINE slots == {k \in VisibleSlots : RoleOf[k[1]] = r}
             g(t) == filed[t].grades
             sum(t, S) == SumFunctionOnSet([k \in S |-> Score(filed[t].grades[k])], S)
             reliable(t) == \A k \in slots : filed[t].grades[k] > 0 /\ filed[t].grades[k] >= MinCase
             same(c) == {k \in slots : k[1] = c}
  <1>1. \A t \in Profiles : g(t) \in VisibleGradings
    BY DEF QualificationInv, FiledType, Subject, Comparable, Reports
  <1>2. s \in Profiles /\ Control \in Profiles
    BY QualificationAssumption DEF BestProfiles
  <1>3. ASSUME NEW t \in Profiles
        PROVE  /\ OfRole(g(t), r) = slots
               /\ Graded(g(t), slots)
               /\ ProfileEligible(g(t), OfRole(g(t), r)) <=> reliable(t)
    <2>1. /\ OfRole(g(t), r) = slots /\ slots # {} /\ Graded(g(t), slots)
      BY <1>1, VisibleRole
    <2> HIDE DEF slots
    <2>2. QED
      BY <2>1, EligibleIsReliable
  <1>4. ASSUME NEW t \in Profiles
        PROVE  Total(g(t), OfRole(g(t), r)) = sum(t, slots)
    <2> HIDE DEF slots
    <2>1. QED
      BY <1>3 DEF Total
  <1>5. reliable(s) /\ \A t \in Profiles : reliable(t) => sum(t, slots) <= sum(s, slots)
    <2> DEFINE eligible == {t \in Profiles : ProfileEligible(g(t), OfRole(g(t), r))}
    <2>1. /\ s \in eligible
          /\ \A t \in eligible : Total(g(t), OfRole(g(t), r)) <= Total(g(s), OfRole(g(s), r))
      BY DEF BestProfiles
    <2>2. \A t \in Profiles : t \in eligible <=> reliable(t)
      BY <1>3
    <2>3. \A t \in eligible : t \in Profiles
      OBVIOUS
    <2> HIDE DEF eligible, slots, sum, reliable, g
    <2>4. QED
      BY <1>2, <1>4, <2>1, <2>2, <2>3
  <1>6. Gain(g(Control), g(s), r) >= MinGain
          <=> sum(s, slots) >= sum(Control, slots) + MinGain
    <2>1. IsFiniteSet(slots)
      BY SlotsFinite, FS_Subset
    <2> DEFINE a == sum(s, slots)
               b == sum(Control, slots)
    <2>2. a = Total(g(s), slots) /\ b = Total(g(Control), slots)
      BY DEF Total
    <2> HIDE DEF slots
    <2>3. Total(g(s), slots) \in Int /\ Total(g(Control), slots) \in Int
      BY <1>2, <1>3, <2>1, TotalType
    <2>4. Gain(g(Control), g(s), r) = Total(g(s), slots) - Total(g(Control), slots)
      BY <1>2, <1>3 DEF Gain
    <2> HIDE DEF a, b
    <2>5. QED
      BY <2>2, <2>3, <2>4, Numbers DEF a, b
  <1> DEFINE C == {c \in Visible : RoleOf[c] = r}
             m == MaxDrop * Repeats
  <1>7. ASSUME NEW c \in C
        PROVE  /\ sum(Control, same(c)) \in Int /\ sum(s, same(c)) \in Int
               /\ Loss(g(Control), g(s), c) = sum(Control, same(c)) - sum(s, same(c))
               /\ MaxDrop * Cardinality(OfCase(g(Control), c)) = m
    <2> DEFINE S == same(c)
    <2>1. S = {k \in VisibleSlots : k[1] = c}
      BY <1>7
    <2>2. /\ OfCase(g(Control), c) = S /\ OfCase(g(s), c) = S
          /\ Graded(g(Control), S) /\ Graded(g(s), S) /\ IsFiniteSet(S)
      <3>1. g(Control) \in VisibleGradings /\ g(s) \in VisibleGradings
        BY <1>1, <1>2
      <3>2. ASSUME NEW h \in VisibleGradings
            PROVE  OfCase(h, c) = S /\ Graded(h, S) /\ IsFiniteSet(S)
        <4>1. OfCase(h, c) = {k \in VisibleSlots : k[1] = c}
          BY VisibleRole
        <4>2. Graded(h, OfCase(h, c)) /\ IsFiniteSet(OfCase(h, c))
          BY VisibleRole
        <4> HIDE DEF S
        <4>3. QED
          BY <2>1, <4>1, <4>2
      <3> HIDE DEF S, g
      <3>3. QED
        BY <3>1, <3>2
    <2>3. Cardinality(S) = Repeats
      BY <2>1, AttemptsOfCase
    <2> HIDE DEF S
    <2>4. /\ Total(g(Control), S) = sum(Control, S) /\ sum(Control, S) \in Int
          /\ Total(g(s), S) = sum(s, S) /\ sum(s, S) \in Int
      BY <2>2, TotalType DEF Total
    <2> HIDE DEF sum
    <2>5. Loss(g(Control), g(s), c) = sum(Control, S) - sum(s, S)
      BY <2>2, <2>4 DEF Loss
    <2>6. QED
      BY <2>2, <2>3, <2>4, <2>5 DEF S
  <1>a. m \in Int
    BY Numbers
  <1>b. LET lost(allowed) == \A c \in Visible : RoleOf[c] = r =>
                               sum(Control, same(c)) <= sum(s, same(c)) + allowed
        IN  /\ MaterialRegressions(g(Control), g(s), r) = {} => lost(m)
            /\ lost(m - 1) => MaterialRegressions(g(Control), g(s), r) = {}
    <2>1. CasesOf(g(Control), OfRole(g(Control), r)) = C
      BY <1>1, <1>2, VisibleRole
    <2>2. \A c \in Visible : RoleOf[c] = r <=> c \in C
      OBVIOUS
    <2>3. \A c \in C : c \in Visible
      OBVIOUS
    <2> HIDE DEF sum, same, g, C, m
    <2>4. /\ MaterialRegressions(g(Control), g(s), r) = {} =>
               \A c \in C : Loss(g(Control), g(s), c) <= m
          /\ (\A c \in C : Loss(g(Control), g(s), c) <= m - 1) =>
               MaterialRegressions(g(Control), g(s), r) = {}
      <3>1. \A c \in C : /\ Loss(g(Control), g(s), c) \in Int
                        /\ MaxDrop * Cardinality(OfCase(g(Control), c)) = m
        BY <1>7
      <3>2. QED
        BY <1>a, <2>1, <3>1, RegressionsBound
    <2>5. ASSUME MaterialRegressions(g(Control), g(s), r) = {}, NEW c \in Visible,
                 RoleOf[c] = r
          PROVE  sum(Control, same(c)) <= sum(s, same(c)) + m
      <3>1. c \in C /\ Loss(g(Control), g(s), c) <= m
        BY <2>2, <2>4, <2>5
      <3>2. QED
        BY <1>7, <1>a, <3>1
    <2>6. ASSUME \A c \in Visible : RoleOf[c] = r =>
                   sum(Control, same(c)) <= sum(s, same(c)) + (m - 1)
          PROVE  MaterialRegressions(g(Control), g(s), r) = {}
      <3>1. ASSUME NEW c \in C PROVE Loss(g(Control), g(s), c) <= m - 1
        <4>1. sum(Control, same(c)) <= sum(s, same(c)) + (m - 1)
          BY <2>2, <2>3, <2>6
        <4>2. QED
          BY <1>7, <1>a, <4>1
      <3>2. QED
        BY <2>4, <3>1
    <2>7. QED
      BY <2>5, <2>6
  <1>8. \A t \in Profiles : /\ filed[t].commit = filed[s].commit
                            /\ filed[t].prompts = filed[s].prompts
    BY <1>2 DEF Comparable
  <1>9. ASSUME NEW allowed
        PROVE  EarnsHoldout(r, s, allowed) <=>
          /\ reliable(s)
          /\ \A t \in Profiles : reliable(t) => sum(t, slots) <= sum(s, slots)
          /\ sum(s, slots) >= sum(Control, slots) + MinGain
          /\ \A c \in Visible : RoleOf[c] = r =>
               sum(Control, same(c)) <= sum(s, same(c)) + allowed
          /\ \A t \in Profiles : /\ filed[t].commit = filed[s].commit
                                 /\ filed[t].prompts = filed[s].prompts
    BY DEF EarnsHoldout
  <1>10. HoldoutReady(r, s) <=> /\ Gain(g(Control), g(s), r) >= MinGain
                                /\ MaterialRegressions(g(Control), g(s), r) = {}
    BY DEF HoldoutReady
  <1>11. EarnsHoldout(r, s, m) <=> EarnsHoldout(r, s, MaxDrop * Repeats)
    OBVIOUS
  <1>12. EarnsHoldout(r, s, m - 1) <=> EarnsHoldout(r, s, MaxDrop * Repeats - 1)
    OBVIOUS
  <1> HIDE DEF slots, sum, reliable, same, g, C, m
  <1>13. QED
    BY <1>5, <1>6, <1>8, <1>9, <1>10, <1>11, <1>12, <1>b

LEMMA SelectionStep ==
    ASSUME QualificationInv, [Next]_vars, selection' # selection, selection' # None,
           NEW r \in Roles
    PROVE  LET earns(allowed) == EarnsHoldout(r, selection'.chosen[r], allowed)
           IN  /\ r \in selection'.ready => earns(MaxDrop * Repeats)
               /\ earns(MaxDrop * Repeats - 1) => r \in selection'.ready
  <1>1. Select
    BY DEF Next, vars, world, receipts, decisions, Checkout, Deploy, FreezeProtocol,
           OpenComparison, CompareHoldout, Activate, Preflight, Reserve, OpenSealed,
           Publish, Complete, Abort
  <1>2. PICK chosen \in [Roles -> Profiles] :
          /\ \A q \in Roles : chosen[q] \in BestProfiles(q)
          /\ selection' = [chosen |-> chosen, ready |-> {q \in Roles : HoldoutReady(q, chosen[q])}]
    BY <1>1 DEF Select
  <1>3. stage # "holdout" /\ Comparable
    BY <1>1 DEF Select
  <1>4. /\ HoldoutReady(r, chosen[r]) => EarnsHoldout(r, chosen[r], MaxDrop * Repeats)
        /\ EarnsHoldout(r, chosen[r], MaxDrop * Repeats - 1) => HoldoutReady(r, chosen[r])
    BY <1>2, <1>3, SelectionRule
  <1>5. selection'.chosen = chosen /\ (r \in selection'.ready <=> HoldoutReady(r, chosen[r]))
    BY <1>2
  <1>6. QED
    BY <1>4, <1>5

\* SelectionIsEarned: a selection that is written opens a role only with a profile
\* that answered every visible attempt well enough, is beaten by no reliable profile,
\* and gained on the control without losing more than the limit on a case, and opens
\* it whenever it lost less than the limit on every case, for all suites, gradings
\* and roundings.
THEOREM SelectionsEarned == Spec => SelectionIsEarned
  <1>1. QualificationInv /\ [Next]_vars =>
          [selection' # selection /\ selection' # None =>
             \A r \in Roles :
                LET earns(allowed) == EarnsHoldout(r, selection'.chosen[r], allowed)
                IN  /\ r \in selection'.ready => earns(MaxDrop * Repeats)
                    /\ earns(MaxDrop * Repeats - 1) => r \in selection'.ready]_vars
    BY SelectionStep
  <1>2. QED
    BY <1>1, InvHolds, PTL DEF Spec, SelectionIsEarned
=============================================================================
