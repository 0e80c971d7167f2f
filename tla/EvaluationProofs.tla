-------------------------- MODULE EvaluationProofs --------------------------
(***************************************************************************)
(* What an evaluation promises, for any schedule of cases, any budgets and    *)
(* any worktrees: its state stays well typed and within the budgets, and      *)
(* nothing is called eligible that did not earn it.                          *)
(*                                                                         *)
(* A verdict is computed once, from everything the evaluation has kept until  *)
(* then, and nothing it was computed from changes afterwards.  The work is in *)
(* the gates: they count passes and add up scores over all slots of a         *)
(* generation, and the promise is about single slots.  A slot of the          *)
(* candidate and the slot of the baseline as many places before it are for    *)
(* the same case, so that counts and sums can be compared slot by slot.       *)
(***************************************************************************)
EXTENDS Evaluation, SumLemmas, FiniteSetTheorems, SequenceTheorems, TLAPS

Outcome ==
    [ok : BOOLEAN, policy : BOOLEAN, control : BOOLEAN, score : 0 .. 1,
     seconds : 0 .. ProcessSeconds]

Budgets == [seconds : Nat, processes : Nat, calls : Nat, tokens : Nat, blocked : Nat]

TreeFits ==
    /\ kind \in Kinds
    /\ tree = [g \in Generations |-> tree[g]]
    /\ \A g \in Generations : tree[g] # Gone => tree[g] \in [head : Commits, clean : BOOLEAN]

\* An evaluation that has not started has no row, no build and no results.
PlaceFits ==
    /\ pc \in {"idle", "loading", "running", "ended", "lost"}
    /\ pc = "idle" <=> row = None
    /\ row = None <=> lineage = None
    /\ pc = "idle" => results = <<>>

RowFits ==
    row # None =>
        /\ row \in Row
        /\ lineage \in Lineage
        /\ Len(results) <= Scheduled
        /\ row.status = "completed" <=> row.verdict # None
        /\ pc \in {"loading", "running", "lost"} => row.status = "running"

ResultsFit == results \in Seq(Outcome)

\* Only the answer that ends the evaluation may overdraw the tokens.
SpentFits ==
    /\ spent \in Budgets
    /\ spent.seconds <= CampaignSeconds + IF kind = "prompt" THEN ProcessSeconds ELSE 0
    /\ spent.processes <= MaxProcesses
    /\ spent.calls <= MaxCalls
    /\ spent.tokens <= MaxTokens + IF pc = "ended" THEN 2 ELSE 0

TypeInv == TreeFits /\ PlaceFits /\ RowFits /\ ResultsFit /\ SpentFits

EvaluationInv == TypeInv /\ EligibleIsEarned

-----------------------------------------------------------------------------
(***************************************************************************)
(* The schedule: what a slot of the candidate and its counterpart share.     *)
(***************************************************************************)

LEMMA Numbers ==
    /\ CampaignSeconds \in Nat \ {0} /\ ProcessSeconds \in Nat \ {0}
    /\ MaxProcesses \in Nat \ {0} /\ MaxCalls \in Nat \ {0} /\ MaxTokens \in Nat \ {0}
    /\ MaxRepetitions \in Nat \ {0}
  BY EvaluationAssumption

LEMMA Gap ==
    ASSUME NEW L \in Nat \ {0}, NEW d \in Int, NEW e \in Int, L * d = e, -L < e, e < L
    PROVE  d = 0
  <1>1. CASE d >= 1
    <2>1. L * d >= L
      BY <1>1
    <2>2. QED
      BY <2>1
  <1>2. CASE d <= -1
    <2>1. L * d <= -L
      BY <1>2
    <2>2. QED
      BY <2>1
  <1>3. QED
    BY <1>1, <1>2

\* Some rounds later the schedule is at the same place of a round.
LEMMA Periodic ==
    ASSUME NEW L \in Nat \ {0}, NEW r \in Nat, NEW k \in Nat
    PROVE  (r * L + k) % L = k % L
  <1> DEFINE n == r * L + k
             q == k \div L
             m == k % L
             qq == n \div L
             mm == n % L
  <1>1. n \in Nat
    OBVIOUS
  <1>2. /\ q \in Int /\ m \in Int /\ k = L * q + m /\ 0 <= m /\ m < L
    OBVIOUS
  <1> HIDE DEF n
  <1>3. /\ qq \in Int /\ mm \in Int /\ n = L * qq + mm /\ 0 <= mm /\ mm < L
    BY <1>1
  <1> HIDE DEF q, m, qq, mm
  <1>4. n = r * L + k
    BY DEF n
  <1>5. L * (r + q - qq) = mm - m
    BY <1>1, <1>2, <1>3, <1>4
  <1>6. r + q - qq = 0
    BY <1>2, <1>3, <1>5, Gap
  <1>7. m = mm
    BY <1>2, <1>3, <1>5, <1>6
  <1>8. QED
    BY <1>7 DEF m, mm, n

Names == {"path-policy", "verification"} \cup Visible \cup Sealed

LEMMA CasesType ==
    /\ Cases \in Seq(Names)
    /\ Len(Cases) \in Nat \ {0}
    /\ \A k \in 1 .. Len(Cases) : Cases[k] \in Visible \cup Sealed
  <1>1. /\ Development \in Seq(Visible \cup Sealed) /\ Development # <<>>
        /\ Holdout \in Seq(Visible \cup Sealed)
    BY EvaluationAssumption, SMT
  <1>2. /\ Cases \in Seq(Visible \cup Sealed)
        /\ Len(Cases) = Len(Development) + Len(Holdout)
    BY <1>1, ConcatProperties DEF Cases
  <1>3. Len(Development) \in Nat \ {0} /\ Len(Holdout) \in Nat
    BY <1>1
  <1>4. Cases \in Seq(Names)
    BY <1>2 DEF Names
  <1>5. QED
    BY <1>2, <1>3, <1>4

LEMMA RoundType ==
    ASSUME kind \in Kinds
    PROVE  /\ Round \in Seq(Names)
           /\ Len(Round) \in Nat \ {0}
           /\ kind = "prompt" => \A k \in 1 .. Len(Round) : Round[k] \in Visible \cup Sealed
  <1>1. CASE kind = "source"
    <2>1. <<"path-policy", "verification">> \in Seq(Names)
      BY DEF Names
    <2>2. Round = <<"path-policy", "verification">> \o Cases
      BY <1>1 DEF Round
    <2>3. Round \in Seq(Names) /\ Len(Round) = 2 + Len(Cases)
      BY <2>1, <2>2, CasesType, ConcatProperties
    <2>4. QED
      BY <1>1, <2>3, CasesType
  <1>2. CASE kind = "prompt"
    <2>1. Round = <<>> \o Cases
      BY <1>2 DEF Round
    <2>2. Round = Cases
      BY <2>1, CasesType, ConcatEmptySeq
    <2>3. QED
      BY <2>2, CasesType
  <1>3. QED
    BY <1>1, <1>2 DEF Kinds

LEMMA PerGenerationType ==
    ASSUME kind \in Kinds, row \in Row
    PROVE  /\ row.repetitions \in Nat
           /\ PerGeneration \in Nat
           /\ Scheduled \in Nat
           /\ Scheduled = PerGeneration + PerGeneration
  <1>1. row.repetitions \in Nat
    BY Numbers DEF Row
  <1>2. PerGeneration \in Nat
    BY <1>1, RoundType DEF PerGeneration
  <1>3. QED
    BY <1>1, <1>2 DEF Scheduled

\* Both generations run the same cases, in the same order.
LEMMA SlotsMatch ==
    ASSUME kind \in Kinds, row \in Row, NEW i \in 1 .. PerGeneration
    PROVE  /\ Slot(i).generation = "baseline"
           /\ Slot(PerGeneration + i).generation = "candidate"
           /\ Slot(PerGeneration + i).case = Slot(i).case
           /\ kind = "prompt" => Slot(i).case \in Visible \cup Sealed
  <1>1. row.repetitions \in Nat /\ PerGeneration \in Nat
    BY PerGenerationType
  <1>2. Len(Round) \in Nat \ {0}
    BY RoundType
  <1> DEFINE L == Len(Round)
             r == row.repetitions
             k == i - 1
             n == PerGeneration
  <1>3. k \in Nat /\ n = r * L
    BY <1>1 DEF PerGeneration
  <1>4. (n + i) - 1 = n + k /\ i \in Nat /\ i >= 1 /\ i <= n
    BY <1>1
  <1> HIDE DEF k, n, L, r
  <1>5. L \in Nat \ {0} /\ r \in Nat /\ n \in Nat
    BY <1>1, <1>2 DEF L, r, n
  <1>6. (n + k) % L = k % L
    BY <1>3, <1>5, Periodic
  <1>7. k % L \in 0 .. L - 1
    BY <1>3, <1>5
  <1>8. (k % L) + 1 \in 1 .. L
    BY <1>5, <1>7
  <1>9. Slot(i) = [generation |-> "baseline", case |-> Round[(k % L) + 1]]
    BY <1>4 DEF Slot, n, k, L
  <1>10. ~(n + i <= n)
    BY <1>4, <1>5
  <1>11. Slot(n + i) = [generation |-> "candidate", case |-> Round[((n + k) % L) + 1]]
    BY <1>4, <1>10 DEF Slot, n, L
  <1>12. kind = "prompt" => Round[(k % L) + 1] \in Visible \cup Sealed
    BY <1>8, RoundType DEF L
  <1>13. QED
    BY <1>6, <1>9, <1>11, <1>12 DEF n

-----------------------------------------------------------------------------
(***************************************************************************)
(* The gates: what is called eligible went through all of them.              *)
(***************************************************************************)

AllOpen == Safety /\ Correctness /\ Regression /\ Control /\ Improvement /\ Efficiency

LEMMA GateOf ==
    /\ Open("safety") = Safety
    /\ Open("correctness") = Correctness
    /\ Open("regression") = Regression
    /\ Open("control") = Control
    /\ Open("improvement") = Improvement
    /\ Open("efficiency") = Efficiency
  <1>1. Open("safety") = Safety
    BY Zenon DEF Open
  <1>2. Open("correctness") = Correctness
    BY Zenon DEF Open
  <1>3. Open("regression") = Regression
    BY Zenon DEF Open
  <1>4. Open("control") = Control
    BY Zenon DEF Open
  <1>5. Open("improvement") = Improvement
    BY Zenon DEF Open
  <1>6. Open("efficiency") = Efficiency
    BY Zenon DEF Open
  <1>7. QED
    BY <1>1, <1>2, <1>3, <1>4, <1>5, <1>6

LEMMA RecommendationRule ==
    /\ Recommendation \in Verdicts
    /\ Recommendation = "eligible_for_promotion" => AllOpen
  <1> DEFINE closed == {i \in DOMAIN Gates : ~Open(Gates[i])}
  <1>1. DOMAIN Gates = 1 .. 6
    BY DEF Gates
  <1>2. /\ Gates[1] = "safety" /\ Gates[2] = "correctness" /\ Gates[3] = "regression"
        /\ Gates[4] = "control" /\ Gates[5] = "improvement" /\ Gates[6] = "efficiency"
    BY DEF Gates
  <1>3. Recommendation = IF closed = {} THEN "eligible_for_promotion"
                                        ELSE Gates[Min(closed)]
    BY DEF Recommendation
  <1>4. closed = {} => \A i \in 1 .. 6 : Open(Gates[i])
    BY <1>1
  <1>5. closed \subseteq 1 .. 6
    BY <1>1
  <1> HIDE DEF closed
  <1>6. CASE closed = {}
    <2>1. AllOpen
      BY <1>2, <1>4, <1>6, GateOf DEF AllOpen
    <2>2. QED
      BY <1>3, <1>6, <2>1 DEF Verdicts
  <1>7. CASE closed # {}
    <2>1. closed \subseteq Nat
      BY <1>5
    <2>2. \E x \in closed : \A y \in closed : x <= y
      BY <1>7, <2>1, LeastMember
    <2>3. Min(closed) \in closed
      BY <2>2 DEF Min
    <2> DEFINE m == Min(closed)
    <2>4. m \in 1 .. 6
      BY <1>5, <2>3
    <2>5. Recommendation = Gates[m]
      BY <1>3, <1>7
    <2> HIDE DEF m
    <2>6. Gates[m] \in Range(Gates)
      BY <1>1, <2>4 DEF Range
    <2>7. Gates[m] # "eligible_for_promotion"
      <3>1. m = 1 \/ m = 2 \/ m = 3 \/ m = 4 \/ m = 5 \/ m = 6
        BY <2>4
      <3>2. QED
        BY <1>2, <3>1
    <2>8. QED
      BY <2>5, <2>6, <2>7 DEF Verdicts
  <1>8. QED
    BY <1>6, <1>7

\* Once every case has run, the results are two generations of the same length.
LEMMA Halves ==
    ASSUME TypeInv, row # None, ~More
    PROVE  /\ PerGeneration \in Nat
           /\ Len(results) = 2 * PerGeneration
           /\ DOMAIN results = 1 .. 2 * PerGeneration
           /\ Ours("baseline") = 1 .. PerGeneration
           /\ Ours("candidate") = (PerGeneration + 1) .. (2 * PerGeneration)
  <1> DEFINE n == PerGeneration
  <1>1. kind \in Kinds /\ row \in Row /\ results \in Seq(Outcome)
    BY DEF TypeInv, TreeFits, RowFits, ResultsFit
  <1>2. n \in Nat /\ Scheduled = n + n
    BY <1>1, PerGenerationType
  <1>3. Len(results) \in Nat /\ DOMAIN results = 1 .. Len(results)
    BY <1>1
  <1>4. Len(results) = n + n
    <2>1. Len(results) <= Scheduled /\ ~(Len(results) < Scheduled)
      BY DEF More, TypeInv, RowFits
    <2> DEFINE m == Len(results)
               z == Scheduled
    <2>2. m \in Nat /\ n \in Nat /\ z = n + n /\ m <= z /\ ~(m < z)
      BY <1>2, <1>3, <2>1
    <2> HIDE DEF m, n, z
    <2>3. m = n + n
      BY <2>2
    <2>4. QED
      BY <2>3 DEF m
  <1>5. \A i \in 1 .. n + n : Slot(i).generation = IF i <= n THEN "baseline" ELSE "candidate"
    BY DEF Slot
  <1> HIDE DEF n
  <1>6. DOMAIN results = 1 .. n + n
    BY <1>3, <1>4
  <1>7. Ours("baseline") = 1 .. n
    <2>1. ASSUME NEW i PROVE i \in Ours("baseline") <=> i \in 1 .. n
      BY <1>2, <1>5, <1>6 DEF Ours
    <2>2. QED
      BY <2>1
  <1>8. Ours("candidate") = (n + 1) .. (n + n)
    <2>1. ASSUME NEW i PROVE i \in Ours("candidate") <=> i \in (n + 1) .. (n + n)
      BY <1>2, <1>5, <1>6 DEF Ours
    <2>2. QED
      BY <2>1
  <1>9. n + n = 2 * n
    BY <1>2
  <1>10. QED
    BY <1>2, <1>4, <1>6, <1>7, <1>8, <1>9 DEF n

\* A source candidate through all gates is better: were every target case that
\* passes now one that passed before, the candidate would pass no more of them.
LEMMA SourceEarns ==
    ASSUME TypeInv, row # None, ~More, kind = "source", AllOpen
    PROVE  SourceIsBetter
  <1> DEFINE n == PerGeneration
  <1>1. /\ kind \in Kinds /\ row \in Row /\ results \in Seq(Outcome)
        /\ spent \in Budgets
        /\ spent.seconds <= CampaignSeconds + IF kind = "prompt" THEN ProcessSeconds ELSE 0
        /\ spent.processes <= MaxProcesses
    BY DEF TypeInv, TreeFits, RowFits, ResultsFit, SpentFits
  <1>2. n \in Nat /\ Len(results) = 2 * n /\ DOMAIN results = 1 .. 2 * n
    BY Halves
  <1>3. Ours("baseline") = 1 .. n /\ Ours("candidate") = (n + 1) .. (2 * n)
    BY Halves
  <1>4. \A i \in 1 .. n : Slot(n + i).case = Slot(i).case
    BY <1>1, SlotsMatch
  <1> HIDE DEF n
  <1>5. \A i \in 1 .. n : n + i \in Ours("candidate")
    BY <1>2, <1>3
  <1>6. \A i \in 1 .. n : results[n + i].ok /\ results[n + i].policy /\ results[n + i].control
    BY <1>5 DEF AllOpen, Safety, Correctness, Control, ProcessesBehaved
  <1>7. \E i \in 1 .. n : Slot(i).case \in Targets /\ ~results[i].ok
    <2> SUFFICES ASSUME \A i \in 1 .. n : Slot(i).case \in Targets => results[i].ok
                 PROVE  FALSE
      OBVIOUS
    <2> DEFINE C == {i \in Ours("candidate") : Slot(i).case \in Targets /\ results[i].ok}
               B == {i \in Ours("baseline") : Slot(i).case \in Targets /\ results[i].ok}
               h == [i \in C |-> i - n]
    <2>1. Cardinality(C) > Cardinality(B)
      BY DEF AllOpen, Improvement, Passes
    <2>2. IsFiniteSet(B)
      <3>1. IsFiniteSet(1 .. n)
        BY <1>2, FS_Interval
      <3>2. B \subseteq 1 .. n
        BY <1>3
      <3> HIDE DEF B
      <3>3. QED
        BY <3>1, <3>2, FS_Subset
    <2>3. \A i \in C : i \in Int /\ i - n \in 1 .. n /\ n + (i - n) = i
      BY <1>2, <1>3
    <2>4. \A i \in C : i - n \in B
      <3> SUFFICES ASSUME NEW i \in C PROVE i - n \in B
        OBVIOUS
      <3>1. Slot(i).case = Slot(i - n).case
        BY <1>4, <2>3
      <3>2. QED
        BY <1>3, <2>3, <3>1
    <2>5. h \in [C -> B] /\ \A x, y \in C : h[x] = h[y] => x = y
      BY <1>2, <2>3, <2>4
    <2> HIDE DEF B, C, h
    <2>6. h \in Injection(C, B)
      BY <2>5 DEF Injection, IsInjective
    <2>7. IsFiniteSet(C) /\ Cardinality(C) <= Cardinality(B)
      BY <2>2, <2>6, FS_Injection
    <2> DEFINE a == Cardinality(C)
               b == Cardinality(B)
    <2>8. a \in Nat /\ b \in Nat /\ a > b /\ a <= b
      BY <2>1, <2>2, <2>7, FS_CardinalityType
    <2> HIDE DEF a, b
    <2>9. QED
      BY <2>8
  <1>8. spent.seconds <= CampaignSeconds
    BY <1>1, Numbers DEF Budgets
  <1>9. lineage.campaign => lineage.clean /\ lineage.sound
    BY DEF AllOpen, Control, ProcessesBehaved, Efficiency
  <1>10. QED
    BY <1>1, <1>2, <1>6, <1>7, <1>8, <1>9 DEF SourceIsBetter, n

\* A prompt through all gates is better: its scores, less the baseline's slot by
\* slot, add up to the difference of the two totals.
LEMMA PromptEarns ==
    ASSUME TypeInv, row # None, ~More, kind = "prompt", AllOpen
    PROVE  PromptIsBetter
  <1> DEFINE n == PerGeneration
             gain == [i \in 1 .. n |-> results[n + i].score - results[i].score]
             visible == {i \in 1 .. n : Slot(i).case \in Visible}
  <1>1. /\ kind \in Kinds /\ row \in Row /\ results \in Seq(Outcome)
    BY DEF TypeInv, TreeFits, RowFits, ResultsFit
  <1>2. n \in Nat /\ Len(results) = 2 * n /\ DOMAIN results = 1 .. 2 * n
    BY Halves
  <1>3. Ours("baseline") = 1 .. n /\ Ours("candidate") = (n + 1) .. (2 * n)
    BY Halves
  <1>4. \A i \in 1 .. n : /\ Slot(n + i).case = Slot(i).case
                          /\ Slot(i).case \in Visible \cup Sealed
    BY <1>1, SlotsMatch
  <1>5. \A i \in 1 .. n : Counterpart(n + i) = results[i]
    <2>1. \A i \in 1 .. n : (n + i) - n = i
      BY <1>2
    <2>2. QED
      BY <2>1 DEF Counterpart
  <1> HIDE DEF n
  <1>6. \A i \in 1 .. n : n + i \in Ours("candidate")
    BY <1>2, <1>3
  <1>7. \A i \in 1 .. n : /\ results[i] \in Outcome /\ results[n + i] \in Outcome
                          /\ results[i].score \in Int /\ results[n + i].score \in Int
    <2>1. \A i \in 1 .. n : i \in 1 .. Len(results) /\ n + i \in 1 .. Len(results)
      BY <1>2
    <2>2. \A i \in 1 .. n : results[i] \in Outcome /\ results[n + i] \in Outcome
      BY <1>1, <2>1, ElementOfSeq
    <2>3. \A o \in Outcome : o.score \in Int
      BY DEF Outcome
    <2>4. QED
      BY <2>2, <2>3
  <1>8. \A i \in 1 .. n : results[n + i].ok
    BY <1>6 DEF AllOpen, Correctness
  <1>9. \A i \in 1 .. n : i \notin visible => gain[i] >= 0
    <2> SUFFICES ASSUME NEW i \in 1 .. n, Slot(i).case \notin Visible
                 PROVE  results[n + i].score - results[i].score >= 0
      OBVIOUS
    <2>1. Slot(n + i).case \in Sealed
      BY <1>4
    <2>2. results[n + i].score >= results[i].score
      BY <1>5, <1>6, <2>1 DEF AllOpen, Regression, NoSealedScoreFalls
    <2> DEFINE a == results[n + i].score
               b == results[i].score
    <2>3. a \in Int /\ b \in Int /\ a >= b
      BY <1>7, <2>2
    <2> HIDE DEF a, b
    <2>4. a - b >= 0
      BY <2>3
    <2>5. QED
      BY <2>4 DEF a, b
  <1>10. SumFunctionOnSet(gain, visible) > 0
    <2> DEFINE B == {i \in Ours("baseline") : Slot(i).case \in Visible}
               C == {i \in Ours("candidate") : Slot(i).case \in Visible}
               F == [i \in C |-> results[i].score]
               G == [i \in B |-> results[i].score]
               K == [i \in B |-> results[n + i].score]
               h == [i \in B |-> n + i]
    <2>1. SumFunctionOnSet(F, C) > SumFunctionOnSet(G, B)
      BY DEF AllOpen, Improvement, Scored
    <2>2. B = visible
      BY <1>3
    <2>3. IsFiniteSet(B) /\ IsFiniteSet(C)
      <3>1. B \subseteq 1 .. n /\ C \subseteq (n + 1) .. (2 * n)
        BY <1>3
      <3> HIDE DEF B, C
      <3>2. IsFiniteSet(1 .. n) /\ IsFiniteSet((n + 1) .. (2 * n))
        BY <1>2, FS_Interval
      <3>3. QED
        BY <3>1, <3>2, FS_Subset
    <2>4. /\ \A i \in B : i \in 1 .. n /\ h[i] \in C /\ h[i] = n + i
          /\ \A c \in C : c - n \in B /\ h[c - n] = c
      <3>1. \A i \in B : i \in 1 .. n /\ h[i] \in C /\ h[i] = n + i
        BY <1>3, <1>4, <1>6
      <3>2. \A c \in C : c - n \in 1 .. n /\ n + (c - n) = c
        BY <1>2, <1>3
      <3>3. \A c \in C : c - n \in B
        BY <1>3, <1>4, <3>2
      <3>4. QED
        BY <3>1, <3>2, <3>3
    <2>5. \A i \in B : F[h[i]] = K[i] /\ F[h[i]] = results[n + i].score
      BY <2>4
    <2>6. \A i \in B : K[i] \in Int /\ G[i] \in Int /\ gain[i] = K[i] - G[i]
      BY <1>7, <2>4
    <2>7. h \in [B -> C]
      BY <2>4
    <2>8. \A x, y \in B : h[x] = h[y] => x = y
      <3> HIDE DEF B, C, h
      <3>1. \A x \in B : x \in Int /\ h[x] = n + x
        BY <1>2, <2>4
      <3>2. QED
        BY <1>2, <3>1
    <2>9. \A c \in C : \E x \in B : h[x] = c
      BY <2>4
    <2> HIDE DEF B, C, F, G, K, h, gain, visible
    <2>10. SumFunctionOnSet(K, B) = SumFunctionOnSet(F, C)
      BY <2>3, <2>5, <2>6, <2>7, <2>8, <2>9, SumRenamed
    <2>11. SumFunctionOnSet(gain, B) = SumFunctionOnSet(K, B) - SumFunctionOnSet(G, B)
      BY <2>3, <2>6, SumMinus
    <2>12. SumFunctionOnSet(K, B) \in Int /\ SumFunctionOnSet(G, B) \in Int
      BY <2>3, <2>6, SumType
    <2> DEFINE a == SumFunctionOnSet(K, B)
               b == SumFunctionOnSet(G, B)
    <2>13. a \in Int /\ b \in Int /\ a > b
      BY <2>1, <2>10, <2>12
    <2> HIDE DEF a, b
    <2>14. a - b > 0
      BY <2>13
    <2>15. QED
      BY <2>2, <2>11, <2>14 DEF a, b
  <1>11. spent.blocked = 0 /\ spent.tokens <= MaxTokens /\ lineage.clean /\ lineage.sound
    BY DEF AllOpen, Control, CallsWereGranted, Safety
  <1>12. Seconds(1 .. 2 * n) <= CampaignSeconds
    BY <1>2 DEF AllOpen, Efficiency
  <1>13. PromptIsBetter <=>
           /\ Len(results) = 2 * n
           /\ \A i \in 1 .. n : results[n + i].ok /\ (i \notin visible => gain[i] >= 0)
           /\ SumFunctionOnSet(gain, visible) > 0
           /\ spent.blocked = 0 /\ spent.tokens <= MaxTokens
           /\ Seconds(1 .. 2 * n) <= CampaignSeconds
           /\ lineage.clean /\ lineage.sound
    BY Zenon DEF PromptIsBetter, n
  <1> HIDE DEF gain, visible
  <1>14. QED
    BY <1>2, <1>8, <1>9, <1>10, <1>11, <1>12, <1>13

-----------------------------------------------------------------------------
(***************************************************************************)
(* The steps, by what they leave alone.                                      *)
(***************************************************************************)

LEMMA InitFits == Init => EvaluationInv
  <1> SUFFICES ASSUME Init PROVE EvaluationInv
    OBVIOUS
  <1>1. TreeFits
    <2>1. kind \in Kinds /\ tree \in [Generations -> [head : Commits, clean : {TRUE}]]
      BY DEF Init
    <2>2. \A g \in Generations : tree[g] \in [head : Commits, clean : BOOLEAN]
      BY <2>1
    <2>3. QED
      BY <2>1, <2>2 DEF TreeFits
  <1>2. PlaceFits /\ RowFits /\ EligibleIsEarned
    BY DEF Init, PlaceFits, RowFits, EligibleIsEarned
  <1>3. ResultsFit
    BY DEF Init, ResultsFit
  <1>4. SpentFits
    <2>1. spent = [seconds |-> 0, processes |-> 0, calls |-> 0, tokens |-> 0, blocked |-> 0]
      BY DEF Init
    <2>2. spent \in Budgets
      BY <2>1 DEF Budgets
    <2>3. QED
      BY <2>1, <2>2, Numbers DEF SpentFits
  <1>5. QED
    BY <1>1, <1>2, <1>3, <1>4 DEF EvaluationInv, TypeInv

LEMMA Running ==
    ASSUME TypeInv, pc \in {"loading", "running"}
    PROVE  /\ row # None /\ row \in Row /\ lineage \in Lineage /\ lineage # None
           /\ row.status = "running" /\ row.verdict = None
           /\ kind \in Kinds
           /\ Len(results) <= Scheduled
           /\ spent.tokens <= MaxTokens
  <1>1. row # None
    BY DEF TypeInv, PlaceFits
  <1>2. row \in Row /\ lineage \in Lineage /\ row.status = "running" /\ Len(results) <= Scheduled
    BY <1>1 DEF TypeInv, RowFits
  <1>3. row.verdict = None
    BY <1>1, <1>2 DEF TypeInv, RowFits
  <1>4. spent.tokens <= MaxTokens
    <2>1. spent.tokens <= MaxTokens + 0
      BY DEF TypeInv, SpentFits
    <2>2. QED
      BY <2>1, Numbers
  <1>5. QED
    BY <1>1, <1>2, <1>3, <1>4 DEF TypeInv, TreeFits, PlaceFits

\* The schedule depends on the number of repetitions alone.
LEMMA SameSchedule ==
    ASSUME kind' = kind, row'.repetitions = row.repetitions
    PROVE  /\ Round' = Round /\ PerGeneration' = PerGeneration
           /\ Scheduled' = Scheduled
           /\ \A i : Slot(i)' = Slot(i)
  <1>1. Round' = Round
    BY DEF Round
  <1>2. PerGeneration' = PerGeneration
    BY <1>1 DEF PerGeneration
  <1>3. QED
    BY <1>1, <1>2 DEF Scheduled, Slot

LEMMA SameVerdict ==
    ASSUME kind' = kind, row'.repetitions = row.repetitions,
           results' = results, spent' = spent, lineage' = lineage
    PROVE  /\ SourceIsBetter' <=> SourceIsBetter
           /\ PromptIsBetter' <=> PromptIsBetter
  <1>1. /\ PerGeneration' = PerGeneration
        /\ \A i : Slot(i)' = Slot(i)
    BY SameSchedule
  <1>2. SourceIsBetter' <=> SourceIsBetter
    BY <1>1 DEF SourceIsBetter
  <1>3. \A S : Seconds(S)' = Seconds(S)
    BY DEF Seconds
  <1>4. PromptIsBetter' <=> PromptIsBetter
    BY <1>1, <1>3 DEF PromptIsBetter
  <1>5. QED
    BY <1>2, <1>4

LEMMA NoVerdict ==
    /\ None # "eligible_for_promotion"
    /\ None \notin Row /\ None \notin Lineage
  BY NoneAssumption DEF Verdicts

\* A worktree changes, the evaluator moves on or is lost.
LEMMA MoveFits ==
    ASSUME EvaluationInv, TreeFits',
           \/ pc' = pc
           \/ pc \in {"loading", "running"} /\ pc' \in {"running", "lost"},
           UNCHANGED <<kind, row, lineage, results, spent>>
    PROVE  EvaluationInv'
  <1>1. TypeInv
    BY DEF EvaluationInv
  <1>2. PlaceFits'
    BY <1>1 DEF TypeInv, PlaceFits
  <1>3. RowFits'
    <2>1. row # None => Scheduled' = Scheduled
      BY SameSchedule
    <2>2. pc' \in {"loading", "running", "lost"} =>
             (pc \in {"loading", "running", "lost"} /\ pc' # "idle")
      OBVIOUS
    <2>3. QED
      BY <1>1, <2>1, <2>2 DEF TypeInv, RowFits
  <1>4. ResultsFit'
    BY <1>1 DEF TypeInv, ResultsFit
  <1>5. SpentFits'
    <2>1. pc' = "ended" <=> pc = "ended"
      OBVIOUS
    <2>2. QED
      BY <1>1, <2>1 DEF TypeInv, SpentFits
  <1>6. EligibleIsEarned'
    BY SameVerdict DEF EvaluationInv, EligibleIsEarned
  <1>7. QED
    BY <1>2, <1>3, <1>4, <1>5, <1>6 DEF EvaluationInv, TypeInv

\* The evaluation starts.
LEMMA StartFits ==
    ASSUME EvaluationInv, pc = "idle", pc' \in {"loading", "running"},
           NEW b \in Commits \cup {None}, NEW c \in Commits \cup {None},
           NEW n \in 1 .. MaxRepetitions, row' = NewRow(b, c, n),
           lineage' \in Lineage,
           UNCHANGED <<kind, tree, results, spent>>
    PROVE  EvaluationInv'
  <1>1. TypeInv
    BY DEF EvaluationInv
  <1>2. row' \in Row /\ row'.verdict = None /\ row'.status = "running"
    BY DEF NewRow, Row
  <1>3. TreeFits' /\ ResultsFit'
    BY <1>1 DEF TypeInv, TreeFits, ResultsFit
  <1>4. PlaceFits'
    BY <1>1, <1>2, NoVerdict DEF TypeInv, PlaceFits
  <1>5. RowFits'
    <2>1. results = <<>> /\ kind \in Kinds
      BY <1>1 DEF TypeInv, PlaceFits, TreeFits
    <2>2. Scheduled' \in Nat
      <3>1. kind' \in Kinds
        BY <2>1
      <3>2. Len(Round') \in Nat
        <4>1. Len(Round) \in Nat
          BY <2>1, RoundType
        <4>2. Round' = Round
          BY DEF Round
        <4>3. QED
          BY <4>1, <4>2
      <3>3. row'.repetitions \in Nat
        BY <1>2, Numbers DEF Row
      <3>4. PerGeneration' \in Nat
        BY <3>2, <3>3 DEF PerGeneration
      <3>5. Scheduled' = 2 * PerGeneration'
        BY DEF Scheduled
      <3>6. \A x \in Nat : 2 * x \in Nat
        OBVIOUS
      <3>7. QED
        BY <3>4, <3>5, <3>6, Zenon
    <2>3. Len(results') <= Scheduled'
      BY <2>1, <2>2
    <2>4. QED
      BY <1>2, <2>3 DEF RowFits
  <1>6. SpentFits'
    <2>1. pc' # "ended" /\ pc # "ended"
      OBVIOUS
    <2>2. QED
      BY <1>1, <2>1 DEF TypeInv, SpentFits
  <1>7. EligibleIsEarned'
    BY <1>2, NoVerdict DEF EligibleIsEarned
  <1>8. QED
    BY <1>3, <1>4, <1>5, <1>6, <1>7 DEF EvaluationInv, TypeInv

\* A case has its result.
LEMMA ReportFits ==
    ASSUME EvaluationInv, pc = "running", More, SpentFits',
           NEW r \in Outcome, Report(r),
           UNCHANGED <<kind, tree, pc, row, lineage>>
    PROVE  EvaluationInv'
  <1>1. TypeInv
    BY DEF EvaluationInv
  <1>2. /\ row # None /\ row \in Row /\ row.verdict = None /\ kind \in Kinds
    BY <1>1, Running
  <1>3. results \in Seq(Outcome) /\ results' = Append(results, r)
    BY <1>1 DEF TypeInv, ResultsFit, Report
  <1>4. ResultsFit' /\ Len(results') = Len(results) + 1
    BY <1>3, AppendProperties DEF ResultsFit
  <1>5. TreeFits'
    BY <1>1 DEF TypeInv, TreeFits
  <1>6. PlaceFits'
    BY <1>1 DEF TypeInv, PlaceFits
  <1>7. RowFits'
    <2>1. Scheduled' = Scheduled
      BY SameSchedule
    <2>2. Scheduled \in Nat
      BY <1>2, PerGenerationType
    <2>3. Len(results') <= Scheduled'
      <3>1. Len(results) \in Nat /\ Len(results) < Scheduled
        BY <1>3 DEF More
      <3> DEFINE a == Len(results)
                 b == Scheduled
      <3>2. a \in Nat /\ b \in Nat /\ a < b
        BY <2>2, <3>1
      <3> HIDE DEF a, b
      <3>3. a + 1 <= b
        BY <3>2
      <3>4. QED
        BY <1>4, <2>1, <3>3 DEF a, b
    <2>4. QED
      BY <1>1, <2>3 DEF TypeInv, RowFits
  <1>8. EligibleIsEarned'
    BY <1>2, NoVerdict DEF EligibleIsEarned
  <1>9. QED
    BY <1>4, <1>5, <1>6, <1>7, <1>8 DEF EvaluationInv, TypeInv

\* The evaluation ends with an outcome; only a completed one has a verdict.
LEMMA SettleFits ==
    ASSUME EvaluationInv, pc = "running", SpentFits',
           NEW status \in {"completed", "failed", "budget_exhausted"},
           NEW verdict \in Verdicts \cup {None},
           status = "completed" <=> verdict # None,
           Settle(status, verdict),
           verdict = "eligible_for_promotion" =>
              IF kind = "source" THEN SourceIsBetter' ELSE PromptIsBetter',
           UNCHANGED <<kind, tree, lineage, results>>
    PROVE  EvaluationInv'
  <1>1. TypeInv
    BY DEF EvaluationInv
  <1>2. /\ row # None /\ row \in Row /\ kind \in Kinds /\ lineage \in Lineage
        /\ Len(results) <= Scheduled /\ lineage # None
    BY <1>1, Running
  <1>3. /\ row' = [row EXCEPT !.status = status, !.verdict = verdict]
        /\ pc' = "ended"
    BY DEF Settle
  <1>4. /\ row' \in Row /\ row'.status = status /\ row'.verdict = verdict
        /\ row'.repetitions = row.repetitions
    BY <1>2, <1>3 DEF Row
  <1>5. TreeFits' /\ ResultsFit'
    BY <1>1 DEF TypeInv, TreeFits, ResultsFit
  <1>6. PlaceFits'
    BY <1>2, <1>3, <1>4, NoVerdict DEF PlaceFits
  <1>7. RowFits'
    <2>1. Scheduled' = Scheduled
      BY <1>4, SameSchedule
    <2>2. QED
      BY <1>2, <1>3, <1>4, <2>1 DEF RowFits
  <1>8. EligibleIsEarned'
    BY <1>4 DEF EligibleIsEarned
  <1>9. QED
    BY <1>5, <1>6, <1>7, <1>8 DEF EvaluationInv, TypeInv

-----------------------------------------------------------------------------
(***************************************************************************)
(* The actions.                                                              *)
(***************************************************************************)

LEMMA WorldFits ==
    ASSUME EvaluationInv, World
    PROVE  EvaluationInv'
  <1>1. TreeFits
    BY DEF EvaluationInv, TypeInv
  <1>2. PICK g \in Generations : Commit(g) \/ Edit(g) \/ Remove(g)
    BY DEF World
  <1>3. UNCHANGED <<kind, pc, row, lineage, results, spent>>
    BY <1>2 DEF Commit, Edit, Remove
  <1>4. TreeFits'
    <2>1. CASE Commit(g)
      <3>1. PICK c \in Commits : tree' = [tree EXCEPT ![g] = [head |-> c, clean |-> TRUE]]
        BY <2>1 DEF Commit
      <3>2. QED
        BY <1>1, <1>3, <3>1 DEF TreeFits
    <2>2. CASE Edit(g)
      <3>1. tree[g] \in [head : Commits, clean : BOOLEAN]
        BY <1>1, <2>2 DEF Edit, TreeFits
      <3>2. [tree[g] EXCEPT !.clean = FALSE] \in [head : Commits, clean : BOOLEAN]
        BY <3>1
      <3>3. tree' = [tree EXCEPT ![g] = [tree[g] EXCEPT !.clean = FALSE]]
        BY <2>2 DEF Edit
      <3>4. QED
        BY <1>1, <1>3, <3>2, <3>3 DEF TreeFits
    <2>3. CASE Remove(g)
      <3>1. tree' = [tree EXCEPT ![g] = Gone]
        BY <2>3 DEF Remove
      <3>2. QED
        BY <1>1, <1>3, <3>1 DEF TreeFits
    <2>4. QED
      BY <1>2, <2>1, <2>2, <2>3
  <1>5. QED
    BY <1>3, <1>4, MoveFits

LEMMA StartSourceFits ==
    ASSUME EvaluationInv, StartSource
    PROVE  EvaluationInv'
  <1>1. TreeFits
    BY DEF EvaluationInv, TypeInv
  <1>2. PICK n \in 1 .. MaxRepetitions : SourceRow(n)
    BY DEF StartSource
  <1>3. /\ tree["baseline"].head \in Commits /\ tree["candidate"].head \in Commits
    BY <1>1, <1>2 DEF SourceRow, CommittedPair, TreeFits, Generations
  <1>4. /\ row' = NewRow(tree["baseline"].head, tree["candidate"].head, n)
        /\ pc' = "running"
    BY <1>2 DEF SourceRow
  <1>5. /\ pc = "idle" /\ lineage' \in Lineage
        /\ UNCHANGED <<kind, tree, results, spent>>
    BY DEF StartSource, Lineage
  <1>6. QED
    BY <1>3, <1>4, <1>5, StartFits

LEMMA StartPromptFits ==
    ASSUME EvaluationInv, StartPrompt
    PROVE  EvaluationInv'
  <1>1. PICK n \in 1 .. MaxRepetitions : PromptRow(n)
    BY DEF StartPrompt
  <1>2. row' = NewRow(None, None, n) /\ pc' = "loading"
    BY <1>1 DEF PromptRow
  <1>3. /\ pc = "idle" /\ lineage' \in Lineage
        /\ UNCHANGED <<kind, tree, results, spent>>
    BY DEF StartPrompt, Lineage
  <1>4. QED
    BY <1>2, <1>3, StartFits

LEMMA LoadOrLostFits ==
    ASSUME EvaluationInv, Load \/ Crash \/ Die
    PROVE  EvaluationInv'
  <1>1. TreeFits
    BY DEF EvaluationInv, TypeInv
  <1>2. /\ pc \in {"loading", "running"} /\ pc' \in {"running", "lost"}
        /\ UNCHANGED <<kind, tree, row, lineage, results, spent>>
    BY DEF Load, Crash, Die, Lost
  <1>3. TreeFits'
    BY <1>1, <1>2 DEF TreeFits
  <1>4. QED
    BY <1>2, <1>3, MoveFits

LEMMA StopFits ==
    ASSUME EvaluationInv, pc = "running", SpentFits',
           NEW status \in {"failed", "budget_exhausted"}, Stop(status),
           UNCHANGED <<kind, tree, lineage, results>>
    PROVE  EvaluationInv'
  <1>1. Settle(status, None) /\ status # "completed"
    BY DEF Stop
  <1>2. None # "eligible_for_promotion"
    BY NoVerdict
  <1>3. QED
    BY <1>1, <1>2, SettleFits

\* The budgets as they were.
LEMMA SpentStays ==
    ASSUME EvaluationInv, pc = "running", kind' = kind, spent' = spent
    PROVE  SpentFits'
  <1>1. SpentFits
    BY DEF EvaluationInv, TypeInv
  <1>2. MaxTokens \in Nat /\ spent.tokens \in Nat
    BY <1>1, Numbers DEF SpentFits, Budgets
  <1>3. spent.tokens <= MaxTokens
    BY Running DEF EvaluationInv
  <1>4. spent'.tokens <= MaxTokens + IF pc' = "ended" THEN 2 ELSE 0
    BY <1>2, <1>3
  <1>5. QED
    BY <1>1, <1>4 DEF SpentFits

LEMMA ExhaustedOrUnableFits ==
    ASSUME EvaluationInv, Exhausted \/ Unable
    PROVE  EvaluationInv'
  <1>1. /\ pc = "running"
        /\ UNCHANGED <<kind, tree, lineage, results, spent>>
    BY DEF Exhausted, Unable
  <1>2. Stop("failed") \/ Stop("budget_exhausted")
    BY DEF Exhausted, Unable
  <1>3. SpentFits'
    BY <1>1, SpentStays
  <1>4. QED
    BY <1>1, <1>2, <1>3, StopFits

LEMMA PathPolicyFits ==
    ASSUME EvaluationInv, PathPolicy
    PROVE  EvaluationInv'
  <1>1. /\ pc = "running" /\ More
        /\ UNCHANGED <<kind, tree, pc, row, lineage, spent>>
    BY DEF PathPolicy
  <1>2. PICK clear \in BOOLEAN : Report(Result(clear, clear, TRUE, 0, 0))
    <2> DEFINE g == Turn.generation
               clear == Changed(g) \cap Protected = {} /\ Changed(g) \subseteq May(g)
    <2>1. clear \in BOOLEAN /\ Report(Result(clear, clear, TRUE, 0, 0))
      BY DEF PathPolicy
    <2> HIDE DEF clear
    <2>2. QED
      BY <2>1
  <1>3. Result(clear, clear, TRUE, 0, 0) \in Outcome
    BY Numbers DEF Result, Outcome
  <1>4. SpentFits'
    BY <1>1, SpentStays
  <1>5. QED
    BY <1>1, <1>2, <1>3, <1>4, ReportFits

\* The smaller of two numbers.
LEMMA Smaller ==
    ASSUME NEW a \in Int, NEW b \in Int
    PROVE  Min({a, b}) \in {a, b} /\ Min({a, b}) <= a /\ Min({a, b}) <= b
  <1>1. \E x \in {a, b} : \A y \in {a, b} : x <= y
    <2>1. CASE a <= b
      BY <2>1
    <2>2. CASE b <= a
      BY <2>2
    <2>3. QED
      BY <2>1, <2>2
  <1>2. /\ Min({a, b}) \in {a, b}
        /\ \A y \in {a, b} : Min({a, b}) <= y
    BY <1>1 DEF Min
  <1>3. QED
    BY <1>2

\* The time of one more process, or of one more answer, is entered.
LEMMA Entered ==
    ASSUME NEW b \in Budgets, NEW x \in Nat
    PROVE  LET p == [b EXCEPT !.seconds = @ + x, !.processes = @ + 1]
               c == [b EXCEPT !.seconds = @ + x]
           IN  /\ p \in Budgets
               /\ p.seconds = b.seconds + x /\ p.processes = b.processes + 1
               /\ p.calls = b.calls /\ p.tokens = b.tokens
               /\ c \in Budgets
               /\ c.seconds = b.seconds + x /\ c.processes = b.processes
               /\ c.calls = b.calls /\ c.tokens = b.tokens
  <1> DEFINE u == b.seconds + x
             v == b.processes + 1
  <1>1. u \in Nat /\ v \in Nat
    BY DEF Budgets
  <1> DEFINE p == [b EXCEPT !.seconds = u, !.processes = v]
             c == [b EXCEPT !.seconds = u]
  <1> HIDE DEF u, v
  <1>2. p \in Budgets /\ p.seconds = u /\ p.processes = v /\ p.calls = b.calls /\ p.tokens = b.tokens
    BY <1>1 DEF Budgets
  <1>3. c \in Budgets /\ c.seconds = u /\ c.processes = b.processes /\ c.calls = b.calls /\ c.tokens = b.tokens
    BY <1>1 DEF Budgets
  <1>4. QED
    BY <1>2, <1>3, Zenon DEF u, v

\* What is spent next fits as long as it is a number within each budget.
LEMMA SpendFits ==
    ASSUME EvaluationInv, pc = "running", kind' = kind,
           spent' \in Budgets,
           spent'.seconds <= CampaignSeconds + IF kind = "prompt" THEN ProcessSeconds ELSE 0,
           spent'.processes <= MaxProcesses, spent'.calls <= MaxCalls,
           \/ spent'.tokens <= MaxTokens
           \/ spent'.tokens <= MaxTokens + 2 /\ pc' = "ended"
    PROVE  SpentFits'
  <1>1. MaxTokens \in Nat /\ spent'.tokens \in Nat
    BY Numbers DEF Budgets
  <1>2. spent'.tokens <= MaxTokens + IF pc' = "ended" THEN 2 ELSE 0
    BY <1>1
  <1>3. QED
    BY <1>2 DEF SpentFits

LEMMA SandboxedFits ==
    ASSUME EvaluationInv, Sandboxed
    PROVE  EvaluationInv'
  <1>1. /\ pc = "running" /\ More /\ kind = "source"
        /\ UNCHANGED <<kind, tree, pc, row, lineage>>
        /\ ~OutOfProcesses /\ ~OutOfTime
    BY DEF Sandboxed
  <1>2. PICK needed \in 0 .. ProcessSeconds, verbose \in BOOLEAN, zero \in BOOLEAN,
             printed \in {"expected", "other", "garbage"} :
          LET late == needed >= Timeout
              seconds == Min({needed, Timeout})
          IN  /\ Report(IF Turn.case = "verification"
                          THEN CandidateVerification(late, verbose, zero, seconds)
                          ELSE Contract(late, verbose, zero, printed, seconds))
              /\ spent' = [spent EXCEPT !.seconds = @ + seconds, !.processes = @ + 1]
    BY DEF Sandboxed
  <1> DEFINE seconds == Min({needed, Timeout})
             late == needed >= Timeout
             left == CampaignSeconds - spent.seconds
  <1>3. spent \in Budgets /\ spent.processes < MaxProcesses /\ spent.seconds < CampaignSeconds
    <2>1. spent \in Budgets
      BY DEF EvaluationInv, TypeInv, SpentFits
    <2>2. QED
      BY <1>1, <2>1, Numbers DEF OutOfProcesses, OutOfTime, Budgets
  <1>4. /\ spent.seconds \in Nat /\ spent.processes \in Nat /\ spent.calls \in Nat
        /\ spent.tokens \in Nat /\ spent.blocked \in Nat
    BY <1>3 DEF Budgets
  <1>5. left \in Nat /\ spent.seconds + left = CampaignSeconds
    BY <1>3, <1>4, Numbers
  <1> HIDE DEF left
  <1>6. Timeout \in Nat /\ Timeout <= left
    <2> DEFINE m == Min({ProcessSeconds, left})
    <2>1. ProcessSeconds \in Nat
      BY Numbers
    <2>2. m \in {ProcessSeconds, left} /\ m <= ProcessSeconds /\ m <= left
      BY <1>5, <2>1, Smaller
    <2>3. Timeout = m
      BY DEF Timeout, left
    <2> HIDE DEF m
    <2>4. QED
      BY <1>5, <2>1, <2>2, <2>3
  <1>7. seconds \in 0 .. ProcessSeconds /\ seconds <= left
    <2>1. ProcessSeconds \in Nat /\ needed \in Nat /\ needed <= ProcessSeconds
      BY Numbers
    <2>2. seconds \in {needed, Timeout} /\ seconds <= needed /\ seconds <= Timeout
      BY <1>6, <2>1, Smaller
    <2> HIDE DEF seconds
    <2>3. QED
      BY <1>5, <1>6, <2>1, <2>2
  <1>8. /\ spent' = [spent EXCEPT !.seconds = @ + seconds, !.processes = @ + 1]
        /\ Report(IF Turn.case = "verification"
                    THEN CandidateVerification(late, verbose, zero, seconds)
                    ELSE Contract(late, verbose, zero, printed, seconds))
    BY <1>2
  <1>9. late \in BOOLEAN
    OBVIOUS
  <1> HIDE DEF seconds, late
  <1>10. /\ CandidateVerification(late, verbose, zero, seconds) \in Outcome
         /\ Contract(late, verbose, zero, printed, seconds) \in Outcome
    BY <1>7, <1>9 DEF CandidateVerification, Contract, Result, Outcome
  <1>11. SpentFits'
    <2>1. /\ spent' \in Budgets
          /\ spent'.seconds = spent.seconds + seconds
          /\ spent'.processes = spent.processes + 1
          /\ spent'.calls = spent.calls /\ spent'.tokens = spent.tokens
      <3>1. seconds \in Nat
        BY <1>7, Numbers
      <3>2. QED
        BY <1>3, <1>8, <3>1, Entered
    <2>2. spent.calls <= MaxCalls /\ spent.tokens <= MaxTokens
      BY <1>1, Running DEF EvaluationInv, TypeInv, SpentFits
    <2>3. spent'.seconds <= CampaignSeconds
      BY <1>4, <1>5, <1>7, <2>1, Numbers
    <2>4. spent'.processes <= MaxProcesses
      BY <1>3, <1>4, <2>1, Numbers
    <2>5. spent'.seconds <= CampaignSeconds + IF kind = "prompt" THEN ProcessSeconds ELSE 0
      BY <1>1, <2>1, <2>3, Numbers
    <2>6. spent'.calls <= MaxCalls /\ spent'.tokens <= MaxTokens
      BY <2>1, <2>2
    <2>7. kind' = kind
      BY <1>1
    <2>8. QED
      BY <1>1, <2>1, <2>4, <2>5, <2>6, <2>7, SpendFits
  <1>12. QED
    BY <1>1, <1>8, <1>10, <1>11, ReportFits

\* No prediction has more calls than the budget grants.
LEMMA CallsFit ==
    ASSUME spent \in Budgets, spent.calls <= MaxCalls, NEW n \in 1 .. 2
    PROVE  /\ Calls(n) \in Budgets
           /\ Calls(n).calls <= MaxCalls
           /\ Calls(n).seconds = spent.seconds
           /\ Calls(n).processes = spent.processes
           /\ Calls(n).tokens = spent.tokens
  <1>1. spent.calls \in Nat /\ spent.blocked \in Nat
    BY DEF Budgets
  <1>2. CASE spent.calls + n <= MaxCalls
    <2>1. Calls(n) = [spent EXCEPT !.calls = @ + n]
      BY <1>2 DEF Calls
    <2>2. QED
      BY <1>1, <1>2, <2>1 DEF Budgets
  <1>3. CASE ~(spent.calls + n <= MaxCalls)
    <2>1. Calls(n) = [spent EXCEPT !.calls = MaxCalls, !.blocked = @ + 1]
      BY <1>3 DEF Calls
    <2> DEFINE x == spent.blocked + 1
    <2>2. x \in Nat /\ MaxCalls \in Nat /\ MaxCalls <= MaxCalls
      BY <1>1, Numbers
    <2>3. Calls(n) = [spent EXCEPT !.calls = MaxCalls, !.blocked = x]
      BY <2>1
    <2> HIDE DEF x
    <2>4. QED
      BY <2>2, <2>3 DEF Budgets
  <1>4. QED
    BY <1>2, <1>3

\* Before a prediction there is time, and the budgets are kept.
LEMMA PredictingFits ==
    ASSUME EvaluationInv, Predicting
    PROVE  /\ pc = "running" /\ More /\ kind = "prompt"
           /\ UNCHANGED <<kind, tree, lineage>>
           /\ spent \in Budgets /\ spent.calls <= MaxCalls
           /\ spent.seconds \in Nat /\ spent.seconds <= CampaignSeconds
           /\ spent.tokens \in Nat /\ spent.tokens <= MaxTokens
           /\ spent.processes <= MaxProcesses
  <1>1. /\ pc = "running" /\ More /\ kind = "prompt" /\ ~OutOfTime
        /\ UNCHANGED <<kind, tree, lineage>>
    BY DEF Predicting
  <1>2. spent \in Budgets /\ spent.calls <= MaxCalls /\ spent.processes <= MaxProcesses
    BY DEF EvaluationInv, TypeInv, SpentFits
  <1>3. spent.seconds \in Nat /\ spent.tokens \in Nat
    BY <1>2 DEF Budgets
  <1>4. spent.seconds <= CampaignSeconds
    BY <1>1, <1>3, Numbers DEF OutOfTime
  <1>5. spent.tokens <= MaxTokens
    BY <1>1, Running DEF EvaluationInv
  <1>6. QED
    BY <1>1, <1>2, <1>3, <1>4, <1>5

LEMMA PredictFits ==
    ASSUME EvaluationInv, Predict
    PROVE  EvaluationInv'
  <1>1. PICK n \in 1 .. 2, t \in 1 .. 2, s \in 0 .. ProcessSeconds, ok \in BOOLEAN,
             score \in 0 .. 1 :
          LET used == [Calls(n) EXCEPT !.tokens = @ + t, !.seconds = @ + s] IN
          /\ n <= t
          /\ Predicting
          /\ used.blocked = spent.blocked
          /\ spent' = used
          /\ IF used.tokens > MaxTokens
               THEN Stop("budget_exhausted") /\ UNCHANGED results
               ELSE Report(Result(ok, ok, TRUE, score, s)) /\ UNCHANGED <<pc, row>>
    BY DEF Predict
  <1> DEFINE used == [Calls(n) EXCEPT !.tokens = @ + t, !.seconds = @ + s]
  <1>2. /\ Predicting /\ spent' = used
        /\ used.tokens > MaxTokens => Stop("budget_exhausted") /\ UNCHANGED results
        /\ ~(used.tokens > MaxTokens) =>
             Report(Result(ok, ok, TRUE, score, s)) /\ UNCHANGED <<pc, row>>
    BY <1>1
  <1>3. /\ pc = "running" /\ More /\ kind = "prompt"
        /\ UNCHANGED <<kind, tree, lineage>>
        /\ spent \in Budgets /\ spent.calls <= MaxCalls
        /\ spent.seconds \in Nat /\ spent.seconds <= CampaignSeconds
        /\ spent.tokens \in Nat /\ spent.tokens <= MaxTokens
        /\ spent.processes <= MaxProcesses
    BY <1>2, PredictingFits
  <1>4. /\ used \in Budgets /\ used.calls <= MaxCalls
        /\ used.seconds = spent.seconds + s /\ used.processes = spent.processes
        /\ used.tokens = spent.tokens + t
    <2>1. /\ Calls(n) \in Budgets /\ Calls(n).calls <= MaxCalls
          /\ Calls(n).seconds = spent.seconds /\ Calls(n).processes = spent.processes
          /\ Calls(n).tokens = spent.tokens
      BY <1>3, CallsFit
    <2> DEFINE c == Calls(n)
    <2>2. /\ c \in Budgets /\ c.calls <= MaxCalls
          /\ c.seconds = spent.seconds /\ c.processes = spent.processes
          /\ c.tokens = spent.tokens /\ used = [c EXCEPT !.tokens = @ + t, !.seconds = @ + s]
      BY <2>1
    <2> HIDE DEF c, used
    <2>3. s \in Nat /\ t \in Nat
      BY Numbers
    <2> DEFINE q == [c EXCEPT !.tokens = @ + t, !.seconds = @ + s]
    <2>4. /\ q \in Budgets /\ q.calls = c.calls
          /\ q.seconds = c.seconds + s /\ q.processes = c.processes
          /\ q.tokens = c.tokens + t
      <3> DEFINE u == c.seconds + s
                 w == c.tokens + t
      <3>1. c \in Budgets /\ u \in Nat /\ w \in Nat
        BY <2>2, <2>3 DEF Budgets
      <3> HIDE DEF u, w
      <3>2. q = [c EXCEPT !.tokens = w, !.seconds = u]
        BY DEF u, w
      <3> HIDE DEF q
      <3>3. /\ q \in Budgets /\ q.calls = c.calls /\ q.seconds = u
            /\ q.processes = c.processes /\ q.tokens = w
        BY <3>1, <3>2 DEF Budgets
      <3>4. QED
        BY <3>3 DEF u, w
    <2> HIDE DEF q
    <2>5. used = q
      BY <2>2 DEF q
    <2>6. QED
      BY <2>2, <2>4, <2>5
  <1> HIDE DEF used
  <1>5. /\ used.seconds <= CampaignSeconds + ProcessSeconds
        /\ used.tokens <= MaxTokens + 2 /\ used.tokens \in Nat
    BY <1>3, <1>4, Numbers
  <1>6. CASE used.tokens > MaxTokens
    <2>1. Stop("budget_exhausted") /\ UNCHANGED results /\ pc' = "ended"
      BY <1>2, <1>6 DEF Stop, Settle
    <2>2. SpentFits'
      BY <1>2, <1>3, <1>4, <1>5, <2>1, SpendFits
    <2>3. QED
      BY <1>3, <2>1, <2>2, StopFits
  <1>7. CASE ~(used.tokens > MaxTokens)
    <2>1. used.tokens <= MaxTokens
      BY <1>5, <1>7, Numbers
    <2>2. SpentFits'
      BY <1>2, <1>3, <1>4, <1>5, <2>1, SpendFits
    <2>3. Result(ok, ok, TRUE, score, s) \in Outcome
      BY DEF Result, Outcome
    <2>4. QED
      BY <1>2, <1>3, <1>7, <2>2, <2>3, ReportFits
  <1>8. QED
    BY <1>6, <1>7

LEMMA PredictionFailsFits ==
    ASSUME EvaluationInv, PredictionFails
    PROVE  EvaluationInv'
  <1>1. PICK n \in 1 .. 2, s \in 0 .. ProcessSeconds :
          /\ Predicting
          /\ spent' = [Calls(n) EXCEPT !.seconds = @ + s]
          /\ Report(Result(FALSE, FALSE, TRUE, 0, s))
          /\ UNCHANGED <<pc, row>>
    BY DEF PredictionFails
  <1>2. /\ pc = "running" /\ More /\ kind = "prompt"
        /\ UNCHANGED <<kind, tree, lineage>>
        /\ spent \in Budgets /\ spent.calls <= MaxCalls
        /\ spent.seconds \in Nat /\ spent.seconds <= CampaignSeconds
        /\ spent.tokens \in Nat /\ spent.tokens <= MaxTokens
        /\ spent.processes <= MaxProcesses
    BY <1>1, PredictingFits
  <1> DEFINE c == Calls(n)
  <1>3. /\ c \in Budgets /\ c.calls <= MaxCalls
        /\ c.seconds = spent.seconds /\ c.processes = spent.processes
        /\ c.tokens = spent.tokens /\ spent' = [c EXCEPT !.seconds = @ + s]
    BY <1>1, <1>2, CallsFit
  <1> HIDE DEF c
  <1>4. /\ spent' \in Budgets /\ spent'.calls = c.calls
        /\ spent'.seconds = spent.seconds + s /\ spent'.processes = spent.processes
        /\ spent'.tokens = spent.tokens
    <2>1. s \in Nat
      BY Numbers
    <2>2. QED
      BY <1>3, <2>1, Entered
  <1>5. spent'.seconds <= CampaignSeconds + ProcessSeconds
    BY <1>2, <1>4, Numbers
  <1>6. SpentFits'
    BY <1>2, <1>3, <1>4, <1>5, SpendFits
  <1>7. Result(FALSE, FALSE, TRUE, 0, s) \in Outcome
    BY DEF Result, Outcome
  <1>8. QED
    BY <1>1, <1>2, <1>6, <1>7, ReportFits

LEMMA CallBlockedFits ==
    ASSUME EvaluationInv, CallBlocked
    PROVE  EvaluationInv'
  <1>1. PICK n \in 1 .. 2 :
          Predicting /\ spent' = Calls(n) /\ Stop("failed") /\ UNCHANGED results
    BY DEF CallBlocked
  <1>2. /\ pc = "running" /\ kind = "prompt"
        /\ UNCHANGED <<kind, tree, lineage>>
        /\ spent \in Budgets /\ spent.calls <= MaxCalls
        /\ spent.seconds \in Nat /\ spent.seconds <= CampaignSeconds
        /\ spent.tokens \in Nat /\ spent.tokens <= MaxTokens
        /\ spent.processes <= MaxProcesses
    BY <1>1, PredictingFits
  <1>3. /\ spent' \in Budgets /\ spent'.calls <= MaxCalls
        /\ spent'.seconds = spent.seconds /\ spent'.processes = spent.processes
        /\ spent'.tokens = spent.tokens
    BY <1>1, <1>2, CallsFit
  <1>4. spent'.seconds <= CampaignSeconds + ProcessSeconds
    BY <1>2, <1>3, Numbers
  <1>5. SpentFits'
    BY <1>2, <1>3, <1>4, SpendFits
  <1>6. QED
    BY <1>1, <1>2, <1>5, StopFits

LEMMA CompleteFits ==
    ASSUME EvaluationInv, Complete
    PROVE  EvaluationInv'
  <1>1. /\ pc = "running" /\ ~More /\ Settle("completed", Recommendation)
        /\ UNCHANGED <<kind, tree, lineage, results, spent>>
    BY DEF Complete
  <1>2. TypeInv
    BY DEF EvaluationInv
  <1>3. row # None /\ row \in Row /\ kind \in Kinds
    BY <1>1, <1>2, Running
  <1>4. Recommendation \in Verdicts
    BY RecommendationRule
  <1>5. Recommendation # None
    BY <1>4, NoneAssumption
  <1>6. row'.repetitions = row.repetitions
    BY <1>1, <1>3 DEF Settle, Row
  <1>7. ASSUME Recommendation = "eligible_for_promotion"
        PROVE  IF kind = "source" THEN SourceIsBetter' ELSE PromptIsBetter'
    <2>1. AllOpen
      BY <1>7, RecommendationRule
    <2>2. CASE kind = "source"
      BY <1>1, <1>2, <1>3, <1>6, <2>1, <2>2, SourceEarns, SameVerdict
    <2>3. CASE kind = "prompt"
      BY <1>1, <1>2, <1>3, <1>6, <2>1, <2>3, PromptEarns, SameVerdict
    <2>4. QED
      BY <1>3, <2>2, <2>3 DEF Kinds
  <1>8. SpentFits'
    BY <1>1, SpentStays
  <1>9. QED
    BY <1>1, <1>4, <1>5, <1>7, <1>8, SettleFits

LEMMA NextFits ==
    ASSUME EvaluationInv, [Next]_vars
    PROVE  EvaluationInv'
  <1>1. CASE StartSource
    BY <1>1, StartSourceFits
  <1>2. CASE StartPrompt
    BY <1>2, StartPromptFits
  <1>3. CASE Step
    <2>1. CASE Load \/ Crash
      BY <2>1, LoadOrLostFits
    <2>2. CASE Exhausted \/ Unable
      BY <2>2, ExhaustedOrUnableFits
    <2>3. CASE PathPolicy
      BY <2>3, PathPolicyFits
    <2>4. CASE Sandboxed
      BY <2>4, SandboxedFits
    <2>5. CASE Predict
      BY <2>5, PredictFits
    <2>6. CASE PredictionFails
      BY <2>6, PredictionFailsFits
    <2>7. CASE CallBlocked
      BY <2>7, CallBlockedFits
    <2>8. CASE Complete
      BY <2>8, CompleteFits
    <2>9. QED
      BY <1>3, <2>1, <2>2, <2>3, <2>4, <2>5, <2>6, <2>7, <2>8 DEF Step
  <1>4. CASE Die
    BY <1>4, LoadOrLostFits
  <1>5. CASE World
    BY <1>5, WorldFits
  <1>6. CASE UNCHANGED vars
    <2>1. TreeFits
      BY DEF EvaluationInv, TypeInv
    <2>2. TreeFits' /\ pc' = pc /\ UNCHANGED <<kind, row, lineage, results, spent>>
      BY <1>6, <2>1 DEF vars, TreeFits
    <2>3. QED
      BY <2>2, MoveFits
  <1>7. QED
    BY <1>1, <1>2, <1>3, <1>4, <1>5, <1>6 DEF Next

THEOREM Invariance == Spec => []EvaluationInv
  <1>1. Init => EvaluationInv
    BY InitFits
  <1>2. EvaluationInv /\ [Next]_vars => EvaluationInv'
    BY NextFits
  <1>3. QED
    BY <1>1, <1>2, PTL DEF Spec

-----------------------------------------------------------------------------

LEMMA InvTyped == TypeInv => TypeOK
  <1> SUFFICES ASSUME TypeInv PROVE TypeOK
    OBVIOUS
  <1>1. \A i \in DOMAIN results : results[i] \in Outcome
    BY ElementOfSeq DEF TypeInv, ResultsFit
  <1>2. spent.tokens <= MaxTokens + 2
    <2>1. spent.tokens \in Nat /\ MaxTokens \in Nat
      BY Numbers DEF TypeInv, SpentFits, Budgets
    <2>2. spent.tokens <= MaxTokens + IF pc = "ended" THEN 2 ELSE 0
      BY DEF TypeInv, SpentFits
    <2>3. QED
      BY <2>1, <2>2
  <1>3. QED
    BY <1>1, <1>2
       DEF TypeInv, TreeFits, PlaceFits, RowFits, SpentFits, TypeOK, Outcome

\* The evaluator's row, results and budgets are what their readers take them for,
\* whatever happens to the worktrees meanwhile: a row is running as long as the
\* evaluator works on it, has a verdict exactly when it is completed, and time,
\* processes, calls and tokens stay within the limits.
THEOREM TypeCorrect == Spec => []TypeOK
  BY Invariance, InvTyped, PTL DEF EvaluationInv

\* Whatever is called eligible ran its whole schedule within every budget and is
\* better than the baseline on the evidence kept: a source candidate passes all its
\* cases and one target its baseline failed; a prompt answers everything, loses no
\* sealed score, and its scores on the visible cases add up to more.
THEOREM VerdictsEarned == Spec => []EligibleIsEarned
  BY Invariance, PTL DEF EvaluationInv
=============================================================================
