---------------------------- MODULE Generation_proof ----------------------------
(***************************************************************************)
(* Theorems about Generation, for every seed invoice, count, campaign      *)
(* seed, shard and set of rejected candidates.                             *)
(*                                                                         *)
(* First the corpus gate: what it takes from the reports of a batch, and   *)
(* what a passed corpus is.  Then sums, totals, documents and the          *)
(* reduction relation, for every invoice whatever its texts are made of;   *)
(* then the mutators, and with them the invariant CandidatesInv: every     *)
(* candidate is a valid invoice, made of the seed by the operations of its *)
(* index.  The rest follows from it.  At the end come the archives: what a *)
(* call that unpacks one keeps while it works, and what it cleans up.      *)
(***************************************************************************)
EXTENDS Generation, SequenceLemmas, FiniteSetTheorems, TLAPS

(* What was validated so far was accepted; validation starts with the first*)
(* candidate, when all of them were generated.                             *)
GateInv ==
  /\ candidates \in Seq(Range(candidates))
  /\ offset \in Nat /\ offset <= Len(candidates)
  /\ phase \in {"generating", "generated"} => offset = 0
  /\ phase \in {"validating", "passed"} =>
       \A i \in 1..offset : candidates[i].index \notin rejected
  /\ phase = "passed" => offset = Len(candidates)

-----------------------------------------------------------------------------
(* A document is only found valid if it is not rejected, whatever report   *)
(* is missing or lies in its place.                                        *)
LEMMA ValidMeansAccepted ==
  ASSUME NEW S, NEW batch \in Seq(S), NEW outcome \in Outcomes(batch),
         NEW d \in DOMAIN batch, Results(outcome, Len(batch))[d].valid
  PROVE  batch[d].index \notin rejected
<1> DEFINE truthful == Truthful(batch)
<1>1. DOMAIN batch = 1..Len(batch) /\ Len(batch) \in Nat
  OBVIOUS
<1>2. /\ DOMAIN truthful = DOMAIN batch
      /\ \A e \in DOMAIN batch :
           /\ truthful[e].document = e
           /\ ~truthful[e].errors => batch[e].index \notin rejected
  <2>1. DOMAIN truthful = DOMAIN batch
    BY DEF Truthful
  <2>2. ASSUME NEW e \in DOMAIN batch
        PROVE  /\ truthful[e].document = e
               /\ ~truthful[e].errors => batch[e].index \notin rejected
    <3>1. truthful[e] = [document |-> e, errors |-> batch[e].index \in rejected]
      BY DEF Truthful
    <3>2. truthful[e].document = e
      BY <3>1
    <3>3. truthful[e].errors = (batch[e].index \in rejected)
      BY <3>1
    <3>4. QED
      BY <3>2, <3>3, Zenon
  <2>3. QED
    BY <2>1, <2>2
<1> HIDE DEF truthful
<1>3. /\ DOMAIN outcome.reports = DOMAIN batch
      /\ outcome.reports[d].document = d
      /\ ~outcome.reports[d].errors
  BY <1>1 DEF Results, Judged, ReportIsAbout, Failure
<1>4. outcome.reports \in ReportSets(batch)
  BY DEF Outcomes
<1>5. CASE outcome.reports = truthful
  BY <1>2, <1>3, <1>5
<1>6. ASSUME NEW e \in Displaced(batch),
             outcome.reports = Restrict(truthful, DOMAIN batch \ {e})
      PROVE  FALSE
  <2>1. e \in DOMAIN batch /\ DOMAIN outcome.reports = DOMAIN batch \ {e}
    BY <1>6 DEF Displaced, Restrict
  <2>2. QED
    BY <1>3, <2>1
<1>7. ASSUME NEW e \in Displaced(batch), NEW other \in DOMAIN batch,
             outcome.reports = [truthful EXCEPT ![e] = truthful[other]]
      PROVE  batch[d].index \notin rejected
  <2>1. CASE d = e
    <3>1. outcome.reports[d] = truthful[other]
      BY <1>2, <1>7, <2>1
    <3>2. other = d
      BY <1>2, <1>3, <3>1
    <3>3. QED
      BY <1>2, <1>3, <3>1, <3>2
  <2>2. CASE d # e
    <3>1. outcome.reports[d] = truthful[d]
      BY <1>2, <1>7, <2>2
    <3>2. QED
      BY <1>2, <1>3, <3>1
  <2>3. QED
    BY <2>1, <2>2
<1>8. \/ outcome.reports = truthful
      \/ \E e \in Displaced(batch) :
           outcome.reports = Restrict(truthful, DOMAIN batch \ {e})
      \/ \E e \in Displaced(batch), other \in DOMAIN batch :
           outcome.reports = [truthful EXCEPT ![e] = truthful[other]]
  <2> DEFINE missing ==
        {Restrict(truthful, DOMAIN batch \ {e}) : e \in Displaced(batch)}
  <2> DEFINE Copy(e, other) == [truthful EXCEPT ![e] = truthful[other]]
  <2> DEFINE copied ==
        {Copy(e, other) : e \in Displaced(batch), other \in DOMAIN batch \cap {1, 2, Len(batch)}}
  <2>1. ReportSets(batch) = {truthful} \cup missing \cup copied
    BY DEF ReportSets, truthful
  <2>2. outcome.reports \in missing =>
          \E e \in Displaced(batch) :
            outcome.reports = Restrict(truthful, DOMAIN batch \ {e})
    OBVIOUS
  <2> HIDE DEF Copy
  <2>3. outcome.reports \in copied =>
          \E e \in Displaced(batch), other \in DOMAIN batch :
            outcome.reports = Copy(e, other)
    OBVIOUS
  <2> HIDE DEF missing, copied
  <2>4. QED
    BY <1>4, <2>1, <2>2, <2>3 DEF Copy
<1>9. QED
  BY <1>5, <1>6, <1>7, <1>8

(* One batch: the candidates after offset, up to end.                      *)
LEMMA BatchAccepted ==
  ASSUME GateInv, ValidateBatch
  PROVE  GateInv'
<1> DEFINE end == IF Len(candidates) - offset < BatchLimit THEN Len(candidates)
                                                           ELSE offset + BatchLimit
<1> DEFINE batch == SubSeq(candidates, offset + 1, end)
<1>1. /\ phase = "validating" /\ offset < Len(candidates)
      /\ offset' = end /\ UNCHANGED <<candidates, rejected>>
  BY DEF ValidateBatch
<1>2. PICK outcome \in Outcomes(batch) :
        phase' = IF \A d \in DOMAIN batch : Results(outcome, Len(batch))[d].valid
                 THEN "validating" ELSE "rejected"
  BY DEF ValidateBatch
<1>3. /\ candidates \in Seq(Range(candidates)) /\ Len(candidates) \in Nat
      /\ offset \in Nat
  BY DEF GateInv
<1>4. end \in Nat /\ offset < end /\ end <= Len(candidates)
  BY <1>1, <1>3 DEF BatchLimit
<1> HIDE DEF end
<1>5. /\ batch \in Seq(Range(candidates)) /\ DOMAIN batch = 1..(end - offset)
      /\ \A d \in 1..(end - offset) : batch[d] = candidates[offset + d]
  BY <1>3, <1>4
<1> HIDE DEF batch
<1>6. ASSUME phase' = "validating", NEW i \in 1..end
      PROVE  candidates[i].index \notin rejected
  <2>1. CASE i \in 1..offset
    BY <1>1, <2>1 DEF GateInv
  <2>2. CASE i \notin 1..offset
    <3>1. i - offset \in 1..(end - offset) /\ offset + (i - offset) = i
      BY <1>3, <1>4, <2>2
    <3>2. batch[i - offset] = candidates[i]
      BY <1>5, <3>1
    <3>3. Results(outcome, Len(batch))[i - offset].valid
      BY <1>2, <1>5, <1>6, <3>1
    <3>4. QED
      BY <1>5, <3>1, <3>2, <3>3, ValidMeansAccepted
  <2>3. QED
    BY <2>1, <2>2
<1>7. phase' \in {"validating", "rejected"}
  BY <1>2
<1>8. QED
  BY <1>1, <1>3, <1>4, <1>6, <1>7 DEF GateInv

(* Each step of generation and gate.                                        *)
LEMMA GateInductive ==
  ASSUME GateInv, [Next]_vars
  PROVE  GateInv'
<1>1. CASE Generate
  <2>1. /\ phase = "generating" /\ UNCHANGED offset
        /\ \/ UNCHANGED candidates /\ phase' \in {"ModelError", "RuntimeError"}
           \/ UNCHANGED phase /\ \E c : candidates' = Append(candidates, c)
    BY <1>1 DEF Generate
  <2>2. offset = 0
    BY <2>1 DEF GateInv
  <2>3. CASE \E c : candidates' = Append(candidates, c)
    <3>1. PICK c : candidates' = Append(candidates, c)
      BY <2>3
    <3> DEFINE S == Range(candidates) \cup {c}
    <3>2. candidates \in Seq(S) /\ c \in S
      BY DEF GateInv
    <3>3. candidates' \in Seq(S) /\ Range(candidates') = S
      BY <3>1, <3>2, AppendRange
    <3>4. 0 <= Len(candidates')
      BY <3>3
    <3>5. QED
      BY <2>1, <2>2, <3>3, <3>4 DEF GateInv
  <2>4. CASE UNCHANGED candidates
    BY <2>1, <2>2, <2>4 DEF GateInv
  <2>5. QED
    BY <2>1, <2>3, <2>4
<1>2. CASE Generated
  BY <1>2 DEF Generated, GateInv
<1>3. CASE CheckCoverage
  <2>1. /\ phase = "generated" /\ UNCHANGED <<candidates, offset>>
        /\ phase' \in {"mutators not covered", "interactions not covered",
                      "validating"}
    BY <1>3 DEF CheckCoverage
  <2>2. offset = 0 /\ candidates \in Seq(Range(candidates))
    BY <2>1 DEF GateInv
  <2>3. offset' = 0 /\ candidates' \in Seq(Range(candidates'))
    BY <2>1, <2>2
  <2>4. 0 <= Len(candidates') /\ 1..0 = {}
    BY <2>3
  <2>5. QED
    BY <2>1, <2>3, <2>4 DEF GateInv
<1>4. CASE ValidateBatch
  BY <1>4, BatchAccepted
<1>5. CASE Pass
  BY <1>5 DEF Pass, GateInv
<1>6. CASE UNCHANGED vars
  BY <1>6 DEF vars, GateInv
<1>7. QED
  BY <1>1, <1>2, <1>3, <1>4, <1>5, <1>6 DEF Next

(* The gate only passes a corpus every document of which the profile       *)
(* accepts, although a report may be missing or be about another document  *)
(* and the exit status is that of the whole batch (run_corpus_gate,        *)
(* validate_invoices).                                                     *)
THEOREM PassedCorporaAreAccepted == Spec => []PassedMeansAccepted
<1>1. Init => GateInv
  <2> SUFFICES ASSUME Init
               PROVE  GateInv
    OBVIOUS
  <2>1. candidates = <<>> /\ offset = 0 /\ phase = "generating"
    BY DEF Init
  <2>2. candidates \in Seq(Range(candidates)) /\ Len(candidates) = 0
    BY <2>1
  <2>3. QED
    BY <2>1, <2>2 DEF GateInv
<1>2. GateInv /\ [Next]_vars => GateInv'
  BY GateInductive
<1>3. GateInv => PassedMeansAccepted
  <2> SUFFICES ASSUME GateInv, phase = "passed"
               PROVE  /\ offset = Len(candidates)
                      /\ \A c \in Range(candidates) : c.index \notin rejected
    BY DEF PassedMeansAccepted
  <2>1. offset = Len(candidates)
    BY DEF GateInv
  <2>2. DOMAIN candidates = 1..Len(candidates)
    BY DEF GateInv
  <2>3. QED
    BY <2>1, <2>2 DEF GateInv, Range
<1>4. QED
  BY <1>1, <1>2, <1>3, PTL DEF Spec

-----------------------------------------------------------------------------
(* The partial sums of a sequence of numbers. *)
LEMMA SumOfSteps ==
  ASSUME NEW terms \in Seq(Int)
  PROVE  \E upTo \in [0..Len(terms) -> Int] :
           /\ upTo[0] = 0
           /\ \A n \in 1..Len(terms) : upTo[n] = upTo[n - 1] + terms[n]
           /\ SumOf(terms) = upTo[Len(terms)]
<1> DEFINE step == [n \in 1..Len(terms) |-> [sum \in Int |-> sum + terms[n]]]
<1> DEFINE Is(f) == f = [n \in 0..Len(terms) |->
                          IF n = 0 THEN 0 ELSE f[n - 1] + terms[n]]
<1>1. Len(terms) \in Nat /\ \A n \in 1..Len(terms) : terms[n] \in Int
  OBVIOUS
<1>2. step \in [1..Len(terms) -> [Int -> Int]]
  BY <1>1
<1>3. \A n \in 1..Len(terms), sum \in Int : step[n][sum] = sum + terms[n]
  OBVIOUS
<1> HIDE DEF step
<1>4. PICK f \in [0..Len(terms) -> Int] : IsRecursion(f, Len(terms), 0, step)
  <2>1. 0 \in Int
    OBVIOUS
  <2>2. \E f \in [0..Len(terms) -> Int] : IsRecursion(f, Len(terms), 0, step)
    BY <1>1, <1>2, <2>1, RecursionExists, Zenon
  <2>3. QED
    BY <2>2
<1>5. Is(f)
  <2>1. ASSUME NEW n \in 1..Len(terms)
        PROVE  f[n] = f[n - 1] + terms[n]
    <3>1. n - 1 \in 0..Len(terms)
      BY <1>1
    <3>2. f[n - 1] \in Int
      BY <3>1
    <3>3. QED
      BY <1>3, <1>4, <3>2 DEF IsRecursion
  <2>2. QED
    BY <1>1, <1>4, <2>1 DEF IsRecursion
<1> DEFINE upTo == CHOOSE g : Is(g)
<1>6. Is(upTo)
  BY <1>5
<1>7. SumOf(terms) = upTo[Len(terms)]
  BY DEF SumOf
<1> HIDE DEF upTo
<1>8. upTo[0] = 0 /\ \A n \in 1..Len(terms) : upTo[n] = upTo[n - 1] + terms[n]
  <2>1. upTo[0] = 0
    BY <1>1, <1>6
  <2>2. ASSUME NEW n \in 1..Len(terms)
        PROVE  upTo[n] = upTo[n - 1] + terms[n]
    <3>1. n \in 0..Len(terms) /\ n # 0
      BY <1>1
    <3>2. QED
      BY <1>6, <3>1
  <2>3. QED
    BY <2>1, <2>2
<1>9. DOMAIN upTo = 0..Len(terms)
  BY <1>6
<1>10. \A n \in 0..Len(terms) : upTo[n] \in Int
  <2> DEFINE T == {n \in 0..Len(terms) : upTo[n] \in Int}
  <2>1. 0 \in T
    BY <1>1, <1>8
  <2>2. \A n \in 1..Len(terms) : n - 1 \in T => n \in T
    BY <1>1, <1>8
  <2> HIDE DEF T
  <2>3. \A n \in 0..Len(terms) : n \in T
    BY <1>1, <2>1, <2>2, CountedInduction
  <2>4. QED
    BY <2>3 DEF T
<1>11. upTo \in [0..Len(terms) -> Int]
  BY <1>6, <1>10
<1>12. QED
  BY <1>7, <1>8, <1>11

(* The sum of numbers is a number, of naturals a natural. *)
LEMMA SumOfTyped ==
  ASSUME NEW terms \in Seq(Int)
  PROVE  /\ SumOf(terms) \in Int
         /\ (\A i \in DOMAIN terms : terms[i] >= 0) => SumOf(terms) \in Nat
<1>1. PICK upTo \in [0..Len(terms) -> Int] :
        /\ upTo[0] = 0
        /\ \A n \in 1..Len(terms) : upTo[n] = upTo[n - 1] + terms[n]
        /\ SumOf(terms) = upTo[Len(terms)]
  BY SumOfSteps
<1>2. Len(terms) \in Nat /\ DOMAIN terms = 1..Len(terms)
  OBVIOUS
<1>3. SumOf(terms) \in Int
  BY <1>1, <1>2
<1>4. ASSUME \A i \in DOMAIN terms : terms[i] >= 0
      PROVE  SumOf(terms) >= 0
  <2> DEFINE T == {n \in 0..Len(terms) : upTo[n] >= 0}
  <2>1. 0 \in T
    BY <1>1, <1>2
  <2>2. ASSUME NEW n \in 1..Len(terms), n - 1 \in T
        PROVE  n \in T
    <3>1. n \in DOMAIN terms /\ n - 1 \in 0..Len(terms) /\ n \in 0..Len(terms)
      BY <1>2
    <3>2. terms[n] \in Int /\ terms[n] >= 0 /\ upTo[n - 1] \in Int
      BY <1>4, <3>1
    <3>3. upTo[n] >= 0
      BY <1>1, <2>2, <3>2
    <3>4. QED
      BY <3>1, <3>3
  <2> HIDE DEF T
  <2>3. Len(terms) \in T
    <3>1. \A n \in 0..Len(terms) : n \in T
      <4>1. \A n \in 1..Len(terms) : n - 1 \in T => n \in T
        BY <2>2
      <4>2. QED
        BY <1>2, <2>1, <4>1, CountedInduction
    <3>2. QED
      BY <1>2, <3>1
  <2>4. QED
    BY <1>1, <2>3 DEF T
<1>5. QED
  BY <1>3, <1>4

(* Changing one term changes the sum by as much. *)
LEMMA SumOfReplaced ==
  ASSUME NEW s, NEW t, NEW i
  PROVE  /\ s \in Seq(Int) /\ t \in Seq(Int) /\ Len(s) = Len(t)
         /\ i \in 1..Len(s)
         /\ \A j \in 1..Len(s) : j # i => s[j] = t[j]
         => SumOf(t) = SumOf(s) - s[i] + t[i]
<1>0. SUFFICES ASSUME s \in Seq(Int), t \in Seq(Int), Len(s) = Len(t),
                      i \in 1..Len(s),
                      \A j \in 1..Len(s) : j # i => s[j] = t[j]
               PROVE  SumOf(t) = SumOf(s) - s[i] + t[i]
  BY <1>0
<1>1. PICK f :
        /\ f \in [0..Len(s) -> Int] /\ f[0] = 0 /\ SumOf(s) = f[Len(s)]
        /\ \A n \in 1..Len(s) : f[n] = f[n - 1] + s[n]
  BY <1>0, SumOfSteps
<1>2. PICK g :
        /\ g \in [0..Len(t) -> Int] /\ g[0] = 0 /\ SumOf(t) = g[Len(t)]
        /\ \A n \in 1..Len(t) : g[n] = g[n - 1] + t[n]
  BY <1>0, SumOfSteps
<1>3. /\ Len(s) \in Nat /\ Len(t) = Len(s)
      /\ \A n \in 1..Len(s) : s[n] \in Int /\ t[n] \in Int
  BY <1>0
<1> DEFINE T == {n \in 0..Len(s) : g[n] = f[n] + (IF n < i THEN 0 ELSE t[i] - s[i])}
<1>4. 0 \in T
  BY <1>0, <1>1, <1>2, <1>3
<1>5. ASSUME NEW n \in 1..Len(s), n - 1 \in T
      PROVE  n \in T
  <2>1. /\ f[n] = f[n - 1] + s[n] /\ g[n] = g[n - 1] + t[n]
        /\ g[n - 1] = f[n - 1] + (IF n - 1 < i THEN 0 ELSE t[i] - s[i])
        /\ f[n - 1] \in Int /\ g[n - 1] \in Int
    BY <1>1, <1>2, <1>3, <1>5
  <2>2. n # i => s[n] = t[n]
    BY <1>0
  <2>3. n \in Int /\ i \in Int /\ s[n] \in Int /\ t[n] \in Int
        /\ s[i] \in Int /\ t[i] \in Int
    BY <1>0, <1>3
  <2>4. CASE n < i
    BY <2>1, <2>2, <2>3, <2>4
  <2>5. CASE n = i
    BY <2>1, <2>3, <2>5
  <2>6. CASE n > i
    <3>1. s[n] = t[n] /\ g[n - 1] = f[n - 1] + (t[i] - s[i])
      BY <2>1, <2>2, <2>3, <2>6
    <3>2. g[n] = f[n] + (t[i] - s[i])
      <4>1. \A x, y, z \in Int : (x + z) + y = (x + y) + z
        OBVIOUS
      <4>2. t[i] - s[i] \in Int /\ f[n - 1] \in Int
        BY <2>1, <2>3
      <4>3. g[n] = (f[n - 1] + (t[i] - s[i])) + s[n]
        BY <2>1, <3>1
      <4>4. (f[n - 1] + (t[i] - s[i])) + s[n] = (f[n - 1] + s[n]) + (t[i] - s[i])
        BY <2>3, <4>1, <4>2
      <4>5. QED
        BY <2>1, <4>3, <4>4
    <3>3. QED
      BY <2>3, <2>6, <3>2
  <2>7. QED
    BY <1>3, <2>3, <2>4, <2>5, <2>6
<1>6. Len(s) \in T
  <2> HIDE DEF T
  <2>1. \A n \in 1..Len(s) : n - 1 \in T => n \in T
    BY <1>5
  <2>2. \A n \in 0..Len(s) : n \in T
    BY <1>3, <1>4, <2>1, CountedInduction
  <2>3. QED
    BY <1>3, <2>2
<1>7. g[Len(s)] = f[Len(s)] + (t[i] - s[i])
  <2>1. ~(Len(s) < i)
    BY <1>0, <1>3
  <2>2. QED
    BY <1>6, <2>1
<1>8. /\ f[Len(s)] \in Int /\ g[Len(s)] \in Int /\ s[i] \in Int /\ t[i] \in Int
  <2>1. Len(s) \in 0..Len(s) /\ Len(s) \in 0..Len(t)
    BY <1>3
  <2>2. QED
    BY <1>0, <1>1, <1>2, <1>3, <2>1
<1>9. SumOf(s) = f[Len(s)] /\ SumOf(t) = g[Len(s)]
  BY <1>1, <1>2, <1>3
<1>10. QED
  BY <1>7, <1>8, <1>9

(* What is left when the i-th element is removed. *)
LEMMA RemovedTerms ==
  ASSUME NEW S, NEW s \in Seq(S), NEW i \in 1..Len(s)
  PROVE  /\ RemoveAt(s, i) \in Seq(S)
         /\ Len(RemoveAt(s, i)) = Len(s) - 1
         /\ \A n \in 1..(Len(s) - 1) :
              RemoveAt(s, i)[n] = IF n < i THEN s[n] ELSE s[n + 1]
<1> DEFINE before == SubSeq(s, 1, i - 1)
<1> DEFINE after == SubSeq(s, i + 1, Len(s))
<1>1. Len(s) \in Nat /\ i \in Nat
  OBVIOUS
<1>2. /\ before \in Seq(S) /\ Len(before) = i - 1
      /\ \A n \in 1..(i - 1) : before[n] = s[n]
  BY <1>1
<1>3. /\ after \in Seq(S) /\ Len(after) = Len(s) - i
      /\ \A n \in 1..(Len(s) - i) : after[n] = s[n + i]
  BY <1>1
<1> HIDE DEF before, after
<1>4. /\ before \o after \in Seq(S)
      /\ Len(before \o after) = Len(before) + Len(after)
      /\ \A n \in 1..(Len(before) + Len(after)) : (before \o after)[n] =
           IF n <= Len(before) THEN before[n] ELSE after[n - Len(before)]
  BY <1>2, <1>3, ConcatProperties
<1>5. ASSUME NEW n \in 1..(Len(s) - 1)
      PROVE  (before \o after)[n] = IF n < i THEN s[n] ELSE s[n + 1]
  <2>1. Len(before) = i - 1 /\ n \in 1..(Len(before) + Len(after))
    BY <1>1, <1>2, <1>3
  <2>2. CASE n < i
    BY <1>1, <1>2, <1>4, <2>1, <2>2
  <2>3. CASE ~(n < i)
    <3>1. n - (i - 1) \in 1..(Len(s) - i) /\ (n - (i - 1)) + i = n + 1
      BY <1>1, <2>3
    <3>2. (before \o after)[n] = after[n - (i - 1)]
      BY <1>1, <1>4, <2>1, <2>3
    <3>3. QED
      BY <1>3, <2>3, <3>1, <3>2
  <2>4. QED
    BY <2>2, <2>3
<1>6. RemoveAt(s, i) = before \o after
  BY DEF RemoveAt, before, after
<1>7. Len(before \o after) = Len(s) - 1
  BY <1>1, <1>2, <1>3, <1>4
<1>8. QED
  BY <1>4, <1>5, <1>6, <1>7

(* Leaving one term out takes it from the sum. *)
LEMMA SumOfRemoved ==
  ASSUME NEW s, NEW i
  PROVE  s \in Seq(Int) /\ i \in 1..Len(s)
         => SumOf(RemoveAt(s, i)) = SumOf(s) - s[i]
<1>0. SUFFICES ASSUME s \in Seq(Int), i \in 1..Len(s)
               PROVE  SumOf(RemoveAt(s, i)) = SumOf(s) - s[i]
  BY <1>0
<1> DEFINE t == RemoveAt(s, i)
<1>1. /\ Len(s) \in Nat /\ Len(s) >= 1 /\ \A n \in 1..Len(s) : s[n] \in Int
      /\ i \in 1..Len(s)
  BY <1>0
<1>2. /\ t \in Seq(Int) /\ Len(t) = Len(s) - 1
      /\ \A n \in 1..(Len(s) - 1) : t[n] = IF n < i THEN s[n] ELSE s[n + 1]
  BY <1>0, RemovedTerms
<1> HIDE DEF t
<1>3. PICK f :
        /\ f \in [0..Len(s) -> Int] /\ f[0] = 0 /\ SumOf(s) = f[Len(s)]
        /\ \A n \in 1..Len(s) : f[n] = f[n - 1] + s[n]
  BY <1>0, SumOfSteps
<1>4. PICK g :
        /\ g \in [0..Len(t) -> Int] /\ g[0] = 0 /\ SumOf(t) = g[Len(t)]
        /\ \A n \in 1..Len(t) : g[n] = g[n - 1] + t[n]
  BY <1>2, SumOfSteps
<1> DEFINE T == {n \in 0..Len(t) :
                  g[n] = IF n < i THEN f[n] ELSE f[n + 1] - s[i]}
<1>5. 0 \in T
  BY <1>1, <1>2, <1>3, <1>4
<1>6. ASSUME NEW n \in 1..Len(t), n - 1 \in T
      PROVE  n \in T
  <2>1. /\ n \in 1..Len(s) /\ n + 1 \in 1..Len(s) /\ n \in 0..Len(t)
        /\ n - 1 \in 0..Len(t) /\ n - 1 \in 0..Len(s) /\ n \in 0..Len(s)
    <3>1. Len(t) = Len(s) - 1 /\ n \in 1..Len(t)
      BY <1>2
    <3>2. QED
      BY <1>1, <3>1
  <2>2. /\ f[n] = f[n - 1] + s[n] /\ f[n + 1] = f[n] + s[n + 1]
        /\ f[n - 1] \in Int /\ f[n] \in Int /\ s[n] \in Int /\ s[n + 1] \in Int
        /\ s[i] \in Int
    <3>1. (n + 1) - 1 = n
      OBVIOUS
    <3>2. QED
      BY <1>1, <1>3, <2>1, <3>1
  <2>3. /\ g[n] = g[n - 1] + t[n] /\ g[n - 1] \in Int
        /\ t[n] = IF n < i THEN s[n] ELSE s[n + 1]
    BY <1>2, <1>4, <2>1
  <2>4. g[n - 1] = IF n - 1 < i THEN f[n - 1] ELSE f[n] - s[i]
    BY <1>6, <2>1
  <2>5. g[n] = IF n < i THEN f[n] ELSE f[n + 1] - s[i]
    <3>0. n \in Int /\ i \in Int
      BY <1>1
    <3>1. CASE n < i
      BY <2>2, <2>3, <2>4, <3>0, <3>1
    <3>2. CASE n = i
      <4>1. g[n] = f[n - 1] + s[n + 1]
        BY <2>3, <2>4, <3>0, <3>2
      <4>2. f[n + 1] = (f[n - 1] + s[i]) + s[n + 1]
        BY <2>2, <3>2
      <4>3. \A x, y, z \in Int : x + z = ((x + y) + z) - y
        OBVIOUS
      <4>4. f[n - 1] + s[n + 1] = ((f[n - 1] + s[i]) + s[n + 1]) - s[i]
        BY <2>2, <4>3
      <4>5. g[n] = f[n + 1] - s[i]
        BY <4>1, <4>2, <4>4
      <4>6. QED
        BY <3>0, <3>2, <4>5
    <3>3. CASE n > i
      <4>1. g[n] = f[n] - s[i] + s[n + 1]
        BY <2>3, <2>4, <3>0, <3>3
      <4>2. \A x, y, z \in Int : (x - y) + z = (x + z) - y
        OBVIOUS
      <4>3. (f[n] - s[i]) + s[n + 1] = (f[n] + s[n + 1]) - s[i]
        BY <2>2, <4>2
      <4>4. g[n] = f[n + 1] - s[i]
        BY <2>2, <4>1, <4>3
      <4>5. QED
        BY <3>0, <3>3, <4>4
    <3>4. QED
      BY <3>0, <3>1, <3>2, <3>3
  <2>6. QED
    BY <2>1, <2>5
<1>7. Len(t) \in T
  <2> HIDE DEF T
  <2>1. \A n \in 1..Len(t) : n - 1 \in T => n \in T
    BY <1>6
  <2>2. Len(t) \in Nat
    BY <1>1, <1>2
  <2>3. \A n \in 0..Len(t) : n \in T
    BY <1>5, <2>1, <2>2, CountedInduction
  <2>4. QED
    BY <2>2, <2>3
<1>8. SumOf(t) = SumOf(s) - s[i]
  <2>1. g[Len(t)] = IF Len(t) < i THEN f[Len(t)] ELSE f[Len(t) + 1] - s[i]
    BY <1>7
  <2>2. /\ f[Len(s)] = f[Len(s) - 1] + s[Len(s)] /\ Len(t) = Len(s) - 1
        /\ f[Len(s) - 1] \in Int /\ s[Len(s)] \in Int
    <3>1. Len(s) \in 1..Len(s) /\ Len(s) - 1 \in 0..Len(s)
      BY <1>1
    <3>2. QED
      BY <1>1, <1>2, <1>3, <3>1
  <2>3. Len(t) < i => i = Len(s)
    BY <1>1, <2>2
  <2>4. Len(t) + 1 = Len(s)
    BY <1>1, <2>2
  <2>5. CASE Len(t) < i
    BY <1>3, <1>4, <2>1, <2>2, <2>3, <2>5
  <2>6. CASE ~(Len(t) < i)
    BY <1>3, <1>4, <2>1, <2>4, <2>6
  <2>7. QED
    BY <2>5, <2>6
<1>9. QED
  BY <1>8 DEF t

(* A common factor. *)
LEMMA SumOfScaled ==
  ASSUME NEW s, NEW t, NEW c \in Int
  PROVE  /\ s \in Seq(Int) /\ t \in Seq(Int) /\ Len(s) = Len(t)
         /\ \A i \in 1..Len(s) : t[i] = s[i] * c
         => SumOf(t) = SumOf(s) * c
<1>0. SUFFICES ASSUME s \in Seq(Int), t \in Seq(Int), Len(s) = Len(t),
                      \A i \in 1..Len(s) : t[i] = s[i] * c
               PROVE  SumOf(t) = SumOf(s) * c
  BY <1>0
<1>1. PICK f :
        /\ f \in [0..Len(s) -> Int] /\ f[0] = 0 /\ SumOf(s) = f[Len(s)]
        /\ \A n \in 1..Len(s) : f[n] = f[n - 1] + s[n]
  BY <1>0, SumOfSteps
<1>2. PICK g :
        /\ g \in [0..Len(t) -> Int] /\ g[0] = 0 /\ SumOf(t) = g[Len(t)]
        /\ \A n \in 1..Len(t) : g[n] = g[n - 1] + t[n]
  BY <1>0, SumOfSteps
<1>3. /\ Len(s) \in Nat /\ Len(t) = Len(s)
      /\ \A n \in 1..Len(s) : s[n] \in Int /\ t[n] \in Int
  BY <1>0
<1> DEFINE T == {n \in 0..Len(s) : g[n] = f[n] * c}
<1>4. 0 \in T
  BY <1>1, <1>2, <1>3
<1>5. ASSUME NEW n \in 1..Len(s), n - 1 \in T
      PROVE  n \in T
  <2>1. /\ f[n] = f[n - 1] + s[n] /\ g[n] = g[n - 1] + t[n]
        /\ g[n - 1] = f[n - 1] * c /\ t[n] = s[n] * c
        /\ f[n - 1] \in Int /\ s[n] \in Int
    BY <1>0, <1>1, <1>2, <1>3, <1>5
  <2>2. \A x, y \in Int : (x + y) * c = x * c + y * c
    OBVIOUS
  <2>3. g[n] = f[n] * c
    BY <2>1, <2>2
  <2>4. QED
    BY <1>3, <2>3
<1>6. Len(s) \in T
  <2> HIDE DEF T
  <2>1. \A n \in 1..Len(s) : n - 1 \in T => n \in T
    BY <1>5
  <2>2. \A n \in 0..Len(s) : n \in T
    BY <1>3, <1>4, <2>1, CountedInduction
  <2>3. QED
    BY <1>3, <2>2
<1>7. QED
  BY <1>1, <1>2, <1>3, <1>6

(* What holds within d of every term holds within d times their number of  *)
(* the sum.                                                                *)
LEMMA SumOfClose ==
  ASSUME NEW s, NEW t, NEW c \in Int, NEW d \in Nat
  PROVE  /\ s \in Seq(Int) /\ t \in Seq(Int) /\ Len(s) = Len(t)
         /\ \A i \in 1..Len(s) : 2 * Abs(c * s[i] - t[i]) <= d
         => 2 * Abs(c * SumOf(s) - SumOf(t)) <= d * Len(s)
<1>0. SUFFICES ASSUME s \in Seq(Int), t \in Seq(Int), Len(s) = Len(t),
                      \A i \in 1..Len(s) : 2 * Abs(c * s[i] - t[i]) <= d
               PROVE  2 * Abs(c * SumOf(s) - SumOf(t)) <= d * Len(s)
  BY <1>0
<1>1. PICK f :
        /\ f \in [0..Len(s) -> Int] /\ f[0] = 0 /\ SumOf(s) = f[Len(s)]
        /\ \A n \in 1..Len(s) : f[n] = f[n - 1] + s[n]
  BY <1>0, SumOfSteps
<1>2. PICK g :
        /\ g \in [0..Len(t) -> Int] /\ g[0] = 0 /\ SumOf(t) = g[Len(t)]
        /\ \A n \in 1..Len(t) : g[n] = g[n - 1] + t[n]
  BY <1>0, SumOfSteps
<1>3. /\ Len(s) \in Nat /\ Len(t) = Len(s)
      /\ \A n \in 1..Len(s) : s[n] \in Int /\ t[n] \in Int
  BY <1>0
<1> DEFINE T == {n \in 0..Len(s) : 2 * Abs(c * f[n] - g[n]) <= d * n}
<1>4. 0 \in T
  BY <1>1, <1>2, <1>3 DEF Abs
<1>5. ASSUME NEW n \in 1..Len(s), n - 1 \in T
      PROVE  n \in T
  <2>1. /\ f[n] = f[n - 1] + s[n] /\ g[n] = g[n - 1] + t[n]
        /\ 2 * Abs(c * f[n - 1] - g[n - 1]) <= d * (n - 1)
        /\ 2 * Abs(c * s[n] - t[n]) <= d
        /\ f[n - 1] \in Int /\ g[n - 1] \in Int /\ s[n] \in Int /\ t[n] \in Int
    BY <1>0, <1>1, <1>2, <1>3, <1>5
  <2>2. \A x, y \in Int : c * (x + y) = c * x + c * y
    OBVIOUS
  <2>3. d * (n - 1) + d = d * n
    BY <1>3
  <2>4. \A x, y, p, q, u, v \in Int :
          2 * Abs(x - y) <= u /\ 2 * Abs(p - q) <= v
            => 2 * Abs((x + p) - (y + q)) <= u + v
    BY DEF Abs
  <2>5. /\ c * f[n - 1] \in Int /\ c * s[n] \in Int /\ d * (n - 1) \in Int
        /\ c * f[n] = c * f[n - 1] + c * s[n]
    <3>1. \A x, y \in Int : x * y \in Int
      OBVIOUS
    <3>2. n - 1 \in Int /\ f[n - 1] \in Int /\ s[n] \in Int /\ f[n] = f[n - 1] + s[n]
      BY <1>3, <2>1
    <3>3. c * (f[n - 1] + s[n]) = c * f[n - 1] + c * s[n]
      BY <2>2, <3>2
    <3>4. c * f[n - 1] \in Int /\ c * s[n] \in Int /\ d * (n - 1) \in Int
      BY <3>1, <3>2
    <3>5. QED
      BY <3>2, <3>3, <3>4
  <2>6. 2 * Abs(c * f[n] - g[n]) <= d * n
    <3> DEFINE x == c * f[n - 1]
    <3> DEFINE p == c * s[n]
    <3> DEFINE u == d * (n - 1)
    <3> HIDE DEF x, p, u
    <3>1. x \in Int /\ p \in Int /\ u \in Int
      BY <2>5 DEF x, p, u
    <3>2. 2 * Abs(x - g[n - 1]) <= u /\ 2 * Abs(p - t[n]) <= d
      BY <2>1 DEF x, p, u
    <3>3. 2 * Abs((x + p) - (g[n - 1] + t[n])) <= u + d
      <4>1. g[n - 1] \in Int /\ t[n] \in Int /\ d \in Int
        BY <2>1
      <4>2. QED
        BY <2>4, <3>1, <3>2, <4>1
    <3>4. c * f[n] = x + p /\ u + d = d * n
      BY <2>3, <2>5 DEF x, p, u
    <3>5. QED
      BY <2>1, <3>3, <3>4
  <2>7. QED
    BY <1>3, <2>6
<1>6. Len(s) \in T
  <2> HIDE DEF T
  <2>1. \A n \in 1..Len(s) : n - 1 \in T => n \in T
    BY <1>5
  <2>2. \A n \in 0..Len(s) : n \in T
    BY <1>3, <1>4, <2>1, CountedInduction
  <2>3. QED
    BY <1>3, <2>2
<1>7. QED
  BY <1>1, <1>2, <1>3, <1>6

-----------------------------------------------------------------------------
(* What is kept of a sequence are elements of it that are not excluded. *)
LEMMA KeptElements ==
  ASSUME NEW s, NEW excluded, s \in Seq(Range(s))
  PROVE  FirstOccurrences(s, excluded) \in Seq(Range(s) \ excluded)
<1> DEFINE S == Range(s) \ excluded
<1> DEFINE len == Len(s)
<1> DEFINE With(before, n) ==
             IF s[n] \in excluded \/ s[n] \in Range(before)
             THEN before ELSE Append(before, s[n])
<1> DEFINE step == [n \in 1..len |-> [before \in Seq(S) |-> With(before, n)]]
<1> DEFINE Is(f) == f = [n \in 0..len |-> IF n = 0 THEN <<>> ELSE With(f[n - 1], n)]
<1>1. len \in Nat /\ \A n \in 1..len : s[n] \in Range(s)
  BY DEF Range
<1>2. ASSUME NEW n \in 1..len, NEW before \in Seq(S)
      PROVE  With(before, n) \in Seq(S)
  <2>1. s[n] \notin excluded => s[n] \in S
    BY <1>1
  <2> HIDE DEF S
  <2>2. QED
    BY <2>1
<1> HIDE DEF With, len
<1>3. step \in [1..len -> [Seq(S) -> Seq(S)]]
  BY <1>2
<1>4. \A n \in 1..len, before \in Seq(S) : step[n][before] = With(before, n)
  OBVIOUS
<1>5. <<>> \in Seq(S)
  OBVIOUS
<1> HIDE DEF step, S
<1>6. PICK f : f \in [0..len -> Seq(S)] /\ IsRecursion(f, len, <<>>, step)
  BY <1>1, <1>3, <1>5, RecursionExists
<1>7. Is(f)
  <2>1. ASSUME NEW n \in 1..len
        PROVE  f[n] = With(f[n - 1], n)
    <3>1. f[n - 1] \in Seq(S)
      BY <1>1, <1>6
    <3>2. QED
      BY <1>4, <1>6, <3>1 DEF IsRecursion
  <2>2. QED
    BY <1>1, <1>6, <2>1 DEF IsRecursion
<1> DEFINE kept == CHOOSE g : Is(g)
<1>8. Is(kept)
  BY <1>7
<1>9. FirstOccurrences(s, excluded) = kept[len]
  BY DEF FirstOccurrences, With, len
<1> HIDE DEF kept
<1>10. \A n \in 0..len : kept[n] \in Seq(S)
  <2> DEFINE T == {n \in 0..len : kept[n] \in Seq(S)}
  <2>1. 0 \in T
    BY <1>1, <1>5, <1>8
  <2>2. ASSUME NEW n \in 1..len, n - 1 \in T
        PROVE  n \in T
    <3>1. n \in 0..len /\ n # 0
      BY <1>1
    <3>2. kept[n] = With(kept[n - 1], n)
      BY <1>8, <3>1
    <3>3. QED
      BY <1>2, <2>2, <3>1, <3>2
  <2> HIDE DEF T
  <2>3. \A n \in 1..len : n - 1 \in T => n \in T
    BY <2>2
  <2>4. \A n \in 0..len : n \in T
    BY <1>1, <2>1, <2>3, CountedInduction
  <2>5. QED
    BY <2>4 DEF T
<1>11. QED
  BY <1>1, <1>9, <1>10 DEF S

(* All of what some sequences over S hold is a sequence over S. *)
LEMMA FlattenedElements ==
  ASSUME NEW S, NEW seqs \in Seq(Seq(S))
  PROVE  FlattenSeq(seqs) \in Seq(S)
<1> DEFINE len == Len(seqs)
<1> DEFINE step == [n \in 1..len |-> [before \in Seq(S) |-> before \o seqs[n]]]
<1> DEFINE Is(f) ==
      f = [n \in 1..len |-> IF n = 1 THEN seqs[n] ELSE f[n - 1] \o seqs[n]]
<1>1. len \in Nat /\ \A n \in 1..len : seqs[n] \in Seq(S)
  OBVIOUS
<1>2. CASE len = 0
  <2>1. seqs = <<>>
    BY <1>2
  <2>2. FlattenSeq(seqs) = seqs
    BY <1>2 DEF FlattenSeq
  <2>3. <<>> \in Seq(S)
    OBVIOUS
  <2>4. QED
    BY <2>1, <2>2, <2>3, Zenon
<1>3. CASE len # 0
  <2> HIDE DEF len
  <2>1. step \in [1..len -> [Seq(S) -> Seq(S)]]
    BY <1>1
  <2>2. \A n \in 1..len, before \in Seq(S) : step[n][before] = before \o seqs[n]
    OBVIOUS
  <2>3. <<>> \in Seq(S)
    OBVIOUS
  <2> HIDE DEF step
  <2>4. PICK f : f \in [0..len -> Seq(S)] /\ IsRecursion(f, len, <<>>, step)
    BY <1>1, <2>1, <2>3, RecursionExists
  <2> DEFINE g == [n \in 1..len |-> f[n]]
  <2>5. Is(g)
    <3>1. ASSUME NEW n \in 1..len
          PROVE  g[n] = IF n = 1 THEN seqs[n] ELSE g[n - 1] \o seqs[n]
      <4>1. f[n - 1] \in Seq(S) /\ seqs[n] \in Seq(S)
        BY <1>1, <2>4
      <4>2. f[n] = f[n - 1] \o seqs[n]
        BY <2>2, <2>4, <4>1 DEF IsRecursion
      <4>3. f[0] = <<>>
        BY <2>4 DEF IsRecursion
      <4>4. CASE n = 1
        <5>1. \A q \in Seq(S) : <<>> \o q = q
          OBVIOUS
        <5>2. n - 1 = 0
          BY <4>4
        <5>3. f[n] = <<>> \o seqs[n]
          BY <4>2, <4>3, <5>2, Zenon
        <5>4. f[n] = seqs[n]
          BY <4>1, <5>1, <5>3
        <5>5. QED
          BY <4>4, <5>4
      <4>5. CASE n # 1
        <5>1. n - 1 \in 1..len
          BY <1>1, <4>5
        <5>2. QED
          BY <4>2, <4>5, <5>1
      <4>6. QED
        BY <4>4, <4>5
    <3>2. QED
      BY <3>1
  <2> DEFINE flatten == CHOOSE h : Is(h)
  <2>6. Is(flatten)
    BY <2>5
  <2>7. FlattenSeq(seqs) = flatten[len]
    BY <1>3 DEF FlattenSeq, len
  <2> HIDE DEF flatten
  <2> DEFINE T == {0} \cup {n \in 1..len : flatten[n] \in Seq(S)}
  <2>8. ASSUME NEW n \in 1..len, n - 1 \in T
        PROVE  n \in T
    <3>1. flatten[n] = IF n = 1 THEN seqs[n] ELSE flatten[n - 1] \o seqs[n]
      BY <2>6
    <3>2. CASE n = 1
      BY <1>1, <3>1, <3>2
    <3>3. CASE n # 1
      <4>1. flatten[n - 1] \in Seq(S) /\ seqs[n] \in Seq(S)
        BY <1>1, <2>8, <3>3
      <4>2. flatten[n - 1] \o seqs[n] \in Seq(S)
        BY <4>1, ConcatProperties
      <4>3. QED
        BY <3>1, <3>3, <4>2
    <3>4. QED
      BY <3>2, <3>3
  <2>9. 0 \in T
    OBVIOUS
  <2> HIDE DEF T
  <2>10. \A n \in 1..len : n - 1 \in T => n \in T
    BY <2>8
  <2>11. \A n \in 0..len : n \in T
    BY <1>1, <2>9, <2>10, CountedInduction
  <2>12. len \in T
    BY <1>1, <2>11
  <2>13. QED
    BY <1>1, <1>3, <2>7, <2>12 DEF T
<1>4. QED
  BY <1>2, <1>3

-----------------------------------------------------------------------------
(* Texts: a reduction of one is not empty and shorter than it. *)
ShorterThan(C, s) == {t \in Seq(C) : t # <<>> /\ Len(t) < Len(s)}

(* The reduced values of a text are shorter.                               *)
LEMMA TextsGetShorter ==
  ASSUME NEW C, MinimalCharacter \in C, NEW s \in Seq(C)
  PROVE  TextReductions(s) \in Seq(ShorterThan(C, s))
<1>1. CASE Len(s) <= 1
  <2>1. TextReductions(s) = <<>>
    BY <1>1 DEF TextReductions
  <2>2. QED
    BY <2>1
<1>2. CASE ~(Len(s) <= 1)
  <2> DEFINE n == Len(s)
  <2> DEFINE half == SubSeq(s, 1, (n + 1) \div 2)
  <2> DEFINE rest == SubSeq(s, (n \div 2) + 1, n)
  <2> DEFINE front == SubSeq(s, 1, n - 1)
  <2> DEFINE back == Tail(s)
  <2> DEFINE minimal == <<MinimalCharacter>>
  <2> DEFINE texts == <<half, rest, front, back, minimal>>
  <2>1. n \in Nat /\ n >= 2
    BY <1>2
  <2>2. /\ (n + 1) \div 2 \in 1..(n - 1) /\ n \div 2 \in 1..(n - 1)
    BY <2>1
  <2>3. half \in Seq(C) /\ Len(half) < n
    BY <2>1, <2>2
  <2>4. rest \in Seq(C) /\ Len(rest) < n
    BY <2>1, <2>2
  <2>5. front \in Seq(C) /\ Len(front) < n
    BY <2>1
  <2>6. back \in Seq(C) /\ Len(back) < n
    BY <2>1
  <2>7. minimal \in Seq(C) /\ Len(minimal) < n
    BY <2>1
  <2>8. TextReductions(s) = FirstOccurrences(texts, {s, <<>>})
    BY <1>2 DEF TextReductions, ShorterTexts
  <2> HIDE DEF n, half, rest, front, back, minimal
  <2>9. /\ DOMAIN texts = 1..5 /\ texts \in Seq(Range(texts))
        /\ texts[1] = half /\ texts[2] = rest /\ texts[3] = front
        /\ texts[4] = back /\ texts[5] = minimal
    BY DEF Range
  <2> HIDE DEF texts
  <2>10. \A t \in Range(texts) : t \in {half, rest, front, back, minimal}
    BY <2>9 DEF Range
  <2>11. Range(texts) \ {s, <<>>} \subseteq ShorterThan(C, s)
    BY <2>3, <2>4, <2>5, <2>6, <2>7, <2>10 DEF ShorterThan, n
  <2>12. TextReductions(s) \in Seq(Range(texts) \ {s, <<>>})
    BY <2>8, <2>9, KeptElements
  <2> HIDE DEF n
  <2>13. QED
    BY <2>11, <2>12, SeqWithin
<1>3. QED
  BY <1>1, <1>2

(* Amounts: a reduction of one has fewer places that could be rounded off. *)
LEMMA AmountsGetRounder ==
  ASSUME NEW n \in Int
  PROVE  /\ Rank(n) \in Nat
         /\ AmountReductions(n) \in Seq({m \in Int : Rank(m) < Rank(n)})
<1> DEFINE rounded == HalfEven(n, 10)
<1> DEFINE S == {m \in Int : Rank(m) < Rank(n)}
<1>1. /\ rounded \in Int /\ HalfEven(rounded, 10) = rounded
  <2>1. PICK k \in Int : rounded = 10 * k
    BY DEF HalfEven
  <2>2. (10 * k) \div 10 = k /\ (10 * k) % 10 = 0
    BY <2>1
  <2>3. HalfEven(10 * k, 10) = 10 * k
    BY <2>1, <2>2 DEF HalfEven
  <2>4. QED
    BY <2>1, <2>3
<1> HIDE DEF rounded
<1>2. Rank(n) \in Nat
  BY DEF Rank
<1>3. SetOne(n) \in Seq(S)
  <2>1. n # Unit => Unit \in S
    BY DEF Rank, Unit
  <2> HIDE DEF S
  <2>2. QED
    BY <2>1 DEF SetOne
<1>4. RoundTwo(n) \in Seq(S)
  <2>1. HalfEven(Unit, 10) = Unit
    BY DEF HalfEven, Unit
  <2>2. ASSUME n # rounded
        PROVE  rounded \in S
    <3>1. n # Unit
      BY <2>1, <2>2 DEF rounded
    <3>2. Rank(n) = 2
      BY <2>2, <3>1 DEF Rank, rounded
    <3>3. Rank(rounded) \in {0, 1}
      BY <1>1 DEF Rank
    <3>4. QED
      BY <1>1, <3>2, <3>3
  <2> HIDE DEF S
  <2>3. RoundTwo(n) = IF n = rounded THEN <<>> ELSE <<rounded>>
    BY DEF RoundTwo, rounded
  <2>4. QED
    BY <2>2, <2>3
<1> HIDE DEF S
<1>5. AmountReductions(n) \in Seq(S)
  BY <1>3, <1>4 DEF AmountReductions
<1>6. QED
  BY <1>2, <1>5 DEF S

-----------------------------------------------------------------------------
(* Lines. *)
SmallerLines(C, line) == {l \in LinesOver(C) : LineSize(l) < LineSize(line)}

(* The size of a line is a natural number; its parts are. *)
LEMMA LineSizes ==
  ASSUME NEW C, NEW line \in LinesOver(C)
  PROVE  /\ LineSize(line) \in Nat
         /\ Rank(line.quantity) \in Nat /\ Rank(line.price) \in Nat
         /\ Cardinality(line.extras) \in Nat /\ IsFiniteSet(line.extras)
         /\ LineSize(line) > 0
<1>1. /\ line.quantity \in Int /\ line.price \in Int
      /\ line.extras \in SUBSET Extras
      /\ line.identifier \in Seq(C) /\ line.name \in Seq(C)
      /\ line.note \in Seq(C) /\ line.description \in Seq(C)
  BY DEF LinesOver
<1>2. IsFiniteSet(Extras)
  <2>1. Extras = (({"period"} \cup {"orderLineReference"}) \cup {"sellerItem"})
                 \cup {"classification"}
    BY DEF Extras
  <2>2. QED
    BY <2>1, FS_Singleton, FS_Union
<1>3. Cardinality(line.extras) \in Nat /\ IsFiniteSet(line.extras)
  BY <1>1, <1>2, FS_Subset, FS_CardinalityType
<1>4. Rank(line.quantity) \in Nat /\ Rank(line.price) \in Nat
  BY <1>1, AmountsGetRounder
<1>5. /\ Len(line.identifier) \in Nat /\ Len(line.name) \in Nat
      /\ Len(line.note) \in Nat /\ Len(line.description) \in Nat
  BY <1>1
<1>6. LineSize(line) \in Nat /\ LineSize(line) > 0
  <2> DEFINE Positive == Nat \ {0}
  <2>1. \A a \in Positive, b \in Nat : a + b \in Positive
    OBVIOUS
  <2>2. 1 \in Positive
    OBVIOUS
  <2> HIDE DEF Positive
  <2>3. LineSize(line) \in Positive
    BY <1>3, <1>4, <1>5, <2>1, <2>2, Zenon DEF LineSize
  <2>4. QED
    BY <2>3 DEF Positive
<1>7. QED
  BY <1>3, <1>4, <1>6

(* A line is smaller than another one when no part of it is larger, and    *)
(* one is smaller.                                                         *)
LEMMA LineWithSmallerPart ==
  ASSUME NEW C, NEW line \in LinesOver(C), NEW new \in LinesOver(C),
         /\ Rank(new.quantity) <= Rank(line.quantity)
         /\ Rank(new.price) <= Rank(line.price)
         /\ Cardinality(new.extras) <= Cardinality(line.extras)
         /\ Len(new.identifier) <= Len(line.identifier)
         /\ Len(new.name) <= Len(line.name)
         /\ Len(new.note) <= Len(line.note)
         /\ Len(new.description) <= Len(line.description),
         \/ Rank(new.quantity) < Rank(line.quantity)
         \/ Rank(new.price) < Rank(line.price)
         \/ Cardinality(new.extras) < Cardinality(line.extras)
         \/ Len(new.identifier) < Len(line.identifier)
         \/ Len(new.name) < Len(line.name)
         \/ Len(new.note) < Len(line.note)
         \/ Len(new.description) < Len(line.description)
  PROVE  new \in SmallerLines(C, line)
<1>1. ASSUME NEW l \in LinesOver(C)
      PROVE  /\ Len(l.identifier) \in Nat /\ Len(l.name) \in Nat
             /\ Len(l.note) \in Nat /\ Len(l.description) \in Nat
  <2>1. /\ l.identifier \in Seq(C) /\ l.name \in Seq(C)
        /\ l.note \in Seq(C) /\ l.description \in Seq(C)
    BY DEF LinesOver
  <2>2. \A q \in Seq(C) : Len(q) \in Nat
    OBVIOUS
  <2>3. QED
    BY <2>1, <2>2, Zenon
<1> DEFINE a == Rank(line.quantity)
<1> DEFINE aa == Rank(new.quantity)
<1> DEFINE b == Rank(line.price)
<1> DEFINE bb == Rank(new.price)
<1> DEFINE c == Cardinality(line.extras)
<1> DEFINE cc == Cardinality(new.extras)
<1> DEFINE d == Len(line.identifier)
<1> DEFINE dd == Len(new.identifier)
<1> DEFINE e == Len(line.name)
<1> DEFINE ee == Len(new.name)
<1> DEFINE f == Len(line.note)
<1> DEFINE ff == Len(new.note)
<1> DEFINE g == Len(line.description)
<1> DEFINE gg == Len(new.description)
<1>2. /\ a \in Nat /\ aa \in Nat /\ b \in Nat /\ bb \in Nat /\ c \in Nat /\ cc \in Nat
      /\ d \in Nat /\ dd \in Nat /\ e \in Nat /\ ee \in Nat /\ f \in Nat /\ ff \in Nat
      /\ g \in Nat /\ gg \in Nat
  BY <1>1, LineSizes
<1>3. /\ LineSize(line) = 1 + a + b + c + d + e + f + g
      /\ LineSize(new) = 1 + aa + bb + cc + dd + ee + ff + gg
  BY DEF LineSize
<1>4. /\ aa <= a /\ bb <= b /\ cc <= c /\ dd <= d /\ ee <= e /\ ff <= f /\ gg <= g
      /\ aa < a \/ bb < b \/ cc < c \/ dd < d \/ ee < e \/ ff < f \/ gg < g
  OBVIOUS
<1> HIDE DEF a, aa, b, bb, c, cc, d, dd, e, ee, f, ff, g, gg
<1>5. LineSize(new) < LineSize(line)
  BY <1>2, <1>3, <1>4
<1>6. QED
  BY <1>5 DEF SmallerLines

(* A shorter text makes a line smaller. *)
LEMMA LineWithText ==
  ASSUME NEW C, NEW line \in LinesOver(C), NEW m \in LineTexts,
         NEW t \in Seq(C), Len(t) < Len(line[m])
  PROVE  [line EXCEPT ![m] = t] \in SmallerLines(C, line)
<1> DEFINE new == [line EXCEPT ![m] = t]
<1>1. /\ new \in LinesOver(C)
      /\ new.quantity = line.quantity /\ new.price = line.price
      /\ new.extras = line.extras
      /\ new.identifier = IF m = "identifier" THEN t ELSE line.identifier
      /\ new.name = IF m = "name" THEN t ELSE line.name
      /\ new.note = IF m = "note" THEN t ELSE line.note
      /\ new.description = IF m = "description" THEN t ELSE line.description
  BY DEF LinesOver, LineTexts
<1> HIDE DEF new
<1>2. /\ Rank(line.quantity) \in Nat /\ Rank(line.price) \in Nat
      /\ Cardinality(line.extras) \in Nat
      /\ Len(line.identifier) \in Nat /\ Len(line.name) \in Nat
      /\ Len(line.note) \in Nat /\ Len(line.description) \in Nat /\ Len(t) \in Nat
  <2>1. /\ Len(line.identifier) \in Nat /\ Len(line.name) \in Nat
        /\ Len(line.note) \in Nat /\ Len(line.description) \in Nat /\ Len(t) \in Nat
    BY DEF LinesOver
  <2>2. QED
    BY <2>1, LineSizes
<1>3. m \in {"identifier", "name", "note", "description"}
  BY DEF LineTexts
<1>4. /\ Rank(new.quantity) <= Rank(line.quantity)
      /\ Rank(new.price) <= Rank(line.price)
      /\ Cardinality(new.extras) <= Cardinality(line.extras)
      /\ Len(new.identifier) <= Len(line.identifier)
      /\ Len(new.name) <= Len(line.name)
      /\ Len(new.note) <= Len(line.note)
      /\ Len(new.description) <= Len(line.description)
  BY <1>1, <1>2, <1>3
<1>5. \/ Rank(new.quantity) < Rank(line.quantity)
      \/ Rank(new.price) < Rank(line.price)
      \/ Cardinality(new.extras) < Cardinality(line.extras)
      \/ Len(new.identifier) < Len(line.identifier)
      \/ Len(new.name) < Len(line.name)
      \/ Len(new.note) < Len(line.note)
      \/ Len(new.description) < Len(line.description)
  <2>1. CASE m = "identifier"
    BY <1>1, <2>1
  <2>2. CASE m = "name"
    BY <1>1, <2>2
  <2>3. CASE m = "note"
    BY <1>1, <2>3
  <2>4. CASE m = "description"
    BY <1>1, <2>4
  <2>5. QED
    BY <1>3, <2>1, <2>2, <2>3, <2>4
<1>6. new \in SmallerLines(C, line)
  BY <1>1, <1>4, <1>5, LineWithSmallerPart
<1>7. QED
  BY <1>6 DEF new

(* An optional member less, or a rounder amount, makes a line smaller. *)
LEMMA LineWithout ==
  ASSUME NEW C, NEW line \in LinesOver(C), NEW x \in line.extras
  PROVE  [line EXCEPT !.extras = @ \ {x}] \in SmallerLines(C, line)
<1> DEFINE new == [line EXCEPT !.extras = @ \ {x}]
<1>1. /\ new \in LinesOver(C)
      /\ new.quantity = line.quantity /\ new.price = line.price
      /\ new.extras = line.extras \ {x}
      /\ new.identifier = line.identifier /\ new.name = line.name
      /\ new.note = line.note /\ new.description = line.description
  BY DEF LinesOver
<1> HIDE DEF new
<1>2. /\ Rank(line.quantity) \in Nat /\ Rank(line.price) \in Nat
      /\ Cardinality(line.extras) \in Nat /\ IsFiniteSet(line.extras)
  BY LineSizes
<1>3. Cardinality(line.extras \ {x}) = Cardinality(line.extras) - 1
  BY <1>2, FS_RemoveElement
<1>4. /\ Len(line.identifier) \in Nat /\ Len(line.name) \in Nat
      /\ Len(line.note) \in Nat /\ Len(line.description) \in Nat
  BY DEF LinesOver
<1>5. /\ Rank(new.quantity) <= Rank(line.quantity)
      /\ Rank(new.price) <= Rank(line.price)
      /\ Cardinality(new.extras) <= Cardinality(line.extras)
      /\ Len(new.identifier) <= Len(line.identifier)
      /\ Len(new.name) <= Len(line.name)
      /\ Len(new.note) <= Len(line.note)
      /\ Len(new.description) <= Len(line.description)
  BY <1>1, <1>2, <1>3, <1>4
<1>6. \/ Rank(new.quantity) < Rank(line.quantity)
      \/ Rank(new.price) < Rank(line.price)
      \/ Cardinality(new.extras) < Cardinality(line.extras)
      \/ Len(new.identifier) < Len(line.identifier)
      \/ Len(new.name) < Len(line.name)
      \/ Len(new.note) < Len(line.note)
      \/ Len(new.description) < Len(line.description)
  BY <1>1, <1>2, <1>3
<1>7. new \in SmallerLines(C, line)
  BY <1>1, <1>5, <1>6, LineWithSmallerPart
<1>8. QED
  BY <1>7 DEF new

(* A rounder quantity makes a line smaller.                                *)
LEMMA LineWithQuantity ==
  ASSUME NEW C, NEW line \in LinesOver(C), NEW n \in Int,
         Rank(n) < Rank(line.quantity)
  PROVE  [line EXCEPT !.quantity = n] \in SmallerLines(C, line)
<1> DEFINE new == [line EXCEPT !.quantity = n]
<1>1. /\ new \in LinesOver(C)
      /\ new.quantity = n /\ new.price = line.price /\ new.extras = line.extras
      /\ new.identifier = line.identifier /\ new.name = line.name
      /\ new.note = line.note /\ new.description = line.description
  BY DEF LinesOver
<1> HIDE DEF new
<1>2. /\ Rank(line.quantity) \in Nat /\ Rank(line.price) \in Nat /\ Rank(n) \in Nat
      /\ Cardinality(line.extras) \in Nat
  BY LineSizes, AmountsGetRounder
<1>3. /\ Len(line.identifier) \in Nat /\ Len(line.name) \in Nat
      /\ Len(line.note) \in Nat /\ Len(line.description) \in Nat
  BY DEF LinesOver
<1>4. /\ Rank(new.quantity) <= Rank(line.quantity)
      /\ Rank(new.price) <= Rank(line.price)
      /\ Cardinality(new.extras) <= Cardinality(line.extras)
      /\ Len(new.identifier) <= Len(line.identifier)
      /\ Len(new.name) <= Len(line.name)
      /\ Len(new.note) <= Len(line.note)
      /\ Len(new.description) <= Len(line.description)
  BY <1>1, <1>2, <1>3
<1>5. \/ Rank(new.quantity) < Rank(line.quantity)
      \/ Rank(new.price) < Rank(line.price)
      \/ Cardinality(new.extras) < Cardinality(line.extras)
      \/ Len(new.identifier) < Len(line.identifier)
      \/ Len(new.name) < Len(line.name)
      \/ Len(new.note) < Len(line.note)
      \/ Len(new.description) < Len(line.description)
  BY <1>1, <1>2
<1>6. new \in SmallerLines(C, line)
  BY <1>1, <1>4, <1>5, LineWithSmallerPart
<1>7. QED
  BY <1>6 DEF new

(* A rounder price makes a line smaller.                                   *)
LEMMA LineWithPrice ==
  ASSUME NEW C, NEW line \in LinesOver(C), NEW n \in Int,
         Rank(n) < Rank(line.price)
  PROVE  [line EXCEPT !.price = n] \in SmallerLines(C, line)
<1> DEFINE new == [line EXCEPT !.price = n]
<1>1. /\ new \in LinesOver(C)
      /\ new.quantity = line.quantity /\ new.price = n /\ new.extras = line.extras
      /\ new.identifier = line.identifier /\ new.name = line.name
      /\ new.note = line.note /\ new.description = line.description
  BY DEF LinesOver
<1> HIDE DEF new
<1>2. /\ Rank(line.quantity) \in Nat /\ Rank(line.price) \in Nat /\ Rank(n) \in Nat
      /\ Cardinality(line.extras) \in Nat
  BY LineSizes, AmountsGetRounder
<1>3. /\ Len(line.identifier) \in Nat /\ Len(line.name) \in Nat
      /\ Len(line.note) \in Nat /\ Len(line.description) \in Nat
  BY DEF LinesOver
<1>4. /\ Rank(new.quantity) <= Rank(line.quantity)
      /\ Rank(new.price) <= Rank(line.price)
      /\ Cardinality(new.extras) <= Cardinality(line.extras)
      /\ Len(new.identifier) <= Len(line.identifier)
      /\ Len(new.name) <= Len(line.name)
      /\ Len(new.note) <= Len(line.note)
      /\ Len(new.description) <= Len(line.description)
  BY <1>1, <1>2, <1>3
<1>5. \/ Rank(new.quantity) < Rank(line.quantity)
      \/ Rank(new.price) < Rank(line.price)
      \/ Cardinality(new.extras) < Cardinality(line.extras)
      \/ Len(new.identifier) < Len(line.identifier)
      \/ Len(new.name) < Len(line.name)
      \/ Len(new.note) < Len(line.note)
      \/ Len(new.description) < Len(line.description)
  BY <1>1, <1>2
<1>6. new \in SmallerLines(C, line)
  BY <1>1, <1>4, <1>5, LineWithSmallerPart
<1>7. QED
  BY <1>6 DEF new

(* Every declared operation on a line makes it smaller. *)
LEMMA LinesGetSmaller ==
  ASSUME NEW C, MinimalCharacter \in C, NEW line \in LinesOver(C)
  PROVE  LineReductions(line) \in Seq(SmallerLines(C, line))
<1> DEFINE S == SmallerLines(C, line)
<1> DEFINE texts == <<"identifier", "name", "note", "description">>
<1> DEFINE options == <<"note", "description">>
<1> DEFINE members == <<"orderLineReference", "sellerItem", "period", "classification">>
<1> DEFINE Removed(m) == RemoveMember(line, m)
<1> DEFINE Dropped(x) == IF x \in line.extras
                          THEN <<[line EXCEPT !.extras = @ \ {x}]>> ELSE <<>>
<1> DEFINE Reduced(m) == ReduceMember(line, m)
<1> DEFINE removed == FlattenSeq([i \in DOMAIN options |-> Removed(options[i])])
<1> DEFINE dropped == FlattenSeq([i \in DOMAIN members |-> Dropped(members[i])])
<1> DEFINE reduced == FlattenSeq([i \in DOMAIN texts |-> Reduced(texts[i])])
<1> DEFINE quantities == [i \in DOMAIN AmountReductions(line.quantity) |->
               [line EXCEPT !.quantity = AmountReductions(line.quantity)[i]]]
<1> DEFINE prices == [i \in DOMAIN AmountReductions(line.price) |->
               [line EXCEPT !.price = AmountReductions(line.price)[i]]]
<1>1. LineReductions(line) = removed \o dropped \o reduced \o quantities \o prices
  BY DEF LineReductions, AllOf, Each
<1>2. /\ line.quantity \in Int /\ line.price \in Int
      /\ \A m \in LineTexts : line[m] \in Seq(C)
  BY DEF LinesOver, LineTexts
<1> HIDE DEF S
<1>3. removed \in Seq(S)
  <2>1. ASSUME NEW m \in {"note", "description"}
        PROVE  Removed(m) \in Seq(S)
    <3>1. m \in LineTexts /\ line[m] \in Seq(C) /\ Absent \in Seq(C)
      BY <1>2 DEF LineTexts, Absent
    <3>2. line[m] # Absent => Len(Absent) < Len(line[m])
      BY <3>1 DEF Absent
    <3>3. line[m] # Absent => [line EXCEPT ![m] = Absent] \in S
      BY <3>1, <3>2, LineWithText DEF S
    <3>4. QED
      BY <3>3 DEF RemoveMember
  <2> HIDE DEF Removed
  <2>2. [i \in DOMAIN options |-> Removed(options[i])] \in Seq(Seq(S))
    BY <2>1
  <2>3. QED
    BY <2>2, FlattenedElements
<1>4. dropped \in Seq(S)
  <2>1. \A x : Dropped(x) \in Seq(S)
    BY LineWithout DEF S
  <2> HIDE DEF Dropped
  <2>2. [i \in DOMAIN members |-> Dropped(members[i])] \in Seq(Seq(S))
    BY <2>1
  <2>3. QED
    BY <2>2, FlattenedElements
<1>5. reduced \in Seq(S)
  <2>1. ASSUME NEW m \in LineTexts
        PROVE  Reduced(m) \in Seq(S)
    <3>1. TextReductions(line[m]) \in Seq(ShorterThan(C, line[m]))
      BY <1>2, TextsGetShorter
    <3>2. \A t \in ShorterThan(C, line[m]) : [line EXCEPT ![m] = t] \in S
      BY LineWithText DEF ShorterThan, S
    <3>3. QED
      BY <3>1, <3>2 DEF ReduceMember, Each
  <2>2. \A i \in DOMAIN texts : texts[i] \in LineTexts
    BY DEF LineTexts
  <2> HIDE DEF Reduced
  <2>3. [i \in DOMAIN texts |-> Reduced(texts[i])] \in Seq(Seq(S))
    BY <2>1, <2>2
  <2>4. QED
    BY <2>3, FlattenedElements
<1>6. quantities \in Seq(S)
  <2> DEFINE amounts == AmountReductions(line.quantity)
  <2>1. amounts \in Seq({m \in Int : Rank(m) < Rank(line.quantity)})
    BY <1>2, AmountsGetRounder
  <2> HIDE DEF amounts
  <2>2. \A i \in DOMAIN amounts : [line EXCEPT !.quantity = amounts[i]] \in S
    BY <2>1, LineWithQuantity DEF S
  <2>3. DOMAIN amounts = 1..Len(amounts) /\ Len(amounts) \in Nat
    BY <2>1
  <2>4. [i \in DOMAIN amounts |-> [line EXCEPT !.quantity = amounts[i]]] \in Seq(S)
    BY <2>2, <2>3
  <2>5. QED
    BY <2>4 DEF amounts
<1>7. prices \in Seq(S)
  <2> DEFINE amounts == AmountReductions(line.price)
  <2>1. amounts \in Seq({m \in Int : Rank(m) < Rank(line.price)})
    BY <1>2, AmountsGetRounder
  <2> HIDE DEF amounts
  <2>2. \A i \in DOMAIN amounts : [line EXCEPT !.price = amounts[i]] \in S
    BY <2>1, LineWithPrice DEF S
  <2>3. DOMAIN amounts = 1..Len(amounts) /\ Len(amounts) \in Nat
    BY <2>1
  <2>4. [i \in DOMAIN amounts |-> [line EXCEPT !.price = amounts[i]]] \in Seq(S)
    BY <2>2, <2>3
  <2>5. QED
    BY <2>4 DEF amounts
<1> HIDE DEF removed, dropped, reduced, quantities, prices
<1>8. removed \o dropped \o reduced \o quantities \o prices \in Seq(S)
  BY <1>3, <1>4, <1>5, <1>6, <1>7
<1>9. QED
  BY <1>1, <1>8 DEF S

-----------------------------------------------------------------------------
(* Invoices. *)
Smaller(C, invoice) == {r \in InvoicesOver(C) : Size(r) < Size(invoice)}

(* Every field of the header is counted, once. *)
LEMMA FieldsAreCounted ==
  /\ DOMAIN Fields = 1..12
  /\ \A i \in 1..12 : Fields[i] \in Required \cup Optional
  /\ \A f \in Required \cup Optional : \E i \in 1..12 : Fields[i] = f
  /\ \A i, j \in 1..12 : Fields[i] = Fields[j] => i = j
<1>1. DOMAIN Fields = 1..12
  BY DEF Fields
<1>2. /\ Fields[1] = "identifier" /\ Fields[2] = "buyerReference"
      /\ Fields[3] = "paymentTerms" /\ Fields[4] = "sellerEndpoint"
      /\ Fields[5] = "sellerName" /\ Fields[6] = "sellerAddress"
      /\ Fields[7] = "buyerEndpoint" /\ Fields[8] = "buyerName"
      /\ Fields[9] = "note" /\ Fields[10] = "paymentDueDate"
      /\ Fields[11] = "sellerTradingName" /\ Fields[12] = "sellerIdentifier"
  BY DEF Fields
<1>3. \A i \in 1..12 : i \in {1, 2, 3, 4, 5, 6, 7, 8, 9, 10, 11, 12}
  OBVIOUS
<1>4. \A i \in 1..12 : Fields[i] \in Required \cup Optional
  BY <1>2, <1>3 DEF Required, Optional
<1>5. \A f \in Required \cup Optional : \E i \in 1..12 : Fields[i] = f
  BY <1>2 DEF Required, Optional
<1>6. \A i, j \in 1..12 : Fields[i] = Fields[j] => i = j
  <2> DEFINE Place(f) == CHOOSE i \in 1..12 : Fields[i] = f
  <2>1. ASSUME NEW i \in 1..12, NEW j \in 1..12, Fields[i] = Fields[j]
        PROVE  i = j
    BY <1>2, <1>3, <2>1
  <2>2. QED
    BY <2>1
<1>7. QED
  BY <1>1, <1>4, <1>5, <1>6

(* The sizes of the fields and of the lines are sequences of naturals. *)
FieldSizes(header) == [i \in DOMAIN Fields |-> Len(header[Fields[i]])]
LineSizesOf(lines) == [i \in DOMAIN lines |-> LineSize(lines[i])]

(* The size of an invoice is a natural number, the sum of both.            *)
LEMMA InvoiceSizes ==
  ASSUME NEW C, NEW invoice \in InvoicesOver(C)
  PROVE  /\ FieldSizes(invoice.header) \in Seq(Int)
         /\ Len(FieldSizes(invoice.header)) = 12
         /\ LineSizesOf(invoice.lines) \in Seq(Int)
         /\ Len(LineSizesOf(invoice.lines)) = Len(invoice.lines)
         /\ SumOf(FieldSizes(invoice.header)) \in Nat
         /\ SumOf(LineSizesOf(invoice.lines)) \in Nat
         /\ Size(invoice) = SumOf(FieldSizes(invoice.header))
                            + SumOf(LineSizesOf(invoice.lines))
         /\ Size(invoice) \in Nat
<1>1. /\ invoice.header \in [Required \cup Optional -> Seq(C)]
      /\ invoice.lines \in Seq(LinesOver(C))
  BY DEF InvoicesOver
<1> DEFINE texts == FieldSizes(invoice.header)
<1> DEFINE sizes == LineSizesOf(invoice.lines)
<1>2. texts \in Seq(Int) /\ Len(texts) = 12 /\ \A i \in DOMAIN texts : texts[i] >= 0
  <2>1. \A i \in 1..12 : invoice.header[Fields[i]] \in Seq(C)
    BY <1>1, FieldsAreCounted
  <2>2. \A i \in 1..12 : Len(invoice.header[Fields[i]]) \in Nat
    <3>1. \A q \in Seq(C) : Len(q) \in Nat
      OBVIOUS
    <3>2. QED
      BY <2>1, <3>1, Zenon
  <2>3. texts = [i \in 1..12 |-> Len(invoice.header[Fields[i]])]
    BY FieldsAreCounted DEF FieldSizes
  <2> HIDE DEF texts
  <2>4. DOMAIN texts = 1..12 /\ \A i \in 1..12 : texts[i] \in Nat
    <3>1. DOMAIN texts = 1..12
      BY <2>3, Zenon
    <3>2. \A i \in 1..12 : texts[i] = Len(invoice.header[Fields[i]])
      BY <2>3, Zenon
    <3>3. QED
      BY <2>2, <3>1, <3>2, Zenon
  <2>5. \A g : g = [i \in 1..12 |-> g[i]] /\ (\A i \in 1..12 : g[i] \in Nat)
                => /\ g \in Seq(Int) /\ Len(g) = 12
                   /\ \A i \in DOMAIN g : g[i] >= 0
    <3>1. 12 \in Nat
      OBVIOUS
    <3>2. SUFFICES ASSUME NEW g, g = [i \in 1..12 |-> g[i]],
                          \A i \in 1..12 : g[i] \in Nat
                   PROVE  /\ g \in [1..12 -> Int]
                          /\ \A i \in DOMAIN g : g[i] >= 0
      BY <3>1
    <3>3. DOMAIN g = 1..12
      BY <3>2, Zenon
    <3>4. QED
      BY <3>2, <3>3
  <2>6. texts = [i \in 1..12 |-> texts[i]]
    BY <2>3, <2>4
  <2>7. QED
    BY <2>4, <2>5, <2>6
<1>3. /\ sizes \in Seq(Int) /\ Len(sizes) = Len(invoice.lines)
      /\ \A i \in DOMAIN sizes : sizes[i] >= 0
  <2>1. DOMAIN invoice.lines = 1..Len(invoice.lines) /\ Len(invoice.lines) \in Nat
    BY <1>1
  <2>2. \A i \in 1..Len(invoice.lines) : LineSize(invoice.lines[i]) \in Nat
    BY <1>1, LineSizes
  <2>3. sizes = [i \in 1..Len(invoice.lines) |-> LineSize(invoice.lines[i])]
    BY <2>1 DEF LineSizesOf
  <2> HIDE DEF sizes
  <2>4. QED
    BY <2>1, <2>2, <2>3
<1> HIDE DEF texts, sizes
<1>4. SumOf(texts) \in Nat /\ SumOf(sizes) \in Nat
  BY <1>2, <1>3, SumOfTyped
<1>5. Size(invoice) = SumOf(texts) + SumOf(sizes)
  BY DEF Size, HeaderSize, Total, FieldSizes, LineSizesOf, texts, sizes
<1>6. Size(invoice) \in Nat
  BY <1>4, <1>5
<1>7. QED
  BY <1>2, <1>3, <1>4, <1>5, <1>6 DEF texts, sizes

(* A shorter text makes an invoice smaller. *)
LEMMA InvoiceWithText ==
  ASSUME NEW C, NEW invoice \in InvoicesOver(C), NEW f \in Required \cup Optional,
         NEW t \in Seq(C), Len(t) < Len(invoice.header[f])
  PROVE  [invoice EXCEPT !.header[f] = t] \in Smaller(C, invoice)
<1> DEFINE new == [invoice EXCEPT !.header[f] = t]
<1>1. /\ invoice.header \in [Required \cup Optional -> Seq(C)]
      /\ new \in InvoicesOver(C) /\ new.lines = invoice.lines
      /\ new.header = [invoice.header EXCEPT ![f] = t]
  BY DEF InvoicesOver
<1> HIDE DEF new
<1> DEFINE old == FieldSizes(invoice.header)
<1> DEFINE now == FieldSizes(new.header)
<1>2. PICK k \in 1..12 : Fields[k] = f
  BY FieldsAreCounted
<1>3. \A i \in 1..12 : /\ old[i] = Len(invoice.header[Fields[i]])
                       /\ now[i] = Len(new.header[Fields[i]])
  BY FieldsAreCounted DEF FieldSizes
<1>4. now[k] = Len(t) /\ old[k] = Len(invoice.header[f])
  BY <1>1, <1>2, <1>3
<1>5. \A i \in 1..12 : i # k => old[i] = now[i]
  <2>1. SUFFICES ASSUME NEW i \in 1..12, i # k
                 PROVE  new.header[Fields[i]] = invoice.header[Fields[i]]
    BY <1>3
  <2>2. Fields[i] # f /\ Fields[i] \in Required \cup Optional
    BY <1>2, <2>1, FieldsAreCounted, Zenon
  <2>3. QED
    BY <1>1, <2>2
<1>6. /\ old \in Seq(Int) /\ Len(old) = 12 /\ SumOf(old) \in Nat
      /\ now \in Seq(Int) /\ Len(now) = 12 /\ SumOf(now) \in Nat
  BY <1>1, InvoiceSizes
<1>7. Size(invoice) = SumOf(old) + SumOf(LineSizesOf(invoice.lines))
  BY InvoiceSizes
<1>8. /\ Size(new) = SumOf(now) + SumOf(LineSizesOf(invoice.lines))
      /\ SumOf(LineSizesOf(invoice.lines)) \in Nat
  BY <1>1, InvoiceSizes
<1> HIDE DEF old, now
<1>9. SumOf(now) = SumOf(old) - old[k] + now[k]
  <2>1. k \in 1..Len(old) /\ Len(old) = Len(now)
    BY <1>6
  <2>2. \A i \in 1..Len(old) : i # k => old[i] = now[i]
    BY <1>5, <1>6
  <2>3. old \in Seq(Int) /\ now \in Seq(Int)
    BY <1>6
  <2>4. QED
    BY <2>1, <2>2, <2>3, SumOfReplaced, Zenon
<1>10. now[k] < old[k] /\ now[k] \in Int /\ old[k] \in Int
  BY <1>4, <1>6
<1>11. Size(new) < Size(invoice)
  BY <1>6, <1>7, <1>8, <1>9, <1>10
<1>12. QED
  BY <1>1, <1>11 DEF Smaller, new

(* A smaller line makes an invoice smaller. *)
LEMMA InvoiceWithLine ==
  ASSUME NEW C, NEW invoice \in InvoicesOver(C), NEW k \in DOMAIN invoice.lines,
         NEW l \in SmallerLines(C, invoice.lines[k])
  PROVE  [invoice EXCEPT !.lines[k] = l] \in Smaller(C, invoice)
<1> DEFINE new == [invoice EXCEPT !.lines[k] = l]
<1>1. /\ invoice.lines \in Seq(LinesOver(C)) /\ l \in LinesOver(C)
      /\ LineSize(l) < LineSize(invoice.lines[k])
  BY DEF InvoicesOver, SmallerLines
<1>2. /\ new \in InvoicesOver(C) /\ new.header = invoice.header
      /\ new.lines = [invoice.lines EXCEPT ![k] = l]
  <2> DEFINE lines == [invoice.lines EXCEPT ![k] = l]
  <2>1. lines \in Seq(LinesOver(C))
    BY <1>1
  <2>2. new = [invoice EXCEPT !.lines = lines]
    OBVIOUS
  <2> HIDE DEF lines, new
  <2>3. QED
    BY <2>1, <2>2 DEF InvoicesOver, lines
<1> HIDE DEF new
<1> DEFINE old == LineSizesOf(invoice.lines)
<1> DEFINE now == LineSizesOf(new.lines)
<1>3. /\ DOMAIN new.lines = DOMAIN invoice.lines
      /\ DOMAIN invoice.lines = 1..Len(invoice.lines)
      /\ Len(new.lines) = Len(invoice.lines)
  BY <1>1, <1>2
<1>4. /\ \A i \in 1..Len(invoice.lines) : i # k => old[i] = now[i]
      /\ now[k] = LineSize(l) /\ old[k] = LineSize(invoice.lines[k])
  BY <1>1, <1>2, <1>3 DEF LineSizesOf
<1>5. /\ old \in Seq(Int) /\ Len(old) = Len(invoice.lines) /\ SumOf(old) \in Nat
      /\ now \in Seq(Int) /\ Len(now) = Len(invoice.lines) /\ SumOf(now) \in Nat
  BY <1>2, <1>3, InvoiceSizes
<1>6. /\ Size(invoice) = SumOf(FieldSizes(invoice.header)) + SumOf(old)
      /\ SumOf(FieldSizes(invoice.header)) \in Nat
  BY InvoiceSizes
<1>7. Size(new) = SumOf(FieldSizes(invoice.header)) + SumOf(now)
  BY <1>2, InvoiceSizes
<1> HIDE DEF old, now
<1>8. k \in 1..Len(old) /\ k \in DOMAIN old /\ k \in DOMAIN now
  BY <1>3, <1>5
<1>9. /\ SumOf(now) = SumOf(old) - old[k] + now[k]
      /\ now[k] < old[k] /\ now[k] \in Int /\ old[k] \in Int
  <2>1. now[k] \in Int /\ old[k] \in Int
    BY <1>5, <1>8
  <2>2. now[k] < old[k]
    BY <1>1, <1>4, Zenon
  <2>3. Len(old) = Len(now) /\ \A i \in 1..Len(old) : i # k => old[i] = now[i]
    BY <1>4, <1>5
  <2>4. SumOf(now) = SumOf(old) - old[k] + now[k]
    BY <1>5, <1>8, <2>3, SumOfReplaced
  <2>5. QED
    BY <2>1, <2>2, <2>4
<1>10. Size(new) < Size(invoice)
  <2>1. \A h, a, b, x, y \in Int : y < x /\ b = a - x + y => h + b < h + a
    OBVIOUS
  <2>2. /\ SumOf(FieldSizes(invoice.header)) \in Int
        /\ SumOf(old) \in Int /\ SumOf(now) \in Int
    BY <1>5, <1>6
  <2>3. QED
    BY <1>6, <1>7, <1>9, <2>1, <2>2
<1>11. QED
  BY <1>2, <1>10 DEF Smaller, new

(* A line less makes an invoice smaller. *)
LEMMA InvoiceWithoutLine ==
  ASSUME NEW C, NEW invoice \in InvoicesOver(C), NEW k \in DOMAIN invoice.lines
  PROVE  [invoice EXCEPT !.lines = RemoveAt(@, k)] \in Smaller(C, invoice)
<1> DEFINE new == [invoice EXCEPT !.lines = RemoveAt(@, k)]
<1> DEFINE lines == invoice.lines
<1>1. /\ lines \in Seq(LinesOver(C)) /\ k \in 1..Len(lines) /\ Len(lines) \in Nat
      /\ DOMAIN lines = 1..Len(lines)
  BY DEF InvoicesOver
<1> HIDE DEF lines
<1>2. /\ RemoveAt(lines, k) \in Seq(LinesOver(C))
      /\ Len(RemoveAt(lines, k)) = Len(lines) - 1
      /\ \A n \in 1..(Len(lines) - 1) :
           RemoveAt(lines, k)[n] = IF n < k THEN lines[n] ELSE lines[n + 1]
  BY <1>1, RemovedTerms
<1>3. /\ new \in InvoicesOver(C) /\ new.header = invoice.header
      /\ new.lines = RemoveAt(lines, k)
  BY <1>2 DEF InvoicesOver, lines
<1> HIDE DEF new
<1> DEFINE old == LineSizesOf(lines)
<1> DEFINE now == LineSizesOf(RemoveAt(lines, k))
<1>4. /\ old \in Seq(Int) /\ Len(old) = Len(lines) /\ SumOf(old) \in Nat
      /\ now \in Seq(Int) /\ Len(now) = Len(lines) - 1 /\ SumOf(now) \in Nat
  BY <1>2, <1>3, InvoiceSizes DEF lines
<1>5. /\ \A n \in 1..Len(lines) : old[n] = LineSize(lines[n])
      /\ \A n \in 1..(Len(lines) - 1) : now[n] = LineSize(RemoveAt(lines, k)[n])
  BY <1>1, <1>2 DEF LineSizesOf
<1> HIDE DEF old, now
<1>6. now = RemoveAt(old, k)
  <2>1. /\ RemoveAt(old, k) \in Seq(Int)
        /\ Len(RemoveAt(old, k)) = Len(lines) - 1
        /\ \A n \in 1..(Len(lines) - 1) :
             RemoveAt(old, k)[n] = IF n < k THEN old[n] ELSE old[n + 1]
    <3>1. k \in 1..Len(old)
      BY <1>1, <1>4
    <3>2. QED
      BY <1>4, <3>1, RemovedTerms
  <2>2. ASSUME NEW n \in 1..(Len(lines) - 1)
        PROVE  now[n] = RemoveAt(old, k)[n]
    <3>1. n \in 1..Len(lines) /\ n + 1 \in 1..Len(lines)
      BY <1>1
    <3>2. QED
      BY <1>2, <1>5, <2>1, <3>1
  <2> DEFINE q == RemoveAt(old, k)
  <2> HIDE DEF q
  <2>3. now \in Seq(Int) /\ q \in Seq(Int) /\ Len(now) = Len(q)
    BY <1>4, <2>1 DEF q
  <2>4. \A n \in 1..Len(now) : now[n] = q[n]
    BY <1>4, <2>2 DEF q
  <2>5. now = q
    BY <2>3, <2>4
  <2>6. QED
    BY <2>5 DEF q
<1>7. SumOf(now) = SumOf(old) - old[k]
  BY <1>1, <1>4, <1>6, SumOfRemoved
<1>8. old[k] \in Nat /\ old[k] > 0
  <2>1. lines[k] \in LinesOver(C)
    BY <1>1
  <2>2. LineSize(lines[k]) \in Nat /\ LineSize(lines[k]) > 0
    BY <2>1, LineSizes
  <2>3. QED
    BY <1>1, <1>5, <2>2
<1>9. /\ Size(invoice) = SumOf(FieldSizes(invoice.header)) + SumOf(old)
      /\ SumOf(FieldSizes(invoice.header)) \in Nat
  BY InvoiceSizes DEF old, lines
<1>10. Size(new) = SumOf(FieldSizes(invoice.header)) + SumOf(now)
  BY <1>3, InvoiceSizes DEF now
<1>11. Size(new) < Size(invoice)
  BY <1>4, <1>7, <1>8, <1>9, <1>10
<1>12. QED
  BY <1>3, <1>11 DEF Smaller, new

(* Removed and shortened fields. *)
LEMMA FieldsGetShorter ==
  ASSUME NEW C, MinimalCharacter \in C, NEW invoice \in InvoicesOver(C),
         NEW fields \in Seq(Required \cup Optional)
  PROVE  /\ RemoveFields(invoice, fields) \in Seq(Smaller(C, invoice))
         /\ ShortenFields(invoice, fields) \in Seq(Smaller(C, invoice))
<1> DEFINE S == Smaller(C, invoice)
<1> DEFINE Removed(f) == IF invoice.header[f] = Absent THEN <<>>
                         ELSE <<[invoice EXCEPT !.header[f] = Absent]>>
<1> DEFINE Shortened(f) == [i \in DOMAIN TextReductions(invoice.header[f]) |->
             [invoice EXCEPT !.header[f] = TextReductions(invoice.header[f])[i]]]
<1>1. /\ RemoveFields(invoice, fields)
           = FlattenSeq([i \in DOMAIN fields |-> Removed(fields[i])])
      /\ ShortenFields(invoice, fields)
           = FlattenSeq([i \in DOMAIN fields |-> Shortened(fields[i])])
  BY DEF RemoveFields, ShortenFields, AllOf, Each
<1>2. \A f \in Required \cup Optional : invoice.header[f] \in Seq(C)
  BY DEF InvoicesOver
<1>3. /\ DOMAIN fields = 1..Len(fields) /\ Len(fields) \in Nat
      /\ \A i \in 1..Len(fields) : fields[i] \in Required \cup Optional
  OBVIOUS
<1>4. ASSUME NEW f \in Required \cup Optional
      PROVE  Removed(f) \in Seq(S)
  <2>1. CASE invoice.header[f] = Absent
    BY <2>1
  <2>2. CASE invoice.header[f] # Absent
    <3>1. Len(Absent) < Len(invoice.header[f]) /\ Absent \in Seq(C)
      BY <1>2, <2>2 DEF Absent
    <3>2. [invoice EXCEPT !.header[f] = Absent] \in S
      BY <3>1, InvoiceWithText
    <3> HIDE DEF S
    <3>3. QED
      BY <2>2, <3>2
  <2>3. QED
    BY <2>1, <2>2
<1>5. ASSUME NEW f \in Required \cup Optional
      PROVE  Shortened(f) \in Seq(S)
  <2> DEFINE texts == TextReductions(invoice.header[f])
  <2>1. texts \in Seq(ShorterThan(C, invoice.header[f]))
    BY <1>2, TextsGetShorter
  <2> HIDE DEF texts
  <2>2. \A i \in DOMAIN texts : [invoice EXCEPT !.header[f] = texts[i]] \in S
    <3>1. \A i \in DOMAIN texts : texts[i] \in Seq(C)
                                   /\ Len(texts[i]) < Len(invoice.header[f])
      BY <2>1 DEF ShorterThan
    <3>2. QED
      BY <3>1, InvoiceWithText, Zenon
  <2>3. DOMAIN texts = 1..Len(texts) /\ Len(texts) \in Nat
    BY <2>1
  <2> HIDE DEF S
  <2>4. [i \in DOMAIN texts |-> [invoice EXCEPT !.header[f] = texts[i]]] \in Seq(S)
    BY <2>2, <2>3
  <2>5. QED
    BY <2>4 DEF texts
<1> HIDE DEF Removed, Shortened, S
<1>6. /\ [i \in DOMAIN fields |-> Removed(fields[i])] \in Seq(Seq(S))
      /\ [i \in DOMAIN fields |-> Shortened(fields[i])] \in Seq(Seq(S))
  BY <1>3, <1>4, <1>5
<1>7. QED
  BY <1>1, <1>6, FlattenedElements DEF S

(* Removed lines, of which the last one comes first. *)
LEMMA LinesGetFewer ==
  ASSUME NEW C, NEW invoice \in InvoicesOver(C)
  PROVE  RemoveLines(invoice) \in Seq(Smaller(C, invoice))
<1> DEFINE S == Smaller(C, invoice)
<1> DEFINE places == Reverse([i \in DOMAIN invoice.lines |-> i])
<1> DEFINE shorter == [j \in DOMAIN places |->
                         [invoice EXCEPT !.lines = RemoveAt(@, places[j])]]
<1>1. CASE Len(invoice.lines) = 1
  BY <1>1 DEF RemoveLines
<1>2. CASE Len(invoice.lines) # 1
  <2>1. RemoveLines(invoice) = shorter
    BY <1>2 DEF RemoveLines, Each
  <2>2. places \in Seq(DOMAIN invoice.lines)
    <3>1. DOMAIN invoice.lines = 1..Len(invoice.lines) /\ Len(invoice.lines) \in Nat
      BY DEF InvoicesOver
    <3>2. [i \in DOMAIN invoice.lines |-> i] \in Seq(DOMAIN invoice.lines)
      BY <3>1
    <3>3. \A D : \A s \in Seq(D) : Reverse(s) \in Seq(D)
      BY DEF Reverse
    <3>4. QED
      BY <3>2, <3>3
  <2> HIDE DEF places
  <2>3. DOMAIN places = 1..Len(places) /\ Len(places) \in Nat
    BY <2>2
  <2>4. \A j \in 1..Len(places) : places[j] \in DOMAIN invoice.lines
    BY <2>2
  <2>5. \A j \in 1..Len(places) :
          [invoice EXCEPT !.lines = RemoveAt(@, places[j])] \in S
    BY <2>4, InvoiceWithoutLine
  <2> HIDE DEF S
  <2>6. shorter \in Seq(S)
    BY <2>3, <2>5
  <2>7. QED
    BY <2>1, <2>6 DEF S
<1>3. QED
  BY <1>1, <1>2

(* Reduced lines. *)
LEMMA ReducedLinesAreSmaller ==
  ASSUME NEW C, MinimalCharacter \in C, NEW invoice \in InvoicesOver(C)
  PROVE  ReduceLines(invoice) \in Seq(Smaller(C, invoice))
<1> DEFINE S == Smaller(C, invoice)
<1> DEFINE places == [i \in DOMAIN invoice.lines |-> i]
<1> DEFINE Reduced(i) == [j \in DOMAIN LineReductions(invoice.lines[i]) |->
             [invoice EXCEPT !.lines[i] = LineReductions(invoice.lines[i])[j]]]
<1>1. ReduceLines(invoice) = FlattenSeq([j \in DOMAIN places |-> Reduced(places[j])])
  BY DEF ReduceLines, AllOf, Each
<1>2. /\ DOMAIN invoice.lines = 1..Len(invoice.lines) /\ Len(invoice.lines) \in Nat
      /\ \A i \in 1..Len(invoice.lines) : invoice.lines[i] \in LinesOver(C)
  BY DEF InvoicesOver
<1>3. ASSUME NEW i \in DOMAIN invoice.lines
      PROVE  Reduced(i) \in Seq(S)
  <2> DEFINE lines == LineReductions(invoice.lines[i])
  <2>1. lines \in Seq(SmallerLines(C, invoice.lines[i]))
    BY <1>2, LinesGetSmaller
  <2> HIDE DEF lines
  <2>2. \A j \in DOMAIN lines : [invoice EXCEPT !.lines[i] = lines[j]] \in S
    <3>1. \A j \in DOMAIN lines : lines[j] \in SmallerLines(C, invoice.lines[i])
      BY <2>1
    <3>2. QED
      BY <3>1, InvoiceWithLine, Zenon
  <2>3. DOMAIN lines = 1..Len(lines) /\ Len(lines) \in Nat
    BY <2>1
  <2> HIDE DEF S
  <2>4. [j \in DOMAIN lines |-> [invoice EXCEPT !.lines[i] = lines[j]]] \in Seq(S)
    BY <2>2, <2>3
  <2>5. QED
    BY <2>4 DEF lines
<1>4. /\ DOMAIN places = 1..Len(invoice.lines)
      /\ \A j \in 1..Len(invoice.lines) : places[j] \in DOMAIN invoice.lines
  BY <1>2
<1> HIDE DEF Reduced, S, places
<1>5. [j \in DOMAIN places |-> Reduced(places[j])] \in Seq(Seq(S))
  BY <1>2, <1>3, <1>4
<1>6. QED
  BY <1>1, <1>5, FlattenedElements DEF S

(* Every declared operation makes an invoice smaller, and every one-step   *)
(* reduction is valid too, whatever the invoice and whatever characters it *)
(* is made of (shrink.py:68-83, 266-283, 328-341).                         *)
THEOREM ReductionsAreSmaller ==
  ASSUME NEW C, MinimalCharacter \in C, NEW invoice \in InvoicesOver(C)
  PROVE  OneStepReductions(invoice)
           \in Seq({r \in Smaller(C, invoice) : Valid(r) /\ r # invoice})
<1> DEFINE S == Smaller(C, invoice)
<1> DEFINE declared == DeclaredOperations(invoice)
<1> DEFINE refused == {r \in Range(declared) : ~Valid(r)}
<1>1. declared \in Seq(S)
  <2>1. /\ <<"note", "paymentDueDate">> \in Seq(Required \cup Optional)
        /\ <<"sellerTradingName", "sellerIdentifier">> \in Seq(Required \cup Optional)
        /\ <<"sellerEndpoint", "sellerName", "sellerAddress", "buyerEndpoint",
             "buyerName">> \in Seq(Required \cup Optional)
        /\ <<"identifier", "buyerReference", "paymentTerms">>
             \in Seq(Required \cup Optional)
    BY DEF Required, Optional
  <2>2. /\ RemoveFields(invoice, <<"note", "paymentDueDate">>) \in Seq(S)
        /\ RemoveFields(invoice, <<"sellerTradingName", "sellerIdentifier">>) \in Seq(S)
        /\ ShortenFields(invoice, <<"sellerEndpoint", "sellerName", "sellerAddress",
                                    "buyerEndpoint", "buyerName">>) \in Seq(S)
        /\ ShortenFields(invoice, <<"identifier", "buyerReference", "paymentTerms">>)
             \in Seq(S)
    BY <2>1, FieldsGetShorter
  <2>3. RemoveLines(invoice) \in Seq(S) /\ ReduceLines(invoice) \in Seq(S)
    BY LinesGetFewer, ReducedLinesAreSmaller
  <2> HIDE DEF S
  <2>4. \A a, b \in Seq(S) : a \o b \in Seq(S)
    OBVIOUS
  <2>5. PartyReductions(invoice) \in Seq(S)
    BY <2>2, <2>4 DEF PartyReductions
  <2>6. QED
    BY <2>2, <2>3, <2>4, <2>5 DEF DeclaredOperations
<1>2. declared \in Seq(Range(declared)) /\ Range(declared) \subseteq S
  BY <1>1 DEF Range
<1>3. OneStepReductions(invoice) = FirstOccurrences(declared, {invoice} \cup refused)
  BY DEF OneStepReductions
<1> HIDE DEF declared
<1>4. FirstOccurrences(declared, {invoice} \cup refused)
        \in Seq(Range(declared) \ ({invoice} \cup refused))
  BY <1>2, KeptElements
<1>5. Range(declared) \ ({invoice} \cup refused)
        \subseteq {r \in S : Valid(r) /\ r # invoice}
  BY <1>2
<1> HIDE DEF refused, S
<1>6. \A A, B : A \subseteq B => Seq(A) \subseteq Seq(B)
  OBVIOUS
<1>7. QED
  BY <1>3, <1>4, <1>5, <1>6 DEF S

(* The reductions are well-founded: however the invoices of a chain are    *)
(* chosen, it reaches one that is no reduction of the one before it        *)
(* (shrink.py:331-341, 376-379).                                           *)
THEOREM ReductionsEnd ==
  ASSUME NEW C, MinimalCharacter \in C, NEW chain \in [Nat -> InvoicesOver(C)]
  PROVE  \E n \in Nat : chain[n + 1] \notin Range(OneStepReductions(chain[n]))
<1>1. SUFFICES ASSUME \A n \in Nat :
                        chain[n + 1] \in Range(OneStepReductions(chain[n]))
               PROVE  FALSE
  OBVIOUS
<1>2. ASSUME NEW n \in Nat
      PROVE  Size(chain[n]) \in Nat /\ Size(chain[n + 1]) < Size(chain[n])
  <2>1. chain[n] \in InvoicesOver(C)
    OBVIOUS
  <2>2. Size(chain[n]) \in Nat
    BY <2>1, InvoiceSizes
  <2>3. OneStepReductions(chain[n])
          \in Seq({r \in Smaller(C, chain[n]) : Valid(r) /\ r # chain[n]})
    BY <2>1, ReductionsAreSmaller
  <2>4. chain[n + 1] \in Smaller(C, chain[n])
    BY <1>1, <2>3 DEF Range
  <2>5. QED
    BY <2>2, <2>4 DEF Smaller
<1> DEFINE sizes == {Size(chain[n]) : n \in Nat}
<1>3. sizes \subseteq Nat /\ sizes # {}
  BY <1>2
<1>4. PICK least \in sizes : \A m \in sizes : least <= m
  BY <1>3, LeastNumber
<1>5. PICK n \in Nat : least = Size(chain[n])
  OBVIOUS
<1>6. n + 1 \in Nat /\ Size(chain[n + 1]) \in sizes
  OBVIOUS
<1>7. /\ Size(chain[n + 1]) < Size(chain[n]) /\ Size(chain[n]) \in Nat
      /\ Size(chain[n + 1]) \in Nat
  BY <1>2, <1>6
<1>8. least <= Size(chain[n + 1])
  BY <1>4, <1>6, Zenon
<1>9. QED
  BY <1>5, <1>7, <1>8

-----------------------------------------------------------------------------
(* Totals.  The lines of a valid invoice have one rate. *)
LEMMA OneRate ==
  ASSUME NEW C, NEW invoice \in InvoicesOver(C), Valid(invoice)
  PROVE  /\ invoice.lines \in Seq(LinesOver(C))
         /\ Len(invoice.lines) \in Nat /\ Len(invoice.lines) >= 1
         /\ DOMAIN invoice.lines = 1..Len(invoice.lines)
         /\ Head(invoice.lines) = invoice.lines[1]
         /\ \A i \in 1..Len(invoice.lines) :
              invoice.lines[i].rate = Head(invoice.lines).rate
<1> DEFINE lines == invoice.lines
<1> DEFINE rates == {lines[i].rate : i \in DOMAIN lines}
<1>1. lines \in Seq(LinesOver(C)) /\ Len(lines) \in Nat /\ DOMAIN lines = 1..Len(lines)
  BY DEF InvoicesOver
<1>2. Len(lines) >= 1 /\ Cardinality(rates) = 1
  <2>1. Len(lines) \in 1..100 /\ Cardinality(rates) = 1
    BY Zenon DEF Valid
  <2>2. \A n \in 1..100 : n >= 1
    OBVIOUS
  <2>3. QED
    BY <2>1, <2>2, Zenon
<1> HIDE DEF lines
<1>3. Head(lines) = lines[1] /\ 1 \in DOMAIN lines
  BY <1>1, <1>2
<1>4. IsFiniteSet(DOMAIN lines)
  BY <1>1, FS_Interval, 1 \in Int
<1>5. IsFiniteSet(rates)
  <2> DEFINE f == [i \in DOMAIN lines |-> lines[i].rate]
  <2>1. f \in Surjection(DOMAIN lines, rates)
    BY DEF Surjection
  <2>2. QED
    BY <1>4, <2>1, FS_Surjection
<1> HIDE DEF rates
<1>6. PICK rate : rates = {rate}
  BY <1>2, <1>5, FS_Singleton
<1>7. \A i \in DOMAIN lines : lines[i].rate = rate
  BY <1>6 DEF rates
<1>8. QED
  BY <1>1, <1>2, <1>3, <1>7 DEF lines

(* An amount a in units of d is close to b when it is at most half a unit  *)
(* away, a sum of n such amounts when it is at most n halves away.         *)
Product == 10000                 \* a quantity times a price, in cents
Percent == 100
Near(d, a, b) == 2 * Abs(d * a - b) <= d
NearSum(d, a, b, n) == 2 * Abs(d * a - b) <= d * n
Gross(line) == line.quantity * line.price
Due(line) == LineExtension(line) * line.rate

(* Half up is half a unit away, at most. *)
LEMMA HalfUpIsClose ==
  ASSUME NEW n \in Int
  PROVE  /\ HalfUp(n, Product) \in Int /\ Near(Product, HalfUp(n, Product), n)
         /\ HalfUp(n, Percent) \in Int /\ Near(Percent, HalfUp(n, Percent), n)
<1>1. LET q == (2 * n + 10000) \div 20000
      IN  q \in Int /\ 20000 * q <= 2 * n + 10000 /\ 2 * n + 10000 < 20000 * q + 20000
  OBVIOUS
<1>2. LET q == (2 * n + 100) \div 200
      IN  q \in Int /\ 200 * q <= 2 * n + 100 /\ 2 * n + 100 < 200 * q + 200
  OBVIOUS
<1>3. QED
  BY <1>1, <1>2 DEF HalfUp, Abs, Near, Product, Percent

(* The amounts of a line are numbers, rounded half a unit away at most. *)
LEMMA LineAmounts ==
  ASSUME NEW C, NEW line \in LinesOver(C)
  PROVE  /\ line.rate \in Int
         /\ Gross(line) \in Int /\ LineExtension(line) \in Int
         /\ Due(line) \in Int /\ Tax(line) \in Int
         /\ Near(Product, LineExtension(line), Gross(line))
         /\ Near(Percent, Tax(line), Due(line))
<1>1. /\ line.quantity \in Int /\ line.price \in Int /\ line.rate \in Int
  BY DEF LinesOver
<1>2. \A a, b \in Int : a * b \in Int
  OBVIOUS
<1>3. Gross(line) \in Int
  BY <1>1, <1>2, Zenon DEF Gross
<1>4. LineExtension(line) \in Int /\ Near(Product, LineExtension(line), Gross(line))
  <2>1. LineExtension(line) = HalfUp(Gross(line), Product)
    BY DEF LineExtension, Gross, Product
  <2>2. QED
    BY <1>3, <2>1, HalfUpIsClose, Zenon
<1>5. Due(line) \in Int
  BY <1>1, <1>2, <1>4, Zenon DEF Due
<1>6. Tax(line) \in Int /\ Near(Percent, Tax(line), Due(line))
  <2>1. Tax(line) = HalfUp(Due(line), Percent)
    BY Zenon DEF Tax, Due, Percent
  <2>2. QED
    BY <1>5, <2>1, HalfUpIsClose, Zenon
<1>7. QED
  BY <1>1, <1>3, <1>4, <1>5, <1>6, Zenon

(* Close amounts have a close sum. *)
LEMMA SumOfNear ==
  ASSUME NEW s, NEW t, NEW d \in {Percent, Product}, NEW n
  PROVE  /\ s \in Seq(Int) /\ t \in Seq(Int) /\ Len(s) = n /\ Len(t) = n
         /\ \A i \in 1..n : Near(d, s[i], t[i])
         => NearSum(d, SumOf(s), SumOf(t), n)
<1>1. d \in Int /\ d \in Nat
  BY DEF Percent, Product
<1>2. SUFFICES ASSUME s \in Seq(Int), t \in Seq(Int), Len(s) = n, Len(t) = n,
                      \A i \in 1..n : Near(d, s[i], t[i])
               PROVE  2 * Abs(d * SumOf(s) - SumOf(t)) <= d * Len(s)
  BY Zenon DEF NearSum
<1>3. \A i \in 1..Len(s) : 2 * Abs(d * s[i] - t[i]) <= d
  BY <1>2, Zenon DEF Near
<1>4. QED
  BY <1>1, <1>2, <1>3, SumOfClose, Zenon

(* The totals of every valid invoice stay within half a cent per line of   *)
(* what they stand for (model.py:148-219).                                 *)
LEMMA TotalsAreClose ==
  ASSUME NEW C, NEW invoice \in InvoicesOver(C), Valid(invoice)
  PROVE  WithinHalfACent(invoice)
<1> DEFINE lines == invoice.lines
<1> DEFINE n == Len(invoice.lines)
<1> DEFINE rate == Head(invoice.lines).rate
<1> DEFINE extensions == [i \in DOMAIN invoice.lines |-> LineExtension(invoice.lines[i])]
<1> DEFINE gross == [i \in DOMAIN invoice.lines |-> Gross(invoice.lines[i])]
<1> DEFINE taxes == [i \in DOMAIN invoice.lines |-> Tax(invoice.lines[i])]
<1> DEFINE due == [i \in DOMAIN invoice.lines |-> Due(invoice.lines[i])]
<1>1. /\ LineTotal(invoice) = SumOf(extensions)
      /\ Total(LAMBDA line : line.quantity * line.price, invoice) = SumOf(gross)
      /\ TaxTotal(invoice) = SumOf(taxes)
  BY DEF LineTotal, TaxTotal, Total, Gross
<1>2. /\ lines \in Seq(LinesOver(C)) /\ n \in Nat /\ DOMAIN lines = 1..n
      /\ \A i \in 1..n : lines[i].rate = rate
      /\ n >= 1 /\ rate = lines[1].rate
  BY OneRate, Zenon
<1> HIDE DEF lines, n, rate
<1>3. /\ \A i \in 1..n : lines[i] \in LinesOver(C)
      /\ Len(lines) = n /\ 1 \in 1..n
  BY <1>2 DEF lines, n
<1>4. /\ rate \in Int
      /\ \A i \in 1..n :
           /\ lines[i].rate \in Int
           /\ Gross(lines[i]) \in Int /\ LineExtension(lines[i]) \in Int
           /\ Due(lines[i]) \in Int /\ Tax(lines[i]) \in Int
           /\ Near(Product, LineExtension(lines[i]), Gross(lines[i]))
           /\ Near(Percent, Tax(lines[i]), Due(lines[i]))
  BY <1>2, <1>3, LineAmounts, Zenon
<1>5. \A f \in [1..n -> Int] : f \in Seq(Int) /\ Len(f) = n
  BY <1>2
<1>6. /\ extensions \in [1..n -> Int] /\ gross \in [1..n -> Int]
      /\ taxes \in [1..n -> Int] /\ due \in [1..n -> Int]
  BY <1>2, <1>4, Zenon DEF lines
<1>7. \A i \in 1..n :
        /\ extensions[i] = LineExtension(lines[i]) /\ gross[i] = Gross(lines[i])
        /\ taxes[i] = Tax(lines[i]) /\ due[i] = Due(lines[i])
  BY <1>2, Zenon DEF lines
<1> HIDE DEF extensions, gross, taxes, due
<1>8. /\ \A i \in 1..n : Near(Product, extensions[i], gross[i])
      /\ \A i \in 1..n : Near(Percent, taxes[i], due[i])
  BY <1>4, <1>7
<1>9. \A i \in 1..n : due[i] = extensions[i] * rate
  <2>1. \A i \in 1..n : Due(lines[i]) = LineExtension(lines[i]) * rate
    BY <1>2, Zenon DEF Due
  <2>2. QED
    BY <1>7, <2>1, Zenon
<1>10. /\ NearSum(Product, SumOf(extensions), SumOf(gross), n)
       /\ NearSum(Percent, SumOf(taxes), SumOf(due), n)
  BY <1>5, <1>6, <1>8, SumOfNear, Zenon
<1>11. SumOf(due) = SumOf(extensions) * rate
  <2>1. Len(extensions) = n /\ Len(due) = n
    BY <1>5, <1>6
  <2>2. QED
    BY <1>4, <1>5, <1>6, <1>9, <2>1, SumOfScaled, Zenon
<1>12. 2 * Abs(Product * SumOf(extensions) - SumOf(gross)) <= Product * n
  BY <1>10, Zenon DEF NearSum
<1>13. 2 * Abs(Percent * SumOf(taxes) - SumOf(extensions) * rate) <= Percent * n
  BY <1>10, <1>11, Zenon DEF NearSum
<1>14. WithinHalfACent(invoice)
         <=> /\ 2 * Abs(10000 * SumOf(extensions) - SumOf(gross)) <= 10000 * n
             /\ 2 * Abs(100 * SumOf(taxes) - SumOf(extensions) * rate) <= 100 * n
  <2>1. /\ LineTotal(invoice) = SumOf(extensions)
        /\ TaxTotal(invoice) = SumOf(taxes)
    BY <1>1, Zenon
  <2>2. QED
    BY <2>1 DEF WithinHalfACent, Total, gross, Gross, rate, n
<1>15. QED
  BY <1>12, <1>13, <1>14 DEF Product, Percent

-----------------------------------------------------------------------------
(* A line is read as it was written, with an empty text where there is no  *)
(* element.                                                                *)
LEMMA LinesAreRead ==
  ASSUME NEW C, NEW line \in LinesOver(C)
  PROVE  /\ ParsedLine(WrittenLine(line)) = line
         /\ WrittenLine(line).extension = LineExtension(line)
<1> DEFINE text == [m \in {m \in LineTexts : line[m] # Absent} |-> line[m]]
<1> DEFINE written == WrittenLine(line)
<1>1. /\ written.text = text /\ written.extras = line.extras
      /\ written.quantity = line.quantity /\ written.price = line.price
      /\ written.rate = line.rate /\ written.extension = LineExtension(line)
  BY DEF WrittenLine
<1>2. \A m \in LineTexts : Found(text, m) = line[m]
  BY DEF Found
<1>3. /\ Found(text, "identifier") = line.identifier /\ Found(text, "name") = line.name
      /\ Found(text, "note") = line.note
      /\ Found(text, "description") = line.description
  BY <1>2 DEF LineTexts
<1> HIDE DEF written, text
<1>4. ParsedLine(written)
        = [identifier |-> line.identifier, name |-> line.name, note |-> line.note,
           description |-> line.description, extras |-> line.extras,
           quantity |-> line.quantity, price |-> line.price, rate |-> line.rate]
  BY <1>1, <1>3 DEF ParsedLine
<1>5. line = [identifier |-> line.identifier, name |-> line.name, note |-> line.note,
              description |-> line.description, extras |-> line.extras,
              quantity |-> line.quantity, price |-> line.price, rate |-> line.rate]
  BY DEF LinesOver
<1>6. QED
  BY <1>1, <1>4, <1>5 DEF written

(* A document is read as the invoice it was written from, and accepted if  *)
(* no required text of the invoice is blank (model.py:357-412, 484-614).   *)
LEMMA DocumentsAreRead ==
  ASSUME NEW C, NEW invoice \in InvoicesOver(C), Valid(invoice)
  PROVE  ReadBack(invoice)
<1> DEFINE document == Serialize(invoice)
<1> DEFINE lines == invoice.lines
<1> DEFINE header == invoice.header
<1>1. /\ document.header = [f \in Present(header) |-> header[f]]
      /\ document.lines = [i \in DOMAIN lines |-> WrittenLine(lines[i])]
      /\ document.lineTotal = LineTotal(invoice)
      /\ document.tax = TaxTotal(invoice)
      /\ document.payable = PayableTotal(invoice)
  BY DEF Serialize
<1>2. /\ header \in [Required \cup Optional -> Seq(C)] /\ lines \in Seq(LinesOver(C))
      /\ invoice = [header |-> header, lines |-> lines]
  BY DEF InvoicesOver
<1>3. /\ DOMAIN lines = 1..Len(lines)
      /\ \A i \in DOMAIN lines : lines[i] \in LinesOver(C)
  BY <1>2
<1>4. Parsed(document) = invoice
  <2>1. \A f \in Required \cup Optional : Found(document.header, f) = header[f]
    BY <1>1, <1>2 DEF Found, Present
  <2>2. \A i \in DOMAIN lines : ParsedLine(document.lines[i]) = lines[i]
    BY <1>1, <1>3, LinesAreRead
  <2>3. DOMAIN document.lines = DOMAIN lines
    BY <1>1
  <2> HIDE DEF document, lines, header
  <2>4. [f \in Required \cup Optional |-> Found(document.header, f)] = header
    BY <1>2, <2>1
  <2>5. [i \in DOMAIN document.lines |-> ParsedLine(document.lines[i])] = lines
    <3>1. lines = [i \in DOMAIN lines |-> lines[i]]
      BY <1>2
    <3>2. QED
      BY <2>2, <2>3, <3>1
  <2>6. QED
    BY <1>2, <2>4, <2>5 DEF Parsed
<1>5. \A i \in DOMAIN lines : document.lines[i].extension = LineExtension(lines[i])
  BY <1>1, <1>3, LinesAreRead
<1> HIDE DEF document, lines, header
<1>6. ASSUME Readable(invoice)
      PROVE  Parses(document)
  BY <1>1, <1>4, <1>5, <1>6 DEF Parses, Readable, lines, header
<1>7. QED
  BY <1>4, <1>6, Zenon DEF ReadBack, document

-----------------------------------------------------------------------------
(* The characters of the candidates: those of a seed, and the words and    *)
(* numbers that the mutators write.                                        *)
Words ==
  { "RP", "LEITWEG-ID", "Nr.", "seller", "buyer", "@", "example.invalid",
    "Musterlieferant", "Musterlieferant GmbH", "Musterkunde", "Tage", "Variante",
    "POSITION", "Hinweis", "DE-RP", "Strasse", "ZUSATZ", "Zusatzposition" }
Characters == STRING \cup Words \cup {Digits(n) : n \in Int}
ValidInvoices == {invoice \in InvoicesOver(Characters) : Valid(invoice)}

(* What the mutators write is a text. *)
LEMMA WrittenTexts ==
  ASSUME NEW word \in Words, NEW n \in Int
  PROVE  /\ Worded(word, n) \in Seq(Characters)
         /\ Mail(word, n) \in Seq(Characters)
         /\ <<Digits(n)>> \in Seq(Characters)
<1>1. /\ word \in Characters /\ Digits(n) \in Characters
      /\ "@" \in Characters /\ "example.invalid" \in Characters
  BY Zenon DEF Characters, Words
<1> DEFINE digits == Digits(n)
<1> HIDE DEF digits
<1>2. /\ <<word, digits>> \in Seq(Characters)
      /\ <<word, digits, "@", "example.invalid">> \in Seq(Characters)
      /\ <<digits>> \in Seq(Characters)
  BY <1>1 DEF digits
<1>3. QED
  BY <1>2 DEF Worded, Mail, digits

(* A text of the header that is replaced leaves an invoice one. *)
LEMMA FieldsAreSet ==
  ASSUME NEW C, NEW invoice \in InvoicesOver(C), NEW f \in Required \cup Optional,
         NEW t \in Seq(C)
  PROVE  SetField(invoice, f, t) \in InvoicesOver(C)
BY DEF SetField, InvoicesOver

(* Lines that are replaced leave an invoice one.                           *)
LEMMA LinesAreSet ==
  ASSUME NEW C, NEW invoice \in InvoicesOver(C), NEW lines \in Seq(LinesOver(C))
  PROVE  [invoice EXCEPT !.lines = lines] \in InvoicesOver(C)
BY DEF InvoicesOver

(* So does a text or an amount of the first line.                          *)
LEMMA FirstIsSet ==
  ASSUME NEW C, NEW invoice \in InvoicesOver(C), Len(invoice.lines) >= 1,
         NEW m \in LineTexts \cup {"quantity", "price"}, NEW value,
         m \in LineTexts => value \in Seq(C),
         m \in {"quantity", "price"} => value \in Int
  PROVE  SetFirst(invoice, m, value) \in InvoicesOver(C)
<1> DEFINE lines == invoice.lines
<1> DEFINE first == [lines[1] EXCEPT ![m] = value]
<1> DEFINE changed == [lines EXCEPT ![1] = first]
<1>1. lines \in Seq(LinesOver(C)) /\ 1 \in DOMAIN lines
  BY DEF InvoicesOver
<1>2. SetFirst(invoice, m, value) = [invoice EXCEPT !.lines = changed]
  BY DEF SetFirst
<1> HIDE DEF lines
<1>3. first \in LinesOver(C)
  <2>1. lines[1] \in LinesOver(C)
    BY <1>1
  <2> DEFINE line == lines[1]
  <2> HIDE DEF line
  <2>2. line \in LinesOver(C)
    BY <2>1 DEF line
  <2>3. [line EXCEPT ![m] = value] \in LinesOver(C)
    BY <2>2 DEF LinesOver, LineTexts
  <2>4. QED
    BY <2>3 DEF line
<1> HIDE DEF first
<1>4. changed \in Seq(LinesOver(C))
  BY <1>1, <1>3
<1> HIDE DEF changed
<1>5. QED
  BY <1>2, <1>4, LinesAreSet

(* The mutators of whole lines. *)
LEMMA LineMutators ==
  ASSUME NEW invoice \in InvoicesOver(Characters), Len(invoice.lines) >= 1,
         NEW token \in Int
  PROVE  /\ VatRate(invoice) \in InvoicesOver(Characters)
         /\ AddLine(invoice, token) \in InvoicesOver(Characters)
         /\ RemoveOptionals(invoice) \in InvoicesOver(Characters)
         /\ [invoice EXCEPT !.lines = Reverse(@)] \in InvoicesOver(Characters)
<1> DEFINE L == LinesOver(Characters)
<1> DEFINE lines == invoice.lines
<1>1. /\ lines \in Seq(L) /\ DOMAIN lines = 1..Len(lines) /\ Len(lines) \in Nat
      /\ Len(lines) >= 1
  BY DEF InvoicesOver
<1>2. ASSUME NEW line \in L
      PROVE  WithoutOptionals(line) \in L
  <2>1. Absent \in Seq(Characters) /\ {} \in SUBSET Extras
    BY DEF Absent
  <2>2. QED
    BY <2>1 DEF WithoutOptionals, LinesOver
<1>3. VatRate(invoice) \in InvoicesOver(Characters)
  <2> DEFINE rate == IF Head(invoice.lines).rate = 19 THEN 7 ELSE 19
  <2> DEFINE taxed == [i \in DOMAIN lines |-> [lines[i] EXCEPT !.rate = rate]]
  <2>1. VatRate(invoice) = [invoice EXCEPT !.lines = taxed]
    BY DEF VatRate
  <2>2. rate \in Int
    OBVIOUS
  <2> HIDE DEF rate, lines
  <2>3. \A line \in L : [line EXCEPT !.rate = rate] \in L
    BY <2>2 DEF LinesOver
  <2> HIDE DEF L
  <2>4. taxed \in Seq(L)
    BY <1>1, <2>3
  <2> HIDE DEF taxed
  <2>5. QED
    BY <2>1, <2>4, LinesAreSet DEF L
<1>4. AddLine(invoice, token) \in InvoicesOver(Characters)
  <2> DEFINE bare == WithoutOptionals(Head(invoice.lines))
  <2> DEFINE added == [bare EXCEPT !.identifier = Worded("ZUSATZ", token),
                         !.quantity = Unit, !.price = Unit,
                         !.name = Worded("Zusatzposition", token)]
  <2>1. AddLine(invoice, token) = [invoice EXCEPT !.lines = Append(lines, added)]
    BY DEF AddLine
  <2>2. /\ Worded("ZUSATZ", token) \in Seq(Characters)
        /\ Worded("Zusatzposition", token) \in Seq(Characters)
    <3>1. "ZUSATZ" \in Words /\ "Zusatzposition" \in Words
      BY DEF Words
    <3>2. QED
      BY <3>1, WrittenTexts
  <2>3. Head(invoice.lines) \in L
    BY <1>1
  <2>4. bare \in L
    BY <1>2, <2>3
  <2> HIDE DEF bare
  <2>5. added \in L
    <3>1. ASSUME NEW line \in L, NEW a \in Seq(Characters), NEW b \in Seq(Characters),
                 NEW n \in Int
          PROVE  [line EXCEPT !.identifier = a, !.quantity = n, !.price = n,
                              !.name = b] \in L
      BY DEF LinesOver
    <3>2. Unit \in Int
      BY DEF Unit
    <3> HIDE DEF L
    <3>3. QED
      BY <2>2, <2>4, <3>1, <3>2
  <2> HIDE DEF added, L, lines
  <2>6. Append(lines, added) \in Seq(L)
    BY <1>1, <2>5
  <2>7. QED
    BY <2>1, <2>6, LinesAreSet DEF L
<1>5. RemoveOptionals(invoice) \in InvoicesOver(Characters)
  <2> DEFINE unnoted == SetField(invoice, "note", Absent)
  <2>1. unnoted \in InvoicesOver(Characters) /\ unnoted.lines = lines
    <3>1. Absent \in Seq(Characters) /\ "note" \in Required \cup Optional
      BY DEF Absent, Optional
    <3>2. unnoted \in InvoicesOver(Characters)
      BY <3>1, FieldsAreSet
    <3>3. unnoted.lines = lines
      BY DEF SetField, InvoicesOver
    <3>4. QED
      BY <3>2, <3>3
  <2> DEFINE bare == WithoutOptionals(lines[1])
  <2>2. RemoveOptionals(invoice)
          = [unnoted EXCEPT !.lines = [lines EXCEPT ![1] = bare]]
    <3>1. RemoveOptionals(invoice)
            = [unnoted EXCEPT !.lines[1] = WithoutOptionals(unnoted.lines[1])]
      BY DEF RemoveOptionals
    <3> HIDE DEF unnoted, lines
    <3>2. RemoveOptionals(invoice) = [unnoted EXCEPT !.lines[1] = bare]
      BY <2>1, <3>1
    <3> HIDE DEF bare
    <3>3. [unnoted EXCEPT !.lines[1] = bare]
            = [unnoted EXCEPT !.lines = [unnoted.lines EXCEPT ![1] = bare]]
      OBVIOUS
    <3>4. QED
      BY <2>1, <3>2, <3>3
  <2>3. 1 \in DOMAIN lines /\ lines[1] \in L
    BY <1>1
  <2>4. bare \in L
    BY <1>2, <2>3
  <2> HIDE DEF unnoted, bare, lines, L
  <2>5. [lines EXCEPT ![1] = bare] \in Seq(L)
    BY <1>1, <2>3, <2>4
  <2>6. QED
    BY <2>1, <2>2, <2>5, LinesAreSet DEF L
<1>6. [invoice EXCEPT !.lines = Reverse(@)] \in InvoicesOver(Characters)
  <2>1. \A D : \A s \in Seq(D) : Reverse(s) \in Seq(D)
    BY DEF Reverse
  <2>2. Reverse(lines) \in Seq(L)
    BY <1>1, <2>1
  <2>3. [invoice EXCEPT !.lines = Reverse(@)]
          = [invoice EXCEPT !.lines = Reverse(lines)]
    OBVIOUS
  <2> DEFINE reversed == Reverse(lines)
  <2> HIDE DEF reversed
  <2>4. reversed \in Seq(L)
    BY <2>2 DEF reversed
  <2> HIDE DEF L
  <2>5. [invoice EXCEPT !.lines = reversed] \in InvoicesOver(Characters)
    BY <2>4, LinesAreSet DEF L
  <2>6. QED
    BY <2>3, <2>5 DEF reversed
<1>7. QED
  BY <1>3, <1>4, <1>5, <1>6

(* Every mutator makes an invoice of an invoice that has a line            *)
(* (mutators.py:17-162).                                                   *)
LEMMA MutatedIsAnInvoice ==
  ASSUME NEW invoice \in InvoicesOver(Characters), Len(invoice.lines) >= 1,
         NEW name \in Range(MutatorOrder), NEW token \in Int
  PROVE  Mutated(invoice, name, token) \in InvoicesOver(Characters)
<1> DEFINE I == InvoicesOver(Characters)
<1>1. /\ token % 7 \in Int /\ token % 997 \in Int
      /\ (token % 28) + 1 \in Int /\ (token % 200) + 1 \in Int
      /\ ((token % 7) + 2) * (Unit \div 4) \in Int
      /\ ((token % 997) + 101) * (Unit \div 100) \in Int
  BY DEF Unit
<1>2. ASSUME NEW f \in Required \cup Optional, NEW word \in Words, NEW n \in Int
      PROVE  /\ SetField(invoice, f, Worded(word, n)) \in I
             /\ SetField(invoice, f, Mail(word, n)) \in I
             /\ SetField(invoice, f, <<Digits(n)>>) \in I
  BY WrittenTexts, FieldsAreSet
<1>3. ASSUME NEW m \in LineTexts, NEW word \in Words
      PROVE  SetFirst(invoice, m, Worded(word, token)) \in I
  <2>1. m \notin {"quantity", "price"}
    BY DEF LineTexts
  <2>2. QED
    BY <2>1, WrittenTexts, FirstIsSet
<1>4. ASSUME NEW m \in {"quantity", "price"}, NEW n \in Int
      PROVE  SetFirst(invoice, m, n) \in I
  <2>1. m \notin LineTexts
    BY DEF LineTexts
  <2>2. QED
    BY <2>1, FirstIsSet
<1>5. /\ VatRate(invoice) \in I /\ AddLine(invoice, token) \in I
      /\ RemoveOptionals(invoice) \in I
      /\ [invoice EXCEPT !.lines = Reverse(@)] \in I
  BY LineMutators
<1>6. SellerName(invoice, token) \in I
  <2>1. /\ "Musterlieferant" \in Words /\ "Musterlieferant GmbH" \in Words
        /\ "sellerTradingName" \in Required \cup Optional
        /\ "sellerName" \in Required \cup Optional
    BY DEF Words, Required, Optional
  <2>2. SetField(invoice, "sellerTradingName", Worded("Musterlieferant", token)) \in I
    BY <1>2, <2>1
  <2>3. Worded("Musterlieferant GmbH", token) \in Seq(Characters)
    BY <2>1, WrittenTexts
  <2>4. QED
    BY <2>1, <2>2, <2>3, FieldsAreSet DEF SellerName
<1>7. /\ {"RP", "LEITWEG-ID", "Nr.", "seller", "buyer", "Musterkunde", "Tage",
          "Variante", "POSITION", "Hinweis", "DE-RP", "Strasse"} \subseteq Words
      /\ {"identifier", "buyerReference", "note", "sellerEndpoint", "buyerEndpoint",
          "buyerName", "paymentTerms", "sellerIdentifier", "sellerAddress",
          "paymentDueDate"} \subseteq Required \cup Optional
      /\ {"description", "identifier", "note"} \subseteq LineTexts
  BY DEF Words, Required, Optional, LineTexts
<1>8. CASE name = "invoice-id"
  BY <1>8, <1>2, <1>7 DEF Mutated
<1>9. CASE name = "buyer-reference"
  BY <1>9, <1>2, <1>7 DEF Mutated
<1>10. CASE name = "invoice-note-unicode"
  BY <1>10, <1>2, <1>7 DEF Mutated
<1>11. CASE name = "seller-endpoint"
  BY <1>11, <1>2, <1>7 DEF Mutated
<1>12. CASE name = "buyer-endpoint"
  BY <1>12, <1>2, <1>7 DEF Mutated
<1>13. CASE name = "seller-name"
  BY <1>13, <1>6 DEF Mutated
<1>14. CASE name = "buyer-name"
  BY <1>14, <1>2, <1>7 DEF Mutated
<1>15. CASE name = "payment-terms"
  <2> DEFINE n == (token % 28) + 1
  <2>1. Mutated(invoice, name, token) = SetField(invoice, "paymentTerms", Worded("Tage", n))
    BY <1>15 DEF Mutated
  <2>2. n \in Int
    OBVIOUS
  <2> HIDE DEF n
  <2>3. QED
    BY <1>2, <1>7, <2>1, <2>2
<1>16. CASE name = "line-order"
  BY <1>16, <1>5 DEF Mutated
<1>17. CASE name = "line-description"
  BY <1>17, <1>3, <1>7 DEF Mutated
<1>18. CASE name = "line-identifier"
  BY <1>18, <1>3, <1>7 DEF Mutated
<1>19. CASE name = "quantity-scale"
  BY <1>19, <1>1, <1>4 DEF Mutated
<1>20. CASE name = "price-scale"
  BY <1>20, <1>1, <1>4 DEF Mutated
<1>21. CASE name = "vat-rate"
  BY <1>21, <1>5 DEF Mutated
<1>22. CASE name = "line-note"
  BY <1>22, <1>3, <1>7 DEF Mutated
<1>23. CASE name = "seller-identifier"
  BY <1>23, <1>2, <1>7 DEF Mutated
<1>24. CASE name = "address-variant"
  <2> DEFINE n == (token % 200) + 1
  <2>1. Mutated(invoice, name, token) = SetField(invoice, "sellerAddress", Worded("Strasse", n))
    BY <1>24 DEF Mutated
  <2>2. n \in Int
    OBVIOUS
  <2> HIDE DEF n
  <2>3. QED
    BY <1>2, <1>7, <2>1, <2>2
<1>25. CASE name = "add-line"
  BY <1>25, <1>5 DEF Mutated
<1>26. CASE name = "remove-optionals"
  BY <1>26, <1>5 DEF Mutated
<1>27. CASE name = "payment-due-date"
  <2>1. Mutated(invoice, name, token)
          = SetField(invoice, "paymentDueDate", <<Digits((token % 28) + 1)>>)
    BY <1>27 DEF Mutated
  <2>2. QED
    BY <1>1, <1>2, <1>7, <2>1
<1>28. QED
  BY <1>8, <1>9, <1>10, <1>11, <1>12, <1>13, <1>14, <1>15, <1>16, <1>17, <1>18,
     <1>19, <1>20, <1>21, <1>22, <1>23, <1>24, <1>25, <1>26, <1>27
     DEF Range, MutatorOrder

-----------------------------------------------------------------------------
(* The operations of a candidate are mutators: its primary one, then from  *)
(* index N on another one, and invoice-id unless it is one of the two.     *)
LEMMA OrderOfMutators ==
  /\ MutatorOrder \in Seq(Range(MutatorOrder)) /\ N = 20
  /\ DOMAIN MutatorOrder = 1..20 /\ Len(MutatorOrder) = 20
  /\ Range(MutatorOrder) = {MutatorOrder[i] : i \in 1..20}
  /\ "invoice-id" \in Range(MutatorOrder)
<1>1. /\ DOMAIN MutatorOrder = 1..20 /\ Len(MutatorOrder) = 20
      /\ MutatorOrder[1] = "invoice-id"
  BY DEF MutatorOrder
<1>2. MutatorOrder \in Seq(Range(MutatorOrder))
  <2>1. MutatorOrder = [i \in 1..20 |-> MutatorOrder[i]]
    BY DEF MutatorOrder
  <2> DEFINE M == Range(MutatorOrder)
  <2>2. \A i \in 1..20 : MutatorOrder[i] \in M
    BY <1>1, Zenon DEF Range
  <2> HIDE DEF M
  <2>3. \A f : f = [i \in 1..20 |-> f[i]] /\ (\A i \in 1..20 : f[i] \in M)
                => f \in Seq(M)
    OBVIOUS
  <2>4. MutatorOrder \in Seq(M)
    BY <2>1, <2>2, <2>3, Zenon
  <2>5. QED
    BY <2>4 DEF M
<1>3. QED
  BY <1>1, <1>2 DEF N, Range

(* The names of an index are two or three mutators, or one or two below N. *)
LEMMA OperationsAreMutators ==
  ASSUME NEW i \in Nat
  PROVE  /\ Primary(i) \in Range(MutatorOrder)
         /\ i >= N => Interaction(i) \in Range(MutatorOrder)
         /\ Names(i) \in Seq(Range(MutatorOrder))
         /\ Len(Names(i)) \in 1..3
         /\ Names(i)[1] = Primary(i)
         /\ i >= N => Len(Names(i)) >= 2 /\ Names(i)[2] = Interaction(i)
<1> DEFINE M == Range(MutatorOrder)
<1> DEFINE place == (i % N) + 1
<1> DEFINE others == RemoveAt(MutatorOrder, place)
<1>1. place \in 1..20 /\ (i - N) \div N \in Int
  BY OrderOfMutators
<1>2. Primary(i) \in M
  BY <1>1, OrderOfMutators DEF Primary
<1>3. Interaction(i) \in M
  <2>1. others \in Seq(M) /\ Len(others) = 19
    <3> HIDE DEF place
    <3>1. MutatorOrder \in Seq(M) /\ place \in 1..Len(MutatorOrder)
      BY <1>1, OrderOfMutators
    <3>2. others \in Seq(M) /\ Len(others) = Len(MutatorOrder) - 1
      BY <3>1, RemovedTerms, Zenon
    <3>3. QED
      BY <3>2, OrderOfMutators
  <2> DEFINE cycle == (i - N) \div N
  <2>2. Interaction(i) = others[(cycle % 19) + 1]
    <3>1. Interaction(i) = others[(cycle % Len(others)) + 1]
      BY DEF Interaction
    <3>2. QED
      BY <2>1, <3>1
  <2> HIDE DEF others, cycle
  <2>3. (cycle % 19) + 1 \in 1..19
    <3>1. cycle \in Int
      BY <1>1 DEF cycle
    <3>2. QED
      BY <3>1
  <2> DEFINE k == (cycle % 19) + 1
  <2> HIDE DEF k, M
  <2>4. \A x \in 1..19 : others[x] \in M
    <3>1. \A T : \A s \in Seq(T) : \A x \in 1..Len(s) : s[x] \in T
      OBVIOUS
    <3>2. QED
      BY <2>1, <3>1, Zenon
  <2>5. others[k] \in M
    BY <2>3, <2>4 DEF k
  <2>6. QED
    BY <2>2, <2>5 DEF k
<1> HIDE DEF M
<1>4. /\ Chosen(i) \in Seq(M) /\ Len(Chosen(i)) \in 1..2 /\ Chosen(i)[1] = Primary(i)
      /\ i >= N => Len(Chosen(i)) = 2 /\ Chosen(i)[2] = Interaction(i)
  <2>1. CASE i < N
    BY <1>2, <2>1, OrderOfMutators DEF Chosen, Alone
  <2>2. CASE i >= N
    BY <1>2, <1>3, <2>2, OrderOfMutators DEF Chosen, Alone
  <2>3. QED
    BY <2>1, <2>2, OrderOfMutators
<1>5. "invoice-id" \in M
  BY OrderOfMutators DEF M
<1> DEFINE chosen == Chosen(i)
<1>6. Names(i) \in {chosen, Append(chosen, "invoice-id")}
  BY DEF Names
<1> HIDE DEF chosen
<1>7. /\ chosen \in Seq(M) /\ Len(chosen) \in 1..2 /\ chosen[1] = Primary(i)
      /\ i >= N => Len(chosen) = 2 /\ chosen[2] = Interaction(i)
  BY <1>4 DEF chosen
<1>8. \A x \in M, c \in Seq(M) : Len(c) \in 1..2 =>
        /\ Append(c, x) \in Seq(M) /\ Len(Append(c, x)) = Len(c) + 1
        /\ Append(c, x)[1] = c[1]
        /\ Len(c) = 2 => Append(c, x)[2] = c[2]
  OBVIOUS
<1>9. CASE Names(i) = chosen
  BY <1>2, <1>3, <1>7, <1>9 DEF M
<1>10. CASE Names(i) = Append(chosen, "invoice-id")
  <2> DEFINE longer == Append(chosen, "invoice-id")
  <2>1. /\ longer \in Seq(M) /\ Len(longer) = Len(chosen) + 1
        /\ longer[1] = chosen[1]
        /\ Len(chosen) = 2 => longer[2] = chosen[2]
    BY <1>5, <1>7, <1>8
  <2>2. Names(i) = longer
    BY <1>10
  <2> HIDE DEF longer
  <2>3. Names(i) \in Seq(M) /\ Len(Names(i)) \in 1..3 /\ Names(i)[1] = Primary(i)
    <3>1. \A n \in 1..2 : n + 1 \in 1..3
      OBVIOUS
    <3>2. QED
      BY <1>7, <2>1, <2>2, <3>1, Zenon
  <2>4. i >= N => Len(Names(i)) >= 2 /\ Names(i)[2] = Interaction(i)
    BY <1>7, <2>1, <2>2
  <2>5. QED
    BY <1>2, <1>3, <2>3, <2>4 DEF M
<1>11. QED
  BY <1>6, <1>9, <1>10

(* Before each operation stands the invoice that the operations before it  *)
(* made of the seed.                                                       *)
LEMMA StagesAreMutated ==
  ASSUME NEW i \in Nat
  PROVE  /\ DOMAIN Stages(i) = 0..Len(Names(i))
         /\ Stages(i)[0] = Seed
         /\ \A k \in 1..Len(Names(i)) :
              Stages(i)[k] = Mutated(Stages(i)[k - 1], Names(i)[k], Token(i, k))
<1> DEFINE n == Len(Names(i))
<1> DEFINE Step(invoice, k) == Mutated(invoice, Names(i)[k], Token(i, k))
<1> DEFINE IsStages(f) == f = [k \in 0..n |-> IF k = 0 THEN Seed ELSE Step(f[k - 1], k)]
<1>1. Stages(i) = CHOOSE f : IsStages(f)
  BY DEF Stages
<1>2. n \in 1..3
  BY OperationsAreMutators
<1> HIDE DEF n, Step
<1>3. \E f : IsStages(f)
  <2> DEFINE one == Step(Seed, 1)
  <2> DEFINE two == Step(one, 2)
  <2> DEFINE three == Step(two, 3)
  <2> DEFINE g == [k \in 0..n |-> IF k = 0 THEN Seed ELSE IF k = 1 THEN one
                                  ELSE IF k = 2 THEN two ELSE three]
  <2>1. /\ g[0] = Seed /\ g[1] = one
        /\ n >= 2 => g[2] = two
        /\ n >= 3 => g[3] = three
    BY <1>2
  <2>2. ASSUME NEW k \in 0..n
        PROVE  g[k] = IF k = 0 THEN Seed ELSE Step(g[k - 1], k)
    <3>1. k \in {0, 1, 2, 3}
      BY <1>2
    <3>2. CASE k = 0
      BY <2>1, <3>2
    <3>3. CASE k = 1
      BY <1>2, <2>1, <3>3
    <3>4. CASE k = 2
      BY <1>2, <2>1, <3>4
    <3>5. CASE k = 3
      BY <1>2, <2>1, <3>5
    <3>6. QED
      BY <3>1, <3>2, <3>3, <3>4, <3>5
  <2>3. g = [k \in 0..n |-> g[k]]
    OBVIOUS
  <2> HIDE DEF g
  <2>4. IsStages(g)
    BY <2>2, <2>3
  <2>5. QED
    BY <2>4
<1>4. IsStages(Stages(i))
  BY <1>1, <1>3
<1>5. /\ DOMAIN Stages(i) = 0..n /\ Stages(i)[0] = Seed
      /\ \A k \in 1..n : Stages(i)[k] = Step(Stages(i)[k - 1], k)
  <2> DEFINE stages == Stages(i)
  <2> HIDE DEF stages
  <2>1. stages = [k \in 0..n |-> IF k = 0 THEN Seed ELSE Step(stages[k - 1], k)]
    BY <1>4 DEF stages
  <2>2. QED
    BY <1>2, <2>1 DEF stages
<1>6. QED
  BY <1>5 DEF n, Step

(* What was asked for is made of numbers. *)
Requested ==
  /\ request.count \in Nat /\ request.campaignSeed \in Nat
  /\ request.period \in Nat /\ request.period > 0
  /\ request.shard[1] \in Nat
  /\ request.shard[2] \in Nat /\ request.shard[2] > 0

(* An index of a candidate applies mutators to the seed, each with a       *)
(* number that is drawn for it.                                            *)
LEMMA OperationsAreTyped ==
  ASSUME Requested, NEW i \in Nat
  PROVE  /\ Seed \in InvoicesOver(Characters)
         /\ \A k \in 1..Len(Names(i)) : /\ Names(i)[k] \in Range(MutatorOrder)
                                       /\ Token(i, k) \in Int
<1> DEFINE names == Names(i)
<1> DEFINE n == Len(names)
<1>1. /\ names \in Seq(Range(MutatorOrder)) /\ n \in 1..3
      /\ \A k \in 1..n : names[k] \in Range(MutatorOrder)
  <2>1. names \in Seq(Range(MutatorOrder)) /\ n \in 1..3
    BY OperationsAreMutators
  <2> DEFINE M == Range(MutatorOrder)
  <2> HIDE DEF M, names
  <2>2. names \in Seq(M)
    BY <2>1 DEF M
  <2>3. \A k \in 1..Len(names) : names[k] \in M
    BY <2>2
  <2>4. QED
    BY <2>1, <2>3 DEF M
<1>2. ASSUME NEW k \in 1..n
      PROVE  Token(i, k) \in Int
  <2>1. \A a, b, c \in Nat : a * b + c \in Int
    OBVIOUS
  <2>2. UniqueToken(i) \in Int
    BY <2>1, RequestsAreNumbers DEF UniqueToken, Requested
  <2>3. \A a, b, c \in Nat : \A p \in Nat : p > 0 => (a + b + c) % p \in Int
    OBVIOUS
  <2>4. k \in Nat
    BY <1>1
  <2>5. Drawn(i, k) \in Int
    BY <2>3, <2>4 DEF Drawn, Requested
  <2>6. QED
    BY <2>2, <2>5 DEF Token
<1>3. Seed \in InvoicesOver(Characters)
  <2>1. STRING \subseteq Characters
    BY DEF Characters
  <2>2. \A C, D : C \subseteq D => InvoicesOver(C) \subseteq InvoicesOver(D)
    <3>1. SUFFICES ASSUME NEW C, NEW D, C \subseteq D
                   PROVE  InvoicesOver(C) \subseteq InvoicesOver(D)
      OBVIOUS
    <3>2. Seq(C) \subseteq Seq(D)
      BY <3>1
    <3>3. LinesOver(C) \subseteq LinesOver(D)
      BY <3>2 DEF LinesOver
    <3>4. Seq(LinesOver(C)) \subseteq Seq(LinesOver(D))
      BY <3>3
    <3>5. [Required \cup Optional -> Seq(C)] \subseteq [Required \cup Optional -> Seq(D)]
      BY <3>2
    <3>6. QED
      BY <3>4, <3>5 DEF InvoicesOver
  <2>3. QED
    BY <2>1, <2>2, SeedIsAnInvoice
<1>4. QED
  BY <1>1, <1>2, <1>3 DEF names, n

(* An index of a candidate draws numbers, so that every stage of it is an  *)
(* invoice when none of them is refused.                                   *)
LEMMA GeneratedIsValid ==
  ASSUME Requested, NEW i \in Nat,
         \A k \in DOMAIN Stages(i) : Valid(Stages(i)[k])
  PROVE  /\ Stages(i)[Len(Names(i))] \in ValidInvoices
         /\ \A k \in 0..Len(Names(i)) : Stages(i)[k] \in ValidInvoices
         /\ \A k \in 1..Len(Names(i)) : /\ Names(i)[k] \in Range(MutatorOrder)
                                       /\ Token(i, k) \in Int
<1> DEFINE stages == Stages(i)
<1> DEFINE names == Names(i)
<1> DEFINE n == Len(names)
<1>1. /\ DOMAIN stages = 0..n /\ stages[0] = Seed
      /\ \A k \in 1..n : stages[k] = Mutated(stages[k - 1], names[k], Token(i, k))
  BY StagesAreMutated
<1>2. n \in 1..3
  BY OperationsAreMutators
<1>3. \A k \in 1..n : names[k] \in Range(MutatorOrder) /\ Token(i, k) \in Int
  BY OperationsAreTyped
<1>4. ASSUME NEW invoice \in InvoicesOver(Characters), Valid(invoice)
      PROVE  Len(invoice.lines) >= 1
  BY <1>4, OneRate
<1>5. Seed \in InvoicesOver(Characters)
  BY OperationsAreTyped
<1> HIDE DEF stages, names, n
<1>6. \A k \in 0..n : Valid(stages[k])
  BY <1>1 DEF stages
<1>7. ASSUME NEW k \in 1..n, stages[k - 1] \in InvoicesOver(Characters)
      PROVE  stages[k] \in InvoicesOver(Characters)
  <2>1. k - 1 \in 0..n
    BY <1>2
  <2>2. Len(stages[k - 1].lines) >= 1
    BY <1>4, <1>6, <1>7, <2>1
  <2>3. names[k] \in Range(MutatorOrder) /\ Token(i, k) \in Int
    BY <1>3
  <2>4. Mutated(stages[k - 1], names[k], Token(i, k)) \in InvoicesOver(Characters)
    BY <1>7, <2>2, <2>3, MutatedIsAnInvoice
  <2>5. QED
    BY <1>1, <2>4
<1>8. /\ stages[1] \in InvoicesOver(Characters)
      /\ n >= 2 => stages[2] \in InvoicesOver(Characters)
      /\ n >= 3 => stages[3] \in InvoicesOver(Characters)
  <2>1. /\ 1 \in 1..n /\ 1 - 1 = 0
        /\ n >= 2 => 2 \in 1..n /\ 2 - 1 = 1
        /\ n >= 3 => 3 \in 1..n /\ 3 - 1 = 2
    BY <1>2
  <2>2. stages[1] \in InvoicesOver(Characters)
    BY <1>1, <1>5, <1>7, <2>1
  <2>3. n >= 2 => stages[2] \in InvoicesOver(Characters)
    BY <1>7, <2>1, <2>2
  <2>4. n >= 3 => stages[3] \in InvoicesOver(Characters)
    BY <1>2, <1>7, <2>1, <2>3
  <2>5. QED
    BY <2>2, <2>3, <2>4
<1>9. \A k \in 0..n : stages[k] \in ValidInvoices
  <2>1. \A k \in 0..n : k \in {0, 1, 2, 3}
    BY <1>2
  <2>2. \A k \in 0..n : stages[k] \in InvoicesOver(Characters)
    BY <1>1, <1>2, <1>5, <1>8, <2>1
  <2>3. QED
    BY <1>6, <2>2 DEF ValidInvoices
<1>10. stages[n] \in ValidInvoices
  BY <1>2, <1>9
<1>11. QED
  BY <1>2, <1>3, <1>9, <1>10 DEF stages, n, names

-----------------------------------------------------------------------------
(* The candidates are those of the indices of the shard, in order and      *)
(* below the count, each of them a valid invoice with the operations of    *)
(* its index; they are complete once generation has ended.                 *)
Candidate ==
  [index : Nat, invoice : ValidInvoices, operations : Seq(Range(MutatorOrder))]
OfShard ==
  \A k \in 1..Len(candidates) :
    /\ candidates[k].index = request.shard[1] + (k - 1) * request.shard[2]
    /\ candidates[k].index < request.count
    /\ candidates[k].operations = Names(candidates[k].index)
CandidatesInv ==
  /\ Requested
  /\ candidates \in Seq(Candidate)
  /\ index = request.shard[1] + Len(candidates) * request.shard[2]
  /\ OfShard
  /\ phase \notin {"generating", "ModelError", "RuntimeError"} => index >= request.count

(* No candidate is the candidates of no index.                             *)
LEMMA CandidatesInit ==
  ASSUME Init
  PROVE  CandidatesInv
<1>1. Requested
  <2>1. /\ request.count \in Counts /\ request.campaignSeed \in CampaignSeeds
        /\ request.period \in Periods /\ request.shard \in Shards
    BY DEF Init
  <2>2. \A n \in Nat \ {0} : n \in Nat /\ n > 0
    OBVIOUS
  <2>3. request.period \in Nat \ {0}
    BY <2>1, RequestsAreNumbers
  <2>4. request.shard[1] \in Nat /\ request.shard[2] \in Nat \ {0}
    BY <2>1, RequestsAreNumbers
  <2>5. request.count \in Nat /\ request.campaignSeed \in Nat
    BY <2>1, RequestsAreNumbers
  <2>6. QED
    BY <2>2, <2>3, <2>4, <2>5 DEF Requested
<1>2. candidates = <<>> /\ phase = "generating" /\ index = request.shard[1]
  BY DEF Init
<1>3. candidates \in Seq(Candidate) /\ Len(candidates) = 0
  BY <1>2
<1>4. OfShard
  BY <1>3 DEF OfShard
<1>5. \A a, b \in Nat : a = a + 0 * b
  OBVIOUS
<1>6. index = request.shard[1] + Len(candidates) * request.shard[2]
  BY <1>1, <1>2, <1>3, <1>5 DEF Requested
<1>7. QED
  BY <1>1, <1>2, <1>3, <1>4, <1>6 DEF CandidatesInv

(* Another candidate is that of the next index. *)
LEMMA CandidateAdded ==
  ASSUME CandidatesInv, Generate, candidates' # candidates
  PROVE  CandidatesInv'
<1> DEFINE invoice == Stages(index)[Len(Names(index))]
<1> DEFINE new == [index |-> index, invoice |-> invoice, operations |-> Names(index)]
<1> DEFINE n == Len(candidates)
<1> DEFINE a == request.shard[1]
<1> DEFINE b == request.shard[2]
<1>1. /\ candidates' = Append(candidates, new)
      /\ index' = index + b /\ index < request.count
      /\ phase = "generating" /\ phase' = phase /\ request' = request
      /\ \A k \in DOMAIN Stages(index) : Valid(Stages(index)[k])
  BY DEF Generate
<1>2. /\ Requested /\ a \in Nat /\ b \in Nat /\ n \in Nat
      /\ candidates \in Seq(Candidate) /\ index = a + n * b
  BY DEF CandidatesInv, Requested
<1>3. index \in Nat
  <2>1. \A x, y, z \in Nat : x + z * y \in Nat
    OBVIOUS
  <2>2. QED
    BY <1>2, <2>1, Zenon
<1>4. new \in Candidate
  <2>1. invoice \in ValidInvoices
    BY <1>1, <1>2, <1>3, GeneratedIsValid
  <2>2. Names(index) \in Seq(Range(MutatorOrder))
    BY <1>3, OperationsAreMutators
  <2> HIDE DEF invoice
  <2>3. QED
    BY <1>3, <2>1, <2>2 DEF Candidate
<1>5. new.index = index /\ new.operations = Names(index)
  OBVIOUS
<1> HIDE DEF new
<1>6. /\ candidates' \in Seq(Candidate) /\ Len(candidates') = n + 1
      /\ \A k \in 1..n : candidates'[k] = candidates[k]
      /\ candidates'[n + 1] = new
  BY <1>1, <1>2, <1>4
<1>7. index' = a + (n + 1) * b
  <2>1. \A x, y, z \in Nat : x + z * y + y = x + (z + 1) * y
    OBVIOUS
  <2> HIDE DEF a, b, n
  <2>2. QED
    BY <1>1, <1>2, <2>1, Zenon
<1>8. OfShard'
  <2>1. SUFFICES ASSUME NEW k \in 1..(n + 1)
                 PROVE  /\ candidates'[k].index = a + (k - 1) * b
                        /\ candidates'[k].index < request.count
                        /\ candidates'[k].operations = Names(candidates'[k].index)
    BY <1>1, <1>6 DEF OfShard
  <2>2. CASE k \in 1..n
    BY <1>6, <2>2 DEF CandidatesInv, OfShard
  <2>3. CASE k = n + 1
    <3>1. k - 1 = n
      BY <1>2, <2>3
    <3>2. candidates'[k] = new
      BY <1>6, <2>3
    <3> HIDE DEF a, b, n
    <3>3. new.index = a + (k - 1) * b
      BY <1>2, <1>5, <3>1, Zenon
    <3>4. QED
      BY <1>1, <1>5, <3>2, <3>3, Zenon
  <2>4. QED
    BY <1>2, <2>2, <2>3
<1>9. Requested'
  BY <1>1, <1>2 DEF Requested
<1>10. index' = request'.shard[1] + Len(candidates') * request'.shard[2]
  BY <1>1, <1>6, <1>7, Zenon
<1>11. QED
  BY <1>1, <1>6, <1>8, <1>9, <1>10 DEF CandidatesInv

(* Each step of generation and gate.                                       *)
LEMMA CandidatesInductive ==
  ASSUME CandidatesInv, [Next]_vars
  PROVE  CandidatesInv'
<1>1. ASSUME UNCHANGED <<request, index, candidates>>,
             \/ phase \notin {"generating", "ModelError", "RuntimeError"}
             \/ phase' \in {"generating", "ModelError", "RuntimeError"}
             \/ index >= request.count
      PROVE  CandidatesInv'
  BY <1>1 DEF CandidatesInv, Requested, OfShard
<1>2. CASE Generate
  <2>1. CASE candidates' = candidates
    <3>1. /\ request' = request /\ index' = index
          /\ phase' \in {"ModelError", "RuntimeError"}
      <4>1. request' = request
        BY <1>2 DEF Generate
      <4>2. \A c : Append(candidates, c) # candidates
        BY DEF CandidatesInv
      <4>3. QED
        BY <1>2, <2>1, <4>1, <4>2 DEF Generate
    <3>2. QED
      BY <1>1, <2>1, <3>1
  <2>2. QED
    BY <1>2, <2>1, CandidateAdded
<1>3. CASE Generated
  BY <1>1, <1>3 DEF Generated
<1>4. CASE CheckCoverage
  <2>1. UNCHANGED <<request, index, candidates>> /\ phase = "generated"
    BY <1>4 DEF CheckCoverage
  <2>2. QED
    BY <1>1, <2>1
<1>5. CASE ValidateBatch
  <2>1. UNCHANGED <<request, index, candidates>> /\ phase = "validating"
    BY <1>5 DEF ValidateBatch
  <2>2. QED
    BY <1>1, <2>1
<1>6. CASE Pass
  BY <1>1, <1>6 DEF Pass
<1>7. CASE UNCHANGED vars
  <2>1. UNCHANGED <<request, index, candidates>> /\ phase' = phase
    BY <1>7 DEF vars
  <2>2. QED
    BY <2>1 DEF CandidatesInv, Requested, OfShard
<1>8. QED
  BY <1>2, <1>3, <1>4, <1>5, <1>6, <1>7 DEF Next

(* Generation takes the indices of its shard, all of them and in order,    *)
(* and every candidate is a valid invoice with the operations of its index *)
(* (corpus.py:71-118).                                                     *)
THEOREM CandidatesAreOfTheShard == Spec => []CandidatesInv
<1>1. Init => CandidatesInv
  BY CandidatesInit
<1>2. CandidatesInv /\ [Next]_vars => CandidatesInv'
  BY CandidatesInductive
<1>3. QED
  BY <1>1, <1>2, PTL DEF Spec

(* The newest candidate and its reductions are valid invoices. *)
LEMMA ConsideredAreValid ==
  ASSUME CandidatesInv
  PROVE  /\ Considered \in Seq(ValidInvoices)
         /\ Fresh => /\ Last(candidates).invoice \in ValidInvoices
                     /\ OneStepReductions(Last(candidates).invoice)
                          \in Seq({r \in Smaller(Characters, Last(candidates).invoice) :
                                     Valid(r)})
<1> DEFINE invoice == Last(candidates).invoice
<1>1. CASE ~Fresh
  BY <1>1 DEF Considered
<1>2. CASE Fresh
  <2>1. Last(candidates) \in Candidate
    BY <1>2 DEF CandidatesInv, Fresh, Last
  <2>2. invoice \in ValidInvoices
    BY <2>1 DEF Candidate
  <2> HIDE DEF invoice
  <2>3. MinimalCharacter \in Characters /\ invoice \in InvoicesOver(Characters)
    BY <2>2, MinimalIsCharacter DEF Characters, ValidInvoices
  <2> DEFINE S == Smaller(Characters, invoice)
  <2>4. OneStepReductions(invoice) \in Seq({r \in S : Valid(r) /\ r # invoice})
    BY <2>3, ReductionsAreSmaller
  <2>5. \A A, B : A \subseteq B => Seq(A) \subseteq Seq(B)
    OBVIOUS
  <2>6. /\ {r \in S : Valid(r) /\ r # invoice} \subseteq {r \in S : Valid(r)}
        /\ {r \in S : Valid(r)} \subseteq ValidInvoices
    BY DEF Smaller, ValidInvoices
  <2> HIDE DEF S
  <2>7. /\ OneStepReductions(invoice) \in Seq({r \in S : Valid(r)})
        /\ OneStepReductions(invoice) \in Seq(ValidInvoices)
    BY <2>4, <2>5, <2>6
  <2>8. <<invoice>> \o OneStepReductions(invoice) \in Seq(ValidInvoices)
    BY <2>2, <2>7
  <2>9. Considered = <<invoice>> \o OneStepReductions(invoice)
    BY <1>2 DEF Considered, invoice
  <2>10. QED
    BY <2>2, <2>7, <2>8, <2>9 DEF invoice, S
<1>3. QED
  BY <1>1, <1>2

(* The totals of every candidate and of every reduction of it are right,   *)
(* whatever the seed (model.py:148-219).                                   *)
THEOREM TotalsAlwaysAgree == Spec => []TotalsAgree
<1>1. CandidatesInv => TotalsAgree
  <2>1. SUFFICES ASSUME CandidatesInv, NEW i \in DOMAIN Considered
                 PROVE  WithinHalfACent(Considered[i])
    BY DEF TotalsAgree, Throughout
  <2>2. Considered[i] \in ValidInvoices
    BY <2>1, ConsideredAreValid
  <2>3. QED
    BY <2>2, TotalsAreClose DEF ValidInvoices
<1>2. QED
  BY <1>1, CandidatesAreOfTheShard, PTL

(* Every candidate and every reduction of it can be written and read again *)
(* (model.py:357-412, 484-614).                                            *)
THEOREM DocumentsRoundTrip == Spec => []RoundTrips
<1>1. CandidatesInv => RoundTrips
  <2>1. SUFFICES ASSUME CandidatesInv, NEW i \in DOMAIN Considered
                 PROVE  ReadBack(Considered[i])
    BY DEF RoundTrips, Throughout
  <2>2. Considered[i] \in ValidInvoices
    BY <2>1, ConsideredAreValid
  <2>3. QED
    BY <2>2, DocumentsAreRead DEF ValidInvoices
<1>2. QED
  BY <1>1, CandidatesAreOfTheShard, PTL

(* Every reduction of every candidate is a valid invoice and smaller       *)
(* (shrink.py:68-83, 266-283, 328-341).                                    *)
THEOREM CandidatesReduceToSmaller == Spec => []ReductionsAreSmallerInvoices
<1>1. CandidatesInv => ReductionsAreSmallerInvoices
  <2>1. SUFFICES ASSUME CandidatesInv, Fresh,
                        NEW i \in DOMAIN OneStepReductions(Last(candidates).invoice)
                 PROVE  LET invoice == Last(candidates).invoice
                            reduced == OneStepReductions(invoice)[i]
                        IN  Valid(reduced) /\ Size(reduced) < Size(invoice)
    BY DEF ReductionsAreSmallerInvoices, Throughout
  <2> DEFINE invoice == Last(candidates).invoice
  <2> DEFINE reductions == OneStepReductions(invoice)
  <2>2. reductions \in Seq({r \in Smaller(Characters, invoice) : Valid(r)})
    BY <2>1, ConsideredAreValid
  <2> HIDE DEF reductions
  <2>3. reductions[i] \in {r \in Smaller(Characters, invoice) : Valid(r)}
    BY <2>1, <2>2 DEF reductions
  <2>4. QED
    BY <2>3 DEF Smaller, reductions
<1>2. QED
  BY <1>1, CandidatesAreOfTheShard, PTL

-----------------------------------------------------------------------------
(* Coverage.  No mutator is listed twice. *)
LEMMA MutatorsAreDistinct ==
  ASSUME NEW i \in 1..20, NEW j \in 1..20, MutatorOrder[i] = MutatorOrder[j]
  PROVE  i = j
<1>1. i \in 1..10 \/ i \in 11..20
  OBVIOUS
<1>2. \A k \in 1..20 : k \in {1, 2, 3, 4, 5, 6, 7, 8, 9, 10, 11, 12, 13, 14, 15,
                              16, 17, 18, 19, 20}
  OBVIOUS
<1>3. QED
  BY <1>2 DEF MutatorOrder

(* The two mutators of an interaction, as places in their order: the cycle *)
(* goes through the other nineteen, which are those of the order without   *)
(* the primary one.                                                        *)
LEMMA InteractionsInOrder ==
  ASSUME NEW i \in Nat, i >= 20
  PROVE  LET r == i % 20
             c == ((i - 20) \div 20) % 19
         IN  /\ r \in 0..19 /\ c \in 0..18
             /\ Primary(i) = MutatorOrder[r + 1]
             /\ Interaction(i) = MutatorOrder[IF c < r THEN c + 1 ELSE c + 2]
<1> DEFINE r == i % 20
<1> DEFINE cycle == (i - 20) \div 20
<1> DEFINE c == cycle % 19
<1> DEFINE others == RemoveAt(MutatorOrder, r + 1)
<1>1. r \in 0..19 /\ cycle \in Int
  OBVIOUS
<1>2. c \in 0..18
  <2> HIDE DEF cycle
  <2>1. QED
    BY <1>1
<1>3. Primary(i) = MutatorOrder[r + 1]
  BY OrderOfMutators DEF Primary
<1>4. /\ Len(others) = 19
      /\ \A n \in 1..19 :
           others[n] = IF n < r + 1 THEN MutatorOrder[n] ELSE MutatorOrder[n + 1]
  <2> DEFINE M == Range(MutatorOrder)
  <2> DEFINE place == r + 1
  <2>1. MutatorOrder \in Seq(M) /\ place \in 1..Len(MutatorOrder)
    BY <1>1, OrderOfMutators
  <2> HIDE DEF M, place
  <2>2. /\ Len(RemoveAt(MutatorOrder, place)) = Len(MutatorOrder) - 1
        /\ \A n \in 1..(Len(MutatorOrder) - 1) : RemoveAt(MutatorOrder, place)[n]
             = IF n < place THEN MutatorOrder[n] ELSE MutatorOrder[n + 1]
    BY <2>1, RemovedTerms, Zenon
  <2>3. Len(MutatorOrder) - 1 = 19
    BY OrderOfMutators
  <2>4. QED
    BY <2>2, <2>3 DEF place
<1>5. Interaction(i) = others[c + 1]
  BY <1>4, OrderOfMutators DEF Interaction
<1> HIDE DEF r, c, others
<1>6. c + 1 \in 1..19
  BY <1>2
<1>7. others[c + 1] = IF c + 1 < r + 1 THEN MutatorOrder[c + 1] ELSE MutatorOrder[c + 2]
  <2>1. others[c + 1] = IF c + 1 < r + 1 THEN MutatorOrder[c + 1]
                                         ELSE MutatorOrder[(c + 1) + 1]
    BY <1>4, <1>6, Zenon
  <2>2. (c + 1) + 1 = c + 2
    BY <1>2
  <2>3. QED
    BY <2>1, <2>2
<1>8. c + 1 < r + 1 <=> c < r
  BY <1>1, <1>2 DEF r
<1>9. Interaction(i) = MutatorOrder[IF c < r THEN c + 1 ELSE c + 2]
  BY <1>5, <1>7, <1>8
<1>10. r \in 0..19
  BY <1>1 DEF r
<1>11. QED
  BY <1>2, <1>3, <1>9, <1>10 DEF r, c

(* What the first count indices cover. *)
Primaries(count) == {Primary(i) : i \in 0..(count - 1)}
Interactions(count) == {<<Primary(i), Interaction(i)>> : i \in 20..(count - 1)}

(* Twenty indices cover the mutators, and no fewer do. *)
LEMMA PrimariesCovered ==
  ASSUME NEW count \in Nat
  PROVE  Primaries(count) = Range(MutatorOrder) <=> count >= 20
<1>1. \A i \in 0..19 : Primary(i) = MutatorOrder[i + 1]
  <2>1. \A i \in 0..19 : i % 20 = i
    OBVIOUS
  <2>2. QED
    BY <2>1, OrderOfMutators DEF Primary
<1>2. Primaries(count) \subseteq Range(MutatorOrder)
  BY OperationsAreMutators DEF Primaries
<1>3. ASSUME count >= 20
      PROVE  Range(MutatorOrder) \subseteq Primaries(count)
  <2>1. SUFFICES ASSUME NEW n \in 1..20
                 PROVE  MutatorOrder[n] \in Primaries(count)
    BY OrderOfMutators
  <2>2. n - 1 \in 0..19 /\ n - 1 \in 0..(count - 1) /\ (n - 1) + 1 = n
    BY <1>3
  <2>3. QED
    BY <1>1, <2>2 DEF Primaries
<1>4. ASSUME count < 20
      PROVE  MutatorOrder[count + 1] \notin Primaries(count)
  <2>1. SUFFICES ASSUME NEW i \in 0..(count - 1), Primary(i) = MutatorOrder[count + 1]
                 PROVE  FALSE
    BY DEF Primaries
  <2>2. /\ i \in 0..19 /\ i + 1 \in 1..20 /\ count + 1 \in 1..20
        /\ i + 1 # count + 1
    BY <1>4
  <2>3. MutatorOrder[i + 1] = MutatorOrder[count + 1]
    BY <1>1, <2>1, <2>2
  <2>4. QED
    BY <2>2, <2>3, MutatorsAreDistinct, Zenon
<1>5. count < 20 => MutatorOrder[count + 1] \in Range(MutatorOrder)
  <2>1. count < 20 => count + 1 \in 1..20
    OBVIOUS
  <2>2. \A n \in 1..20 : MutatorOrder[n] \in Range(MutatorOrder)
    BY OrderOfMutators
  <2>3. QED
    BY <2>1, <2>2
<1>6. QED
  BY <1>2, <1>3, <1>4, <1>5

(* Four hundred indices cover the ordered pairs of different mutators, and *)
(* no fewer do: the last one of them covers its pair alone.                *)
LEMMA InteractionsAreCovered ==
  ASSUME NEW count \in Nat
  PROVE  Interactions(count) = InteractionBuckets <=> count >= 400
<1>1. ASSUME NEW i \in 20..(count - 1)
      PROVE  <<Primary(i), Interaction(i)>> \in InteractionBuckets
  <2> DEFINE r == i % 20
  <2> DEFINE c == ((i - 20) \div 20) % 19
  <2> DEFINE b == IF c < r THEN c + 1 ELSE c + 2
  <2>1. i \in Nat /\ i >= 20
    OBVIOUS
  <2>2. /\ r \in 0..19 /\ c \in 0..18
        /\ Primary(i) = MutatorOrder[r + 1] /\ Interaction(i) = MutatorOrder[b]
    BY <2>1, InteractionsInOrder
  <2> HIDE DEF r, c
  <2>3. r + 1 \in 1..20 /\ b \in 1..20 /\ r + 1 # b
    BY <2>2
  <2> HIDE DEF b
  <2>4. Primary(i) # Interaction(i)
    BY <2>2, <2>3, MutatorsAreDistinct, Zenon
  <2>5. Primary(i) \in Range(MutatorOrder) /\ Interaction(i) \in Range(MutatorOrder)
    BY <2>2, <2>3, OrderOfMutators
  <2>6. QED
    BY <2>4, <2>5 DEF InteractionBuckets
<1>2. ASSUME count >= 400, NEW a \in 1..20, NEW b \in 1..20, a # b
      PROVE  <<MutatorOrder[a], MutatorOrder[b]>> \in Interactions(count)
  <2> DEFINE c == IF b < a THEN b - 1 ELSE b - 2
  <2> DEFINE i == 20 * (c + 1) + (a - 1)
  <2>1. c \in 0..18 /\ a - 1 \in 0..19
    BY <1>2
  <2>2. (IF c < a - 1 THEN c + 1 ELSE c + 2) = b /\ (a - 1) + 1 = a
    BY <1>2
  <2> HIDE DEF c
  <2>3. i \in 20..399 /\ i % 20 = a - 1 /\ (i - 20) \div 20 = c
    BY <2>1
  <2>4. c % 19 = c
    BY <2>1
  <2> HIDE DEF i
  <2>5. i \in Nat /\ i >= 20 /\ i \in 20..(count - 1)
    BY <1>2, <2>3
  <2>6. Primary(i) = MutatorOrder[a] /\ Interaction(i) = MutatorOrder[b]
    BY <2>2, <2>3, <2>4, <2>5, InteractionsInOrder
  <2>7. QED
    BY <2>5, <2>6 DEF Interactions
<1>3. ASSUME count < 400
      PROVE  <<MutatorOrder[20], MutatorOrder[19]>> \notin Interactions(count)
  <2>1. SUFFICES ASSUME NEW i \in 20..(count - 1),
                        Primary(i) = MutatorOrder[20], Interaction(i) = MutatorOrder[19]
                 PROVE  FALSE
    BY DEF Interactions
  <2> DEFINE r == i % 20
  <2> DEFINE c == ((i - 20) \div 20) % 19
  <2> DEFINE b == IF c < r THEN c + 1 ELSE c + 2
  <2>2. i \in Nat /\ i >= 20 /\ i \in 20..398
    BY <1>3
  <2>3. r = 19 => c <= 17
    <3> DEFINE q == i \div 20
    <3>1. i = 20 * q + r /\ q \in Int /\ r \in 0..19
      BY <2>2
    <3>2. r = 19 => q \in 1..18
      BY <2>2, <3>1
    <3>3. (i - 20) \div 20 = q - 1
      BY <2>2
    <3>4. \A x \in 1..18 : (x - 1) % 19 <= 17
      OBVIOUS
    <3> HIDE DEF q
    <3>5. QED
      BY <3>2, <3>3, <3>4
  <2>4. /\ r \in 0..19 /\ c \in 0..18
        /\ Primary(i) = MutatorOrder[r + 1] /\ Interaction(i) = MutatorOrder[b]
    BY <2>2, InteractionsInOrder
  <2> HIDE DEF r, c
  <2>5. r + 1 \in 1..20 /\ b \in 1..20 /\ 20 \in 1..20 /\ 19 \in 1..20
    BY <2>4
  <2> HIDE DEF b
  <2>6. r + 1 = 20 /\ b = 19
    BY <2>1, <2>4, <2>5, MutatorsAreDistinct, Zenon
  <2>7. QED
    BY <2>3, <2>4, <2>6 DEF b
<1>4. <<MutatorOrder[20], MutatorOrder[19]>> \in InteractionBuckets
  <2>1. 20 \in 1..20 /\ 19 \in 1..20 /\ 20 # 19
    OBVIOUS
  <2>2. MutatorOrder[20] # MutatorOrder[19]
    BY <2>1, MutatorsAreDistinct, Zenon
  <2>3. QED
    BY <2>1, <2>2, OrderOfMutators DEF InteractionBuckets
<1>5. ASSUME count >= 400
      PROVE  InteractionBuckets \subseteq Interactions(count)
  <2> DEFINE M == Range(MutatorOrder)
  <2> HIDE DEF M
  <2>1. SUFFICES ASSUME NEW pair \in M \X M, pair[1] # pair[2]
                 PROVE  pair \in Interactions(count)
    BY DEF InteractionBuckets, M
  <2>2. PICK a \in 1..20 : pair[1] = MutatorOrder[a]
    BY <2>1, OrderOfMutators DEF M
  <2>3. PICK b \in 1..20 : pair[2] = MutatorOrder[b]
    BY <2>1, OrderOfMutators DEF M
  <2>4. pair = <<MutatorOrder[a], MutatorOrder[b]>> /\ a # b
    BY <2>1, <2>2, <2>3
  <2>5. QED
    BY <1>2, <1>5, <2>4
<1>6. Interactions(count) \subseteq InteractionBuckets
  BY <1>1 DEF Interactions
<1>7. QED
  BY <1>3, <1>4, <1>5, <1>6

(* What the candidates of a complete corpus in one shard cover is what the *)
(* indices below the count do.                                             *)
LEMMA CorpusCovers ==
  ASSUME CandidatesInv, request.shard = <<0, 1>>, index >= request.count
  PROVE  /\ MutatorsCovered = Primaries(request.count)
         /\ InteractionsCovered = Interactions(request.count)
<1> DEFINE n == Len(candidates)
<1>1. /\ candidates \in Seq(Candidate) /\ n \in Nat /\ request.count \in Nat
      /\ DOMAIN candidates = 1..n
  BY DEF CandidatesInv, Requested
<1>2. index = n
  <2>1. \A x \in Nat : 0 + x * 1 = x
    OBVIOUS
  <2>2. request.shard[1] = 0 /\ request.shard[2] = 1
    OBVIOUS
  <2>3. index = 0 + n * 1
    BY <2>2 DEF CandidatesInv
  <2>4. QED
    BY <1>1, <2>1, <2>3
<1>3. \A k \in 1..n : /\ candidates[k].index = k - 1 /\ k - 1 < request.count
                      /\ candidates[k].operations = Names(k - 1)
  <2>1. \A x \in Int : 0 + (x - 1) * 1 = x - 1
    OBVIOUS
  <2>2. QED
    BY <2>1 DEF CandidatesInv, OfShard
<1>4. n = request.count
  <2>1. n >= request.count
    BY <1>2
  <2>2. n > 0 => n - 1 < request.count
    BY <1>1, <1>3
  <2>3. QED
    BY <1>1, <2>1, <2>2
<1>5. \A k \in 1..n : /\ k - 1 \in 0..(n - 1) /\ k - 1 \in Nat
                      /\ candidates[k].operations[1] = Primary(k - 1)
  <2>1. \A k \in 1..n : k - 1 \in 0..(n - 1) /\ k - 1 \in Nat
    BY <1>1
  <2>2. QED
    BY <1>3, <2>1, OperationsAreMutators
<1>6. \A i \in 0..(n - 1) : i + 1 \in 1..n /\ (i + 1) - 1 = i
  BY <1>1
<1>7. Range(candidates) = {candidates[k] : k \in 1..n}
  BY <1>1 DEF Range
<1> HIDE DEF n
<1>8. MutatorsCovered = Primaries(n)
  <2>1. MutatorsCovered = {candidates[k].operations[1] : k \in 1..n}
    BY <1>7 DEF MutatorsCovered
  <2>2. {candidates[k].operations[1] : k \in 1..n} = {Primary(k - 1) : k \in 1..n}
    BY <1>5
  <2>3. {Primary(k - 1) : k \in 1..n} = {Primary(i) : i \in 0..(n - 1)}
    BY <1>5, <1>6
  <2>4. QED
    BY <2>1, <2>2, <2>3 DEF Primaries
<1>9. InteractionsCovered = Interactions(n)
  <2>1. ASSUME NEW k \in 1..n
        PROVE  /\ candidates[k].index >= N <=> k - 1 \in 20..(n - 1)
               /\ k - 1 \in 20..(n - 1) =>
                    /\ Len(candidates[k].operations) >= 2
                    /\ candidates[k].operations[2] = Interaction(k - 1)
    <3>1. k - 1 >= 20 <=> k - 1 \in 20..(n - 1)
      BY <1>1, <1>5 DEF n
    <3>2. candidates[k].index = k - 1 /\ candidates[k].operations = Names(k - 1)
      BY <1>3
    <3>3. k - 1 >= N => Len(Names(k - 1)) >= 2 /\ Names(k - 1)[2] = Interaction(k - 1)
      BY <1>5, OperationsAreMutators
    <3>4. QED
      BY <3>1, <3>2, <3>3, OrderOfMutators
  <2>2. ASSUME NEW pair \in InteractionsCovered
        PROVE  pair \in Interactions(n)
    <3>1. PICK k \in 1..n : /\ pair = <<candidates[k].operations[1],
                                        candidates[k].operations[2]>>
                            /\ candidates[k].index >= N
      BY <1>7 DEF InteractionsCovered
    <3>2. QED
      BY <1>5, <2>1, <3>1 DEF Interactions
  <2>3. ASSUME NEW i \in 20..(n - 1)
        PROVE  <<Primary(i), Interaction(i)>> \in InteractionsCovered
    <3>1. i \in 0..(n - 1)
      BY <1>1 DEF n
    <3> DEFINE c == candidates[i + 1]
    <3>2. i + 1 \in 1..n /\ (i + 1) - 1 = i /\ c \in Range(candidates)
      BY <1>6, <1>7, <3>1
    <3>3. /\ c.operations[1] = Primary(i) /\ c.operations[2] = Interaction(i)
          /\ c.index >= N /\ Len(c.operations) >= 2
      BY <1>5, <2>1, <3>2
    <3> HIDE DEF c
    <3>4. QED
      BY <3>2, <3>3 DEF InteractionsCovered
  <2>4. QED
    BY <2>2, <2>3 DEF Interactions
<1>10. QED
  BY <1>4, <1>8, <1>9

(* The gate tells a complete corpus by what it covers. *)
CoverageInv ==
  phase \in {"interactions not covered", "mutators not covered",
             "validating", "rejected", "passed"} =>
    /\ request.shard = <<0, 1>>
    /\ phase = "mutators not covered" <=> MutatorsCovered # Range(MutatorOrder)
    /\ phase = "interactions not covered"
         <=> /\ MutatorsCovered = Range(MutatorOrder)
             /\ InteractionsCovered # InteractionBuckets

(* Once the gate has compared, the candidates stay as they are.            *)
LEMMA CoverageInductive ==
  ASSUME CoverageInv, [Next]_vars
  PROVE  CoverageInv'
<1>1. ASSUME UNCHANGED <<request, candidates>>
      PROVE  /\ UNCHANGED MutatorsCovered /\ UNCHANGED InteractionsCovered
             /\ UNCHANGED InteractionBuckets
  BY <1>1 DEF MutatorsCovered, InteractionsCovered, InteractionBuckets
<1>2. CASE Generate
  BY <1>2 DEF Generate, CoverageInv
<1>3. CASE Generated
  BY <1>3 DEF Generated, CoverageInv
<1>4. CASE CheckCoverage
  <2>1. UNCHANGED <<request, candidates>> /\ request.shard = <<0, 1>>
    BY <1>4 DEF CheckCoverage
  <2>2. \/ /\ MutatorsCovered # Range(MutatorOrder)
           /\ phase' = "mutators not covered"
        \/ /\ MutatorsCovered = Range(MutatorOrder)
           /\ InteractionsCovered # InteractionBuckets
           /\ phase' = "interactions not covered"
        \/ /\ MutatorsCovered = Range(MutatorOrder)
           /\ InteractionsCovered = InteractionBuckets
           /\ phase' = "validating"
    BY <1>4 DEF CheckCoverage
  <2>3. QED
    BY <1>1, <2>1, <2>2 DEF CoverageInv
<1>5. CASE ValidateBatch
  <2>1. /\ UNCHANGED <<request, candidates>> /\ phase = "validating"
        /\ phase' \in {"validating", "rejected"}
    BY <1>5 DEF ValidateBatch
  <2>2. QED
    BY <1>1, <2>1 DEF CoverageInv
<1>6. CASE Pass
  <2>1. UNCHANGED <<request, candidates>> /\ phase = "validating" /\ phase' = "passed"
    BY <1>6 DEF Pass
  <2>2. QED
    BY <1>1, <2>1 DEF CoverageInv
<1>7. CASE UNCHANGED vars
  <2>1. UNCHANGED <<request, candidates, phase>>
    BY <1>7 DEF vars
  <2>2. QED
    BY <1>1, <2>1 DEF CoverageInv
<1>8. QED
  BY <1>2, <1>3, <1>4, <1>5, <1>6, <1>7 DEF Next

(* The gate finds every ordered pair of mutators exactly in a corpus of    *)
(* N * N candidates or more, and every mutator in one of N or more,        *)
(* whatever the seed (corpus.py:83-88, gates.py:97-106).                   *)
THEOREM CoverageIsAlwaysExact == Spec => []CoverageIsExact
<1>1. Init => CoverageInv
  BY DEF Init, CoverageInv
<1>2. CoverageInv /\ [Next]_vars => CoverageInv'
  BY CoverageInductive
<1>3. CandidatesInv /\ CoverageInv => CoverageIsExact
  <2>1. SUFFICES ASSUME CandidatesInv, CoverageInv,
                        phase \in {"interactions not covered", "mutators not covered",
                                   "validating", "rejected", "passed"}
                 PROVE  /\ phase = "mutators not covered" <=> request.count < N
                        /\ phase = "interactions not covered"
                             <=> request.count \in N..(N * N - 1)
    BY DEF CoverageIsExact
  <2> DEFINE count == request.count
  <2>2. count \in Nat /\ index >= count /\ request.shard = <<0, 1>>
    BY <2>1 DEF CandidatesInv, Requested, CoverageInv
  <2>3. /\ MutatorsCovered = Primaries(count)
        /\ InteractionsCovered = Interactions(count)
    BY <2>1, <2>2, CorpusCovers
  <2> HIDE DEF count
  <2>4. MutatorsCovered = Range(MutatorOrder) <=> count >= 20
    BY <2>2, <2>3, PrimariesCovered
  <2>5. InteractionsCovered = InteractionBuckets <=> count >= 400
    BY <2>2, <2>3, InteractionsAreCovered
  <2>6. N = 20 /\ N * N - 1 = 399
    BY OrderOfMutators
  <2>7. /\ phase = "mutators not covered" <=> ~(count >= 20)
        /\ phase = "interactions not covered" <=> count >= 20 /\ ~(count >= 400)
    BY <2>1, <2>4, <2>5 DEF CoverageInv
  <2>8. /\ ~(count >= 20) <=> count < 20
        /\ count >= 20 /\ ~(count >= 400) <=> count \in 20..399
    BY <2>2
  <2>9. QED
    BY <2>6, <2>7, <2>8 DEF count
<1>4. QED
  BY <1>1, <1>2, <1>3, CandidatesAreOfTheShard, PTL DEF Spec

-----------------------------------------------------------------------------
(* Identifiers.  Only invoice-id changes the identifier of an invoice. *)
LEMMA IdentifierIsKept ==
  ASSUME NEW invoice \in InvoicesOver(Characters), Len(invoice.lines) >= 1,
         NEW name \in Range(MutatorOrder), NEW token \in Int
  PROVE  Mutated(invoice, name, token).header["identifier"]
           = IF name = "invoice-id" THEN Worded("RP", token)
                                    ELSE invoice.header["identifier"]
<1> DEFINE Kept(v) == v.header["identifier"] = invoice.header["identifier"]
<1>1. /\ "header" \in DOMAIN invoice /\ "lines" \in DOMAIN invoice
      /\ "identifier" \in DOMAIN invoice.header
  BY DEF InvoicesOver, Required
<1>2. ASSUME NEW f, NEW t, f # "identifier"
      PROVE  Kept(SetField(invoice, f, t))
  BY <1>1, <1>2 DEF SetField
<1>3. ASSUME NEW m, NEW value
      PROVE  Kept(SetFirst(invoice, m, value))
  BY <1>1 DEF SetFirst
<1>4. ASSUME NEW lines
      PROVE  Kept([invoice EXCEPT !.lines = lines])
  BY <1>1
<1>5. /\ Kept([invoice EXCEPT !.lines = Reverse(@)])
      /\ Kept(VatRate(invoice)) /\ Kept(AddLine(invoice, token))
  BY <1>4 DEF VatRate, AddLine
<1>6. Kept(RemoveOptionals(invoice))
  <2> DEFINE unnoted == SetField(invoice, "note", Absent)
  <2>1. Kept(unnoted)
    BY <1>2
  <2>2. "header" \in DOMAIN unnoted
    BY <1>1 DEF SetField
  <2>3. RemoveOptionals(invoice)
          = [unnoted EXCEPT !.lines[1] = WithoutOptionals(unnoted.lines[1])]
    BY DEF RemoveOptionals
  <2> HIDE DEF unnoted
  <2>4. QED
    BY <2>1, <2>2, <2>3
<1>7. Kept(SellerName(invoice, token))
  <2> DEFINE named == SetField(invoice, "sellerTradingName",
                               Worded("Musterlieferant", token))
  <2>1. Kept(named)
    BY <1>2
  <2>2. "header" \in DOMAIN named /\ "identifier" \in DOMAIN named.header
    BY <1>1 DEF SetField
  <2>3. SellerName(invoice, token)
          = [named EXCEPT !.header["sellerName"] = Worded("Musterlieferant GmbH", token)]
    BY DEF SellerName, SetField
  <2> HIDE DEF named
  <2>4. QED
    BY <2>1, <2>2, <2>3
<1> HIDE DEF Kept
<1>8. CASE name = "invoice-id"
  BY <1>1, <1>8 DEF Mutated, SetField
<1>9. name \in {"buyer-reference", "invoice-note-unicode", "seller-endpoint",
               "buyer-endpoint", "buyer-name", "payment-terms", "seller-identifier",
               "address-variant", "payment-due-date"}
        => Kept(Mutated(invoice, name, token))
  BY <1>2 DEF Mutated
<1>10. name \in {"line-order", "line-description", "line-identifier", "quantity-scale",
                "price-scale", "line-note"}
        => Kept(Mutated(invoice, name, token))
  BY <1>3, <1>5 DEF Mutated
<1>11. name \in {"seller-name", "vat-rate", "add-line", "remove-optionals"}
        => Kept(Mutated(invoice, name, token))
  BY <1>5, <1>6, <1>7 DEF Mutated
<1>12. name # "invoice-id" => Kept(Mutated(invoice, name, token))
  BY <1>9, <1>10, <1>11 DEF Range, MutatorOrder
<1>13. QED
  BY <1>8, <1>12 DEF Kept

(* A candidate has the identifier made from its own index, whatever is     *)
(* applied to it afterwards.                                               *)
LEMMA GeneratedIdentifier ==
  ASSUME Requested, NEW i \in Nat,
         \A k \in DOMAIN Stages(i) : Valid(Stages(i)[k])
  PROVE  Stages(i)[Len(Names(i))].header["identifier"] = Worded("RP", UniqueToken(i))
<1> DEFINE stages == Stages(i)
<1> DEFINE names == Names(i)
<1> DEFINE n == Len(names)
<1> DEFINE Right(k) == stages[k].header["identifier"] = Worded("RP", UniqueToken(i))
<1>1. /\ n \in 1..3
      /\ \A k \in 1..n : stages[k] = Mutated(stages[k - 1], names[k], Token(i, k))
  BY OperationsAreMutators, StagesAreMutated
<1>2. /\ \A k \in 0..n : stages[k] \in ValidInvoices
      /\ \A k \in 1..n : names[k] \in Range(MutatorOrder) /\ Token(i, k) \in Int
  BY GeneratedIsValid
<1>3. PICK p \in 1..n : names[p] = "invoice-id"
  <2>1. \A c : "invoice-id" \in Range(Append(c, "invoice-id"))
               \/ ~\E S : c \in Seq(S)
    BY DEF Range
  <2> DEFINE M == Range(MutatorOrder)
  <2>2. Chosen(i) \in Seq(M) \/ "invoice-id" \in Range(names)
    <3>1. Primary(i) \in M /\ (i >= N => Interaction(i) \in M) /\ N = 20
      BY OperationsAreMutators, OrderOfMutators
    <3> HIDE DEF M
    <3>2. QED
      BY <3>1 DEF Chosen, Alone
  <2>3. "invoice-id" \in Range(names)
    BY <2>1, <2>2 DEF Names
  <2>4. names \in Seq(M)
    BY OperationsAreMutators
  <2> HIDE DEF M, names
  <2>5. QED
    BY <2>3, <2>4 DEF Range
<1> HIDE DEF stages, names, n
<1>4. ASSUME NEW k \in 1..n
      PROVE  /\ names[k] = "invoice-id" => Right(k)
             /\ Right(k - 1) => Right(k)
  <2>1. k - 1 \in 0..n
    BY <1>1
  <2>2. stages[k - 1] \in InvoicesOver(Characters) /\ Len(stages[k - 1].lines) >= 1
    BY <1>2, <2>1, OneRate DEF ValidInvoices
  <2>3. stages[k].header["identifier"]
          = IF names[k] = "invoice-id" THEN Worded("RP", Token(i, k))
                                       ELSE stages[k - 1].header["identifier"]
    BY <1>1, <1>2, <2>2, IdentifierIsKept
  <2>4. names[k] = "invoice-id" => Token(i, k) = UniqueToken(i)
    BY DEF Token, names
  <2>5. QED
    BY <2>3, <2>4
<1> HIDE DEF Right
<1>5. /\ n >= 2 /\ Right(1) => Right(2)
      /\ n >= 3 /\ Right(2) => Right(3)
  <2>1. 2 - 1 = 1 /\ 3 - 1 = 2
    OBVIOUS
  <2>2. (n >= 2 => 2 \in 1..n) /\ (n >= 3 => 3 \in 1..n)
    BY <1>1
  <2>3. QED
    BY <1>4, <2>1, <2>2
<1>6. Right(p)
  BY <1>3, <1>4
<1>7. p \in {1, 2, 3} /\ n \in {1, 2, 3} /\ p <= n
  BY <1>1, <1>3
<1>8. Right(n)
  BY <1>5, <1>6, <1>7
<1>9. QED
  BY <1>8 DEF Right, stages, names, n

(* Every candidate has the identifier made from its index. *)
IdentifiersInv ==
  \A k \in 1..Len(candidates) :
    candidates[k].invoice.header["identifier"]
      = Worded("RP", UniqueToken(candidates[k].index))

(* Each step of generation and gate.                                       *)
LEMMA IdentifiersInductive ==
  ASSUME CandidatesInv, IdentifiersInv, [Next]_vars
  PROVE  IdentifiersInv'
<1>1. ASSUME UNCHANGED <<request, candidates>>
      PROVE  IdentifiersInv'
  BY <1>1 DEF IdentifiersInv, UniqueToken
<1>2. CASE Generate /\ candidates' # candidates
  <2> DEFINE invoice == Stages(index)[Len(Names(index))]
  <2> DEFINE new == [index |-> index, invoice |-> invoice, operations |-> Names(index)]
  <2>1. /\ candidates' = Append(candidates, new) /\ request' = request
        /\ \A k \in DOMAIN Stages(index) : Valid(Stages(index)[k])
    BY <1>2 DEF Generate
  <2>2. /\ Requested /\ candidates \in Seq(Candidate) /\ index \in Nat
    <3>1. \A x, y, z \in Nat : x + z * y \in Nat
      OBVIOUS
    <3>2. /\ request.shard[1] \in Nat /\ request.shard[2] \in Nat
          /\ Len(candidates) \in Nat
      BY DEF CandidatesInv, Requested
    <3>3. index = request.shard[1] + Len(candidates) * request.shard[2]
      BY DEF CandidatesInv
    <3>4. index \in Nat
      BY <3>1, <3>2, <3>3, Zenon
    <3>5. QED
      BY <3>4 DEF CandidatesInv
  <2>3. invoice.header["identifier"] = Worded("RP", UniqueToken(index))
    BY <2>1, <2>2, GeneratedIdentifier
  <2>4. new.invoice = invoice /\ new.index = index
    OBVIOUS
  <2> HIDE DEF new, invoice
  <2>5. /\ Len(candidates') = Len(candidates) + 1 /\ Len(candidates) \in Nat
        /\ \A k \in 1..Len(candidates) : candidates'[k] = candidates[k]
        /\ candidates'[Len(candidates) + 1] = new
    BY <2>1, <2>2
  <2>6. \A k \in 1..(Len(candidates) + 1) :
          candidates'[k].invoice.header["identifier"]
            = Worded("RP", UniqueToken(candidates'[k].index))
    <3>1. SUFFICES ASSUME NEW k \in 1..(Len(candidates) + 1)
                   PROVE  candidates'[k].invoice.header["identifier"]
                            = Worded("RP", UniqueToken(candidates'[k].index))
      OBVIOUS
    <3>2. k \in 1..Len(candidates) \/ k = Len(candidates) + 1
      BY <2>5
    <3>3. QED
      BY <2>3, <2>4, <2>5, <3>2 DEF IdentifiersInv
  <2>7. \A k : UniqueToken(k)' = UniqueToken(k)
    BY <2>1 DEF UniqueToken
  <2>8. QED
    BY <2>5, <2>6, <2>7 DEF IdentifiersInv
<1>3. CASE Generate /\ candidates' = candidates
  BY <1>1, <1>3 DEF Generate
<1>4. CASE ValidateBatch
  <2>1. UNCHANGED <<request, candidates>>
    BY <1>4 DEF ValidateBatch
  <2>2. QED
    BY <1>1, <2>1
<1>5. CASE Generated \/ CheckCoverage \/ Pass \/ UNCHANGED vars
  BY <1>1, <1>5 DEF Generated, CheckCoverage, Pass, vars
<1>6. QED
  BY <1>2, <1>3, <1>4, <1>5 DEF Next

(* Every candidate keeps the identifier made from its own index, whatever  *)
(* was applied after it and whatever the seed (corpus.py:97-105).          *)
THEOREM IdentifiersAreKept == Spec => []IdentifiersInv
<1>1. Init => IdentifiersInv
  BY DEF Init, IdentifiersInv
<1>2. CandidatesInv /\ IdentifiersInv /\ [Next]_vars => IdentifiersInv'
  BY IdentifiersInductive
<1>3. QED
  BY <1>1, <1>2, CandidatesAreOfTheShard, PTL DEF Spec

(* Generation never finds a candidate it has already, nor the seed, if     *)
(* different numbers are written differently and the seed has none of the  *)
(* identifiers that candidates get (corpus.py:102-104).                    *)
THEOREM CandidatesNeverCollide ==
  ASSUME \A m, n \in Nat : Digits(m) = Digits(n) => m = n,
         \A n \in Nat : Seed.header["identifier"] # Worded("RP", n)
  PROVE  Spec => [](phase # "RuntimeError")
<1>1. Init => phase # "RuntimeError"
  BY DEF Init
<1>2. ASSUME CandidatesInv, IdentifiersInv, Generate, phase' = "RuntimeError"
      PROVE  FALSE
  <2> DEFINE invoice == Stages(index)[Len(Names(index))]
  <2> DEFINE a == request.shard[1]
  <2> DEFINE b == request.shard[2]
  <2> DEFINE s == request.campaignSeed * Stride
  <2>1. /\ Collides(invoice) /\ phase = "generating"
        /\ \A k \in DOMAIN Stages(index) : Valid(Stages(index)[k])
    BY <1>2 DEF Generate
  <2>2. /\ Requested /\ candidates \in Seq(Candidate) /\ Len(candidates) \in Nat
        /\ a \in Nat /\ b \in Nat /\ b > 0 /\ index = a + Len(candidates) * b
    BY <1>2 DEF CandidatesInv, Requested
  <2>3. s \in Nat
    <3>1. \A x, y \in Nat : x * y \in Nat
      OBVIOUS
    <3>2. QED
      BY <2>2, <3>1, RequestsAreNumbers DEF Requested
  <2>4. \A x, y, z \in Nat : x + z * y \in Nat
    OBVIOUS
  <2>5. index \in Nat
    BY <2>2, <2>4, Zenon
  <2>6. invoice.header["identifier"] = Worded("RP", UniqueToken(index))
    BY <2>1, <2>2, <2>5, GeneratedIdentifier
  <2>7. \A k : UniqueToken(k) = s + k
    BY DEF UniqueToken
  <2>8. \A k \in Nat : UniqueToken(k) \in Nat
    BY <2>3, <2>7
  <2> HIDE DEF invoice, s
  <2>9. invoice # Seed
    BY <2>5, <2>6, <2>8
  <2>10. PICK k \in 1..Len(candidates) : candidates[k].invoice = invoice
    BY <2>1, <2>2, <2>9 DEF Collides, Range
  <2>11. /\ candidates[k].index \in Nat
         /\ candidates[k].index = a + (k - 1) * b
         /\ k - 1 \in Nat /\ k - 1 < Len(candidates)
    <3>1. candidates[k] \in Candidate
      BY <2>2, <2>10
    <3>2. candidates[k].index \in Nat
      BY <3>1 DEF Candidate
    <3>3. candidates[k].index = a + (k - 1) * b
      BY <1>2 DEF CandidatesInv, OfShard
    <3>4. k - 1 \in Nat /\ k - 1 < Len(candidates)
      BY <2>2
    <3>5. QED
      BY <3>2, <3>3, <3>4
  <2>12. candidates[k].index # index
    <3>1. \A x, y, c, d \in Nat : x < y /\ d > 0 => c + x * d < c + y * d
      <4>1. SUFFICES ASSUME NEW x \in Nat, NEW y \in Nat, NEW c \in Nat, NEW d \in Nat,
                            x < y, d > 0
                     PROVE  c + x * d < c + y * d
        OBVIOUS
      <4> DEFINE e == y - x - 1
      <4>2. e \in Nat /\ y = x + e + 1
        BY <4>1
      <4>3. \A u, v, w \in Nat : (u + v + 1) * w = u * w + v * w + w /\ v * w \in Nat
        OBVIOUS
      <4>4. y * d = x * d + e * d + d /\ e * d \in Nat
        BY <4>2, <4>3
      <4> HIDE DEF e
      <4>5. x * d \in Nat
        OBVIOUS
      <4>6. \A p, q, r, t \in Nat : t = p + q + r /\ r > 0 => c + p < c + t
        OBVIOUS
      <4>7. y * d \in Nat
        OBVIOUS
      <4>8. QED
        BY <4>1, <4>4, <4>5, <4>6, <4>7
    <3> HIDE DEF a, b
    <3>2. a + (k - 1) * b < a + Len(candidates) * b
      BY <2>2, <2>11, <3>1, Zenon
    <3> DEFINE low == a + (k - 1) * b
    <3> HIDE DEF low
    <3>3. candidates[k].index = low /\ low < index
      BY <2>2, <2>11, <3>2, Zenon DEF low
    <3>4. QED
      BY <2>5, <2>11, <3>3
  <2>13. Digits(UniqueToken(candidates[k].index)) = Digits(UniqueToken(index))
    <3>1. Worded("RP", UniqueToken(candidates[k].index))
            = Worded("RP", UniqueToken(index))
      BY <1>2, <2>6, <2>10 DEF IdentifiersInv
    <3>2. QED
      BY <3>1 DEF Worded
  <2>14. UniqueToken(candidates[k].index) = UniqueToken(index)
    BY <2>5, <2>8, <2>11, <2>13
  <2>15. QED
    BY <2>3, <2>5, <2>7, <2>11, <2>12, <2>14
<1>3. ASSUME phase # "RuntimeError", phase' = "RuntimeError", [Next]_vars
      PROVE  Generate
  <2>1. CASE ValidateBatch
    <3>1. phase' \in {"validating", "rejected"}
      BY <2>1 DEF ValidateBatch
    <3>2. QED
      BY <1>3, <3>1
  <2>2. QED
    BY <1>3, <2>1 DEF Next, Generated, CheckCoverage, Pass, vars
<1>4. CandidatesInv /\ IdentifiersInv /\ phase # "RuntimeError" /\ [Next]_vars
        => (phase # "RuntimeError")'
  BY <1>2, <1>3
<1>5. QED
  BY <1>1, <1>4, CandidatesAreOfTheShard, IdentifiersAreKept, PTL DEF Spec

-----------------------------------------------------------------------------
(* Validity.  The identifiers of the lines of an invoice. *)
Identifiers(invoice) == {invoice.lines[i].identifier : i \in DOMAIN invoice.lines}

(* A text of the header that is replaced by one that is allowed leaves the *)
(* invoice valid.                                                          *)
LEMMA FieldsStayValid ==
  ASSUME NEW C, NEW invoice \in InvoicesOver(C), Valid(invoice),
         NEW f \in Required \cup Optional, NEW t \in Seq(C),
         f \in Required => t # Absent,
         f \in {"sellerEndpoint", "buyerEndpoint"} => "@" \in Range(t)
  PROVE  Valid(SetField(invoice, f, t)) /\ SetField(invoice, f, t).lines = invoice.lines
<1> DEFINE new == SetField(invoice, f, t)
<1>1. /\ new.lines = invoice.lines
      /\ \A g \in Required \cup Optional :
           new.header[g] = IF g = f THEN t ELSE invoice.header[g]
  BY DEF SetField, InvoicesOver
<1> HIDE DEF new
<1>2. \A g \in Required : new.header[g] # Absent
  BY <1>1 DEF Valid
<1>3. \A g \in {"sellerEndpoint", "buyerEndpoint"} : "@" \in Range(new.header[g])
  <2>1. {"sellerEndpoint", "buyerEndpoint"} \subseteq Required
    BY DEF Required
  <2>2. QED
    BY <1>1, <2>1, Zenon DEF Valid
<1>4. Valid(new)
  BY <1>1, <1>2, <1>3, Zenon DEF Valid
<1>5. QED
  BY <1>1, <1>4 DEF new

(* So do lines that are allowed together. *)
LEMMA LinesStayValid ==
  ASSUME NEW C, NEW invoice \in InvoicesOver(C), Valid(invoice),
         NEW lines \in Seq(LinesOver(C)), Len(lines) \in 1..100,
         \A i \in DOMAIN lines : ValidLine(lines[i]),
         DistinctIdentifiers(lines),
         NEW rate, \A i \in DOMAIN lines : lines[i].rate = rate
  PROVE  /\ Valid([invoice EXCEPT !.lines = lines])
         /\ [invoice EXCEPT !.lines = lines].lines = lines
<1> DEFINE new == [invoice EXCEPT !.lines = lines]
<1>1. new.lines = lines /\ new.header = invoice.header
  BY DEF InvoicesOver
<1> HIDE DEF new
<1>2. Cardinality({lines[i].rate : i \in DOMAIN lines}) = 1
  <2>1. 1 \in DOMAIN lines
    OBVIOUS
  <2>2. {lines[i].rate : i \in DOMAIN lines} = {rate}
    BY <2>1
  <2>3. QED
    BY <2>2, FS_Singleton
<1>3. Valid(new)
  BY <1>1, <1>2, Zenon DEF Valid
<1>4. QED
  BY <1>1, <1>3 DEF new

(* What a valid invoice says of its lines. *)
LEMMA ValidLines ==
  ASSUME NEW C, NEW invoice \in InvoicesOver(C), Valid(invoice)
  PROVE  /\ \A i \in 1..Len(invoice.lines) :
              /\ ValidLine(invoice.lines[i])
              /\ invoice.lines[i] \in LinesOver(C)
         /\ DistinctIdentifiers(invoice.lines)
         /\ Len(invoice.lines) \in 1..100
<1>1. invoice.lines \in Seq(LinesOver(C)) /\ DOMAIN invoice.lines = 1..Len(invoice.lines)
  BY OneRate
<1>2. \A S : \A s \in Seq(S) : \A i \in 1..Len(s) : s[i] \in S
  OBVIOUS
<1>3. /\ \A i \in DOMAIN invoice.lines : ValidLine(invoice.lines[i])
      /\ DistinctIdentifiers(invoice.lines) /\ Len(invoice.lines) \in 1..100
  BY Zenon DEF Valid
<1>4. QED
  BY <1>1, <1>2, <1>3, Zenon

(* And the first line, replaced by one that is allowed, of the same rate   *)
(* and with the same identifier or one that no line has.                   *)
LEMMA FirstStaysValid ==
  ASSUME NEW C, NEW invoice \in InvoicesOver(C), Valid(invoice),
         NEW first \in LinesOver(C), ValidLine(first),
         first.rate = invoice.lines[1].rate,
         \/ first.identifier = invoice.lines[1].identifier
         \/ first.identifier \notin Identifiers(invoice)
  PROVE  LET new == [invoice EXCEPT !.lines = [invoice.lines EXCEPT ![1] = first]]
         IN  /\ Valid(new)
             /\ Identifiers(new) \subseteq Identifiers(invoice) \cup {first.identifier}
             /\ Len(new.lines) = Len(invoice.lines)
<1> DEFINE lines == invoice.lines
<1> DEFINE changed == [lines EXCEPT ![1] = first]
<1>1. /\ lines \in Seq(LinesOver(C)) /\ DOMAIN lines = 1..Len(lines)
      /\ Len(lines) \in 1..100 /\ Len(lines) \in Nat /\ DistinctIdentifiers(lines)
      /\ \A i \in 1..Len(lines) : ValidLine(lines[i]) /\ lines[i].rate = Head(lines).rate
      /\ Head(lines) = lines[1]
  BY OneRate, ValidLines
<1>2. Identifiers(invoice) = {lines[i].identifier : i \in 1..Len(lines)}
  BY <1>1 DEF Identifiers
<1> HIDE DEF lines
<1>3. /\ changed \in Seq(LinesOver(C)) /\ Len(changed) = Len(lines)
      /\ DOMAIN changed = 1..Len(lines)
      /\ \A i \in 1..Len(lines) : changed[i] = IF i = 1 THEN first ELSE lines[i]
      /\ 1 \in 1..Len(lines)
  BY <1>1
<1> HIDE DEF changed
<1>4. \A i \in DOMAIN changed :
        ValidLine(changed[i]) /\ changed[i].rate = Head(lines).rate
  BY <1>1, <1>3 DEF lines
<1>5. DistinctIdentifiers(changed)
  <2>1. SUFFICES ASSUME NEW i \in 1..Len(lines), NEW j \in 1..Len(lines), i # j
                 PROVE  changed[i].identifier # changed[j].identifier
    BY <1>3 DEF DistinctIdentifiers
  <2>2. lines[i].identifier # lines[j].identifier
    BY <1>1, <2>1 DEF DistinctIdentifiers
  <2>3. /\ first.identifier = lines[1].identifier
           \/ (first.identifier # lines[i].identifier
               /\ first.identifier # lines[j].identifier)
    BY <1>2 DEF lines
  <2>4. QED
    BY <1>3, <2>1, <2>2, <2>3
<1> DEFINE new == [invoice EXCEPT !.lines = changed]
<1>6. Valid(new) /\ new.lines = changed
  <2> DEFINE rate == Head(lines).rate
  <2>1. /\ \A i \in DOMAIN changed : ValidLine(changed[i])
        /\ \A i \in DOMAIN changed : changed[i].rate = rate
        /\ Len(changed) \in 1..100 /\ changed \in Seq(LinesOver(C))
        /\ DistinctIdentifiers(changed)
    BY <1>1, <1>3, <1>4, <1>5
  <2> HIDE DEF rate, new
  <2>2. /\ Valid([invoice EXCEPT !.lines = changed])
        /\ [invoice EXCEPT !.lines = changed].lines = changed
    BY <2>1, LinesStayValid
  <2>3. QED
    BY <2>2 DEF new
<1> HIDE DEF new
<1>7. Identifiers(new) \subseteq Identifiers(invoice) \cup {first.identifier}
  <2>1. \A i \in 1..Len(lines) :
          changed[i].identifier \in Identifiers(invoice) \cup {first.identifier}
    BY <1>2, <1>3
  <2>2. Identifiers(new) = {changed[i].identifier : i \in DOMAIN changed}
    BY <1>6, Zenon DEF Identifiers
  <2>3. QED
    BY <1>3, <2>1, <2>2
<1>8. Len(new.lines) = Len(invoice.lines)
  BY <1>3, <1>6 DEF lines
<1>9. new = [invoice EXCEPT !.lines = [invoice.lines EXCEPT ![1] = first]]
  BY DEF new, changed, lines
<1>10. QED
  BY <1>6, <1>7, <1>8, <1>9, Zenon

(* A valid invoice that another one became: its lines have the identifiers *)
(* they had or those added, and are more than they were by some.           *)
StillValid(new, invoice, added, more) ==
  /\ Valid(new)
  /\ Identifiers(new) \subseteq Identifiers(invoice) \cup added
  /\ Len(new.lines) = Len(invoice.lines) + more

(* The rate of all lines, and their order, do not matter. *)
LEMMA RateAndOrder ==
  ASSUME NEW invoice \in InvoicesOver(Characters), Valid(invoice)
  PROVE  /\ StillValid(VatRate(invoice), invoice, {}, 0)
         /\ StillValid([invoice EXCEPT !.lines = Reverse(@)], invoice, {}, 0)
<1> DEFINE L == LinesOver(Characters)
<1> DEFINE lines == invoice.lines
<1>1. /\ lines \in Seq(L) /\ DOMAIN lines = 1..Len(lines)
      /\ Len(lines) \in 1..100 /\ Len(lines) \in Nat /\ DistinctIdentifiers(lines)
      /\ \A i \in 1..Len(lines) : lines[i] \in L /\ ValidLine(lines[i])
      /\ \A i \in 1..Len(lines) : lines[i].rate = Head(lines).rate
  BY OneRate, ValidLines
<1>2. Identifiers(invoice) = {lines[i].identifier : i \in 1..Len(lines)}
  BY <1>1 DEF Identifiers
<1>3. StillValid(VatRate(invoice), invoice, {}, 0)
  <2> DEFINE rate == IF Head(invoice.lines).rate = 19 THEN 7 ELSE 19
  <2> DEFINE taxed == [i \in DOMAIN lines |-> [lines[i] EXCEPT !.rate = rate]]
  <2>1. VatRate(invoice) = [invoice EXCEPT !.lines = taxed]
    BY DEF VatRate
  <2>2. rate \in Int /\ rate > 0
    OBVIOUS
  <2> HIDE DEF rate, lines
  <2>3. ASSUME NEW line \in L, ValidLine(line)
        PROVE  LET new == [line EXCEPT !.rate = rate]
               IN  /\ new \in L /\ ValidLine(new)
                   /\ new.rate = rate /\ new.identifier = line.identifier
    BY <2>2, <2>3 DEF LinesOver, ValidLine
  <2>4. /\ DOMAIN taxed = 1..Len(lines)
        /\ \A i \in 1..Len(lines) : taxed[i] = [lines[i] EXCEPT !.rate = rate]
    BY <1>1
  <2> HIDE DEF taxed
  <2>5. \A i \in 1..Len(lines) :
          /\ taxed[i] \in L /\ ValidLine(taxed[i])
          /\ taxed[i].rate = rate /\ taxed[i].identifier = lines[i].identifier
    <3> DEFINE Changed(line) == [line EXCEPT !.rate = rate]
    <3>1. \A line \in L : ValidLine(line) =>
            /\ Changed(line) \in L /\ ValidLine(Changed(line))
            /\ Changed(line).rate = rate /\ Changed(line).identifier = line.identifier
      BY <2>3
    <3>2. \A i \in 1..Len(lines) : taxed[i] = Changed(lines[i])
      BY <2>4
    <3> HIDE DEF L, Changed
    <3>3. SUFFICES ASSUME NEW i \in 1..Len(lines)
                   PROVE  /\ taxed[i] \in L /\ ValidLine(taxed[i]) /\ taxed[i].rate = rate
                          /\ taxed[i].identifier = lines[i].identifier
      OBVIOUS
    <3>4. lines[i] \in L /\ ValidLine(lines[i]) /\ taxed[i] = Changed(lines[i])
      BY <1>1, <3>2
    <3>5. QED
      BY <3>1, <3>4
  <2>6. taxed \in Seq(L) /\ Len(taxed) = Len(lines)
    <3>1. taxed = [i \in 1..Len(lines) |-> taxed[i]]
      BY <2>4 DEF taxed
    <3> HIDE DEF L
    <3>2. \A f : \A n \in Nat : f = [i \in 1..n |-> f[i]] /\ (\A i \in 1..n : f[i] \in L)
                   => f \in Seq(L) /\ Len(f) = n
      OBVIOUS
    <3>3. QED
      BY <1>1, <2>5, <3>1, <3>2
  <2>7. DistinctIdentifiers(taxed)
    BY <1>1, <2>4, <2>5, Zenon DEF DistinctIdentifiers
  <2>8. /\ \A i \in DOMAIN taxed : ValidLine(taxed[i])
        /\ \A i \in DOMAIN taxed : taxed[i].rate = rate
        /\ Len(taxed) \in 1..100 /\ taxed \in Seq(LinesOver(Characters))
        /\ DistinctIdentifiers(taxed)
    BY <1>1, <2>4, <2>5, <2>6, <2>7
  <2> DEFINE new == [invoice EXCEPT !.lines = taxed]
  <2>9. Valid(new) /\ new.lines = taxed
    BY <2>8, LinesStayValid
  <2> HIDE DEF new
  <2>10. Identifiers(new) = {taxed[i].identifier : i \in DOMAIN taxed}
    BY <2>9, Zenon DEF Identifiers
  <2>11. Identifiers(new) \subseteq Identifiers(invoice) \cup {}
    BY <1>2, <2>4, <2>5, <2>10
  <2>12. Len(new.lines) = Len(lines) + 0
    BY <1>1, <2>6, <2>9
  <2>13. VatRate(invoice) = new
    BY <2>1 DEF new
  <2>14. QED
    BY <2>9, <2>11, <2>12, <2>13, Zenon DEF StillValid, lines
<1>4. StillValid([invoice EXCEPT !.lines = Reverse(@)], invoice, {}, 0)
  <2> DEFINE turned == Reverse(lines)
  <2> DEFINE Place(i) == Len(lines) - i + 1
  <2> DEFINE new == [invoice EXCEPT !.lines = turned]
  <2>1. [invoice EXCEPT !.lines = Reverse(@)] = new
    OBVIOUS
  <2> HIDE DEF lines, L, new
  <2>2. /\ turned \in Seq(L) /\ Len(turned) = Len(lines)
        /\ DOMAIN turned = 1..Len(lines)
        /\ \A i \in 1..Len(lines) : turned[i] = lines[Place(i)]
    BY <1>1 DEF Reverse
  <2>3. /\ \A i \in 1..Len(lines) : Place(i) \in 1..Len(lines)
        /\ \A i, j \in 1..Len(lines) : i # j => Place(i) # Place(j)
    BY <1>1
  <2> HIDE DEF turned, Place
  <2>4. DistinctIdentifiers(turned)
    <3>1. SUFFICES ASSUME NEW i \in 1..Len(lines), NEW j \in 1..Len(lines), i # j
                   PROVE  turned[i].identifier # turned[j].identifier
      BY <2>2, Zenon DEF DistinctIdentifiers
    <3>2. /\ Place(i) \in DOMAIN lines /\ Place(j) \in DOMAIN lines
          /\ Place(i) # Place(j)
      BY <1>1, <2>3, <3>1
    <3>3. lines[Place(i)].identifier # lines[Place(j)].identifier
      BY <1>1, <3>2, Zenon DEF DistinctIdentifiers
    <3>4. QED
      BY <2>2, <3>3
  <2> DEFINE rate == Head(lines).rate
  <2>5. /\ \A i \in DOMAIN turned : ValidLine(turned[i])
        /\ \A i \in DOMAIN turned : turned[i].rate = rate
        /\ Len(turned) \in 1..100 /\ turned \in Seq(LinesOver(Characters))
        /\ DistinctIdentifiers(turned)
    <3> HIDE DEF rate
    <3>1. \A i \in 1..Len(lines) : ValidLine(turned[i])
      BY <1>1, <2>2, <2>3, Zenon
    <3>2. \A i \in 1..Len(lines) : turned[i].rate = rate
      BY <1>1, <2>2, <2>3, Zenon DEF rate
    <3>3. QED
      BY <1>1, <2>2, <2>4, <3>1, <3>2, Zenon DEF L
  <2> HIDE DEF rate
  <2>6. Valid(new) /\ new.lines = turned
    BY <2>5, LinesStayValid DEF new
  <2>7. Identifiers(new) = {turned[i].identifier : i \in DOMAIN turned}
    BY <2>6, Zenon DEF Identifiers
  <2>8. Identifiers(new) \subseteq Identifiers(invoice) \cup {}
    BY <1>2, <2>2, <2>3, <2>7
  <2>9. Len(new.lines) = Len(lines) + 0
    BY <1>1, <2>2, <2>6
  <2>10. QED
    BY <2>1, <2>6, <2>8, <2>9, Zenon DEF StillValid, lines
<1>5. QED
  BY <1>3, <1>4

(* A line that is added has an identifier of its own.  *)
LEMMA LineAdded ==
  ASSUME NEW invoice \in InvoicesOver(Characters), Valid(invoice), NEW token \in Int,
         Worded("ZUSATZ", token) \notin Identifiers(invoice), Len(invoice.lines) < 100
  PROVE  StillValid(AddLine(invoice, token), invoice, {Worded("ZUSATZ", token)}, 1)
<1> DEFINE L == LinesOver(Characters)
<1> DEFINE lines == invoice.lines
<1> DEFINE identifier == Worded("ZUSATZ", token)
<1> DEFINE name == Worded("Zusatzposition", token)
<1> DEFINE bare == WithoutOptionals(Head(lines))
<1> DEFINE added == [bare EXCEPT !.identifier = identifier, !.quantity = Unit,
                       !.price = Unit, !.name = name]
<1>1. /\ lines \in Seq(L) /\ DOMAIN lines = 1..Len(lines)
      /\ Len(lines) \in 1..100 /\ Len(lines) \in Nat /\ DistinctIdentifiers(lines)
      /\ \A i \in 1..Len(lines) : lines[i] \in L /\ ValidLine(lines[i])
      /\ \A i \in 1..Len(lines) : lines[i].rate = Head(lines).rate
      /\ Head(lines) = lines[1]
  BY OneRate, ValidLines
<1>2. Identifiers(invoice) = {lines[i].identifier : i \in 1..Len(lines)}
  BY <1>1 DEF Identifiers
<1>3. AddLine(invoice, token) = [invoice EXCEPT !.lines = Append(lines, added)]
  BY DEF AddLine
<1>4. /\ identifier \in Seq(Characters) /\ identifier # Absent
      /\ name \in Seq(Characters) /\ name # Absent
  <2>1. "ZUSATZ" \in Words /\ "Zusatzposition" \in Words
    BY DEF Words
  <2>2. \A a, b : <<a, b>> # <<>>
    OBVIOUS
  <2>3. QED
    BY <2>1, <2>2, WrittenTexts DEF Worded, Absent
<1> HIDE DEF identifier, name
<1>5. added \in L /\ ValidLine(added) /\ added.rate = Head(lines).rate
      /\ added.identifier = identifier
  <2> DEFINE head == Head(lines)
  <2>1. 1 \in 1..Len(lines)
    <3>1. \A n \in 1..100 : 1 \in 1..n
      OBVIOUS
    <3>2. QED
      BY <1>1, <3>1, Zenon
  <2>2. head \in L /\ ValidLine(head)
    BY <1>1, <2>1
  <2> HIDE DEF lines, head
  <2>3. Absent \in Seq(Characters) /\ {} \in SUBSET Extras
    BY DEF Absent
  <2>4. bare \in L /\ ValidLine(bare) /\ bare.rate = head.rate
    BY <2>2, <2>3 DEF WithoutOptionals, LinesOver, ValidLine, head
  <2> HIDE DEF bare
  <2>5. added \in L /\ ValidLine(added) /\ added.rate = bare.rate
        /\ added.identifier = identifier
    <3> DEFINE Renewed(line, a, b, n) ==
          [line EXCEPT !.identifier = a, !.quantity = n, !.price = n, !.name = b]
    <3>1. ASSUME NEW line \in L, NEW a \in Seq(Characters), NEW b \in Seq(Characters),
                 NEW n \in Int
          PROVE  LET new == Renewed(line, a, b, n)
                 IN  /\ new \in L /\ new.identifier = a /\ new.name = b
                     /\ new.quantity = n /\ new.price = n /\ new.rate = line.rate
      BY DEF LinesOver
    <3>2. Unit \in Int /\ Unit > 0 /\ Unit >= 0
      BY DEF Unit
    <3>3. added = Renewed(bare, identifier, name, Unit)
      OBVIOUS
    <3> HIDE DEF L, Renewed, added
    <3>4. /\ added \in L /\ added.identifier = identifier /\ added.name = name
          /\ added.quantity = Unit /\ added.price = Unit /\ added.rate = bare.rate
      <4> DEFINE IsRenewed(new, line, a, b, n) ==
            /\ new \in L /\ new.identifier = a /\ new.name = b
            /\ new.quantity = n /\ new.price = n /\ new.rate = line.rate
      <4>1. \A line \in L : \A a, b \in Seq(Characters) : \A n \in Int :
              IsRenewed(Renewed(line, a, b, n), line, a, b, n)
        BY <3>1
      <4> HIDE DEF IsRenewed
      <4>2. IsRenewed(Renewed(bare, identifier, name, Unit), bare, identifier, name, Unit)
        BY <1>4, <2>4, <4>1, <3>2, Zenon
      <4>3. QED
        BY <3>3, <4>2 DEF IsRenewed
    <3>5. ValidLine(added)
      BY <1>4, <2>4, <3>2, <3>4, Zenon DEF ValidLine
    <3>6. QED
      BY <3>4, <3>5
  <2>6. QED
    BY <2>4, <2>5 DEF head
<1> DEFINE longer == Append(lines, added)
<1> DEFINE new == [invoice EXCEPT !.lines = longer]
<1> DEFINE rate == Head(lines).rate
<1>6. identifier \notin {lines[i].identifier : i \in 1..Len(lines)}
  BY <1>2 DEF identifier
<1> HIDE DEF lines, L, added, new
<1>7. /\ longer \in Seq(L) /\ Len(longer) = Len(lines) + 1
      /\ DOMAIN longer = 1..(Len(lines) + 1)
      /\ \A i \in 1..(Len(lines) + 1) :
           longer[i] = IF i = Len(lines) + 1 THEN added ELSE lines[i]
  BY <1>1, <1>5
<1> HIDE DEF longer, rate
<1>8. ASSUME NEW i \in 1..(Len(lines) + 1), NEW j \in 1..(Len(lines) + 1), i # j
      PROVE  longer[i].identifier # longer[j].identifier
  <2>1. \A k \in 1..(Len(lines) + 1) : k = Len(lines) + 1 \/ k \in 1..Len(lines)
    BY <1>1
  <2>2. \A k, l \in 1..Len(lines) : k # l => lines[k].identifier # lines[l].identifier
    BY <1>1 DEF DistinctIdentifiers
  <2>3. \A k \in 1..Len(lines) : lines[k].identifier # added.identifier
    BY <1>5, <1>6, Zenon
  <2>4. \A k \in 1..Len(lines) : k # Len(lines) + 1
    BY <1>1
  <2>5. CASE i \in 1..Len(lines) /\ j \in 1..Len(lines)
    BY <1>7, <1>8, <2>2, <2>4, <2>5, Zenon
  <2>6. CASE i = Len(lines) + 1 /\ j \in 1..Len(lines)
    BY <1>7, <2>3, <2>4, <2>6, Zenon
  <2>7. CASE i \in 1..Len(lines) /\ j = Len(lines) + 1
    BY <1>7, <2>3, <2>4, <2>7, Zenon
  <2>8. QED
    BY <1>8, <2>1, <2>5, <2>6, <2>7, Zenon
<1>9. /\ \A i \in DOMAIN longer : ValidLine(longer[i])
      /\ \A i \in DOMAIN longer : longer[i].rate = rate
      /\ Len(longer) \in 1..100 /\ longer \in Seq(LinesOver(Characters))
      /\ DistinctIdentifiers(longer)
  <2>1. \A k \in 1..(Len(lines) + 1) : k = Len(lines) + 1 \/ k \in 1..Len(lines)
    BY <1>1
  <2>2. Len(longer) \in 1..100
    <3>1. \A n \in 1..100 : n < 100 => n + 1 \in 1..100
      OBVIOUS
    <3>2. Len(lines) < 100
      BY DEF lines
    <3>3. QED
      BY <1>1, <1>7, <3>1, <3>2
  <2>3. DistinctIdentifiers(longer)
    BY <1>7, <1>8 DEF DistinctIdentifiers
  <2>4. \A i \in 1..(Len(lines) + 1) : ValidLine(longer[i]) /\ longer[i].rate = rate
    BY <1>1, <1>5, <1>7, <2>1 DEF rate
  <2>5. QED
    BY <1>7, <2>2, <2>3, <2>4, Zenon DEF L
<1>10. Valid(new) /\ new.lines = longer
  BY <1>9, LinesStayValid DEF new
<1>11. Identifiers(new) = {longer[i].identifier : i \in DOMAIN longer}
  BY <1>10, Zenon DEF Identifiers
<1>12. Identifiers(new) \subseteq Identifiers(invoice) \cup {identifier}
  <2>1. \A k \in 1..(Len(lines) + 1) : k = Len(lines) + 1 \/ k \in 1..Len(lines)
    BY <1>1
  <2>2. \A k \in DOMAIN longer :
          longer[k].identifier \in Identifiers(invoice) \cup {identifier}
    BY <1>2, <1>5, <1>7, <2>1
  <2>3. QED
    BY <1>11, <2>2
<1>13. Len(new.lines) = Len(lines) + 1
  BY <1>7, <1>10
<1>14. AddLine(invoice, token) = new
  BY <1>3 DEF new, longer
<1>15. QED
  BY <1>10, <1>12, <1>13, <1>14, Zenon DEF StillValid, lines, identifier

(* A text of the header that is allowed changes no line. *)
LEMMA FieldAllowed ==
  ASSUME NEW invoice \in InvoicesOver(Characters), Valid(invoice),
         NEW f \in Required \cup Optional, NEW t \in Seq(Characters),
         f \in Required => t # Absent,
         f \in {"sellerEndpoint", "buyerEndpoint"} => "@" \in Range(t)
  PROVE  StillValid(SetField(invoice, f, t), invoice, {}, 0)
<1> DEFINE new == SetField(invoice, f, t)
<1>1. Valid(new) /\ new.lines = invoice.lines
  BY FieldsStayValid
<1> HIDE DEF new
<1>2. Identifiers(new) = Identifiers(invoice)
  BY <1>1, Zenon DEF Identifiers
<1>3. Len(new.lines) = Len(invoice.lines) + 0
  BY <1>1, OneRate
<1>4. QED
  BY <1>1, <1>2, <1>3 DEF StillValid, new

(* A member of the first line that is replaced by one that is allowed; an  *)
(* identifier is, if no line has it.                                       *)
LEMMA FirstAllowed ==
  ASSUME NEW invoice \in InvoicesOver(Characters), Valid(invoice),
         NEW m \in {"identifier", "note", "description", "quantity", "price"}, NEW value,
         m \in {"identifier", "note", "description"} => value \in Seq(Characters),
         m \in {"quantity", "price"} => value \in Int /\ value > 0,
         m = "identifier" => value # Absent /\ value \notin Identifiers(invoice)
  PROVE  StillValid(SetFirst(invoice, m, value), invoice,
                    IF m = "identifier" THEN {value} ELSE {}, 0)
<1> DEFINE L == LinesOver(Characters)
<1> DEFINE lines == invoice.lines
<1> DEFINE line == lines[1]
<1> DEFINE first == [line EXCEPT ![m] = value]
<1> DEFINE new == [invoice EXCEPT !.lines = [lines EXCEPT ![1] = first]]
<1>1. /\ line \in L /\ ValidLine(line) /\ Len(lines) \in Nat
      /\ line.identifier \in Identifiers(invoice)
  <2>1. \A n \in 1..100 : 1 \in 1..n
    OBVIOUS
  <2>2. DOMAIN lines = 1..Len(lines) /\ Len(lines) \in Nat /\ 1 \in 1..Len(lines)
    BY <2>1, OneRate, ValidLines, Zenon
  <2>3. line \in L /\ ValidLine(line)
    BY <2>2, ValidLines, Zenon
  <2>4. line.identifier \in Identifiers(invoice)
    BY <2>2, Zenon DEF Identifiers
  <2>5. QED
    BY <2>2, <2>3, <2>4
<1>2. SetFirst(invoice, m, value) = new
  BY DEF SetFirst
<1> HIDE DEF lines, line
<1>3. /\ first \in L /\ first.rate = line.rate /\ ValidLine(first)
      /\ first.identifier = IF m = "identifier" THEN value ELSE line.identifier
  <2>1. /\ m \in {"identifier", "note", "description"} => first \in L
        /\ m \in {"quantity", "price"} => first \in L
    BY <1>1 DEF LinesOver
  <2>2. /\ first.rate = line.rate /\ first.name = line.name
        /\ first.identifier = IF m = "identifier" THEN value ELSE line.identifier
        /\ first.quantity = IF m = "quantity" THEN value ELSE line.quantity
        /\ first.price = IF m = "price" THEN value ELSE line.price
    BY <1>1 DEF LinesOver
  <2> HIDE DEF first
  <2>3. ValidLine(first)
    <3>1. m = "identifier" => first.identifier # Absent
      BY <2>2
    <3>2. m # "identifier" => first.identifier # Absent
      BY <1>1, <2>2 DEF ValidLine
    <3>3. first.quantity > 0
      BY <1>1, <2>2 DEF ValidLine
    <3>4. first.price >= 0
      BY <1>1, <2>2 DEF ValidLine
    <3>5. QED
      BY <1>1, <2>2, <3>1, <3>2, <3>3, <3>4, Zenon DEF ValidLine
  <2>4. QED
    BY <2>1, <2>2, <2>3
<1> HIDE DEF first, new
<1>4. /\ first.rate = invoice.lines[1].rate
      /\ \/ first.identifier = invoice.lines[1].identifier
         \/ first.identifier \notin Identifiers(invoice)
  BY <1>3 DEF line, lines
<1>5. /\ Valid(new) /\ Len(new.lines) = Len(lines)
      /\ Identifiers(new) \subseteq Identifiers(invoice) \cup {first.identifier}
  BY <1>3, <1>4, FirstStaysValid DEF new, lines, L
<1>6. Identifiers(new) \subseteq Identifiers(invoice)
                                 \cup (IF m = "identifier" THEN {value} ELSE {})
  BY <1>1, <1>3, <1>5
<1>7. Len(new.lines) = Len(lines) + 0
  BY <1>1, <1>5
<1>8. QED
  BY <1>2, <1>5, <1>6, <1>7, Zenon DEF StillValid, lines

(* The optional members of an invoice and its first line are optional. *)
LEMMA OptionalsRemoved ==
  ASSUME NEW invoice \in InvoicesOver(Characters), Valid(invoice)
  PROVE  StillValid(RemoveOptionals(invoice), invoice, {}, 0)
<1> DEFINE unnoted == SetField(invoice, "note", Absent)
<1> DEFINE line == invoice.lines[1]
<1> DEFINE first == WithoutOptionals(line)
<1> DEFINE new == [unnoted EXCEPT !.lines = [unnoted.lines EXCEPT ![1] = first]]
<1>1. /\ Absent \in Seq(Characters) /\ {} \in SUBSET Extras
      /\ "note" \in Required \cup Optional /\ "note" \notin Required
      /\ "note" \notin {"sellerEndpoint", "buyerEndpoint"}
  BY DEF Absent, Required, Optional
<1>2. /\ unnoted \in InvoicesOver(Characters)
      /\ Valid(unnoted) /\ unnoted.lines = invoice.lines
  BY <1>1, FieldsAreSet, FieldsStayValid
<1>3. RemoveOptionals(invoice) = new
  <2>1. RemoveOptionals(invoice)
          = [unnoted EXCEPT !.lines[1] = WithoutOptionals(unnoted.lines[1])]
    BY DEF RemoveOptionals
  <2> HIDE DEF unnoted
  <2>2. WithoutOptionals(unnoted.lines[1]) = first
    BY <1>2
  <2> HIDE DEF first
  <2>3. RemoveOptionals(invoice) = [unnoted EXCEPT !.lines[1] = first]
    BY <2>1, <2>2
  <2>4. QED
    BY <2>3
<1>4. /\ line \in LinesOver(Characters) /\ ValidLine(line)
      /\ line.identifier \in Identifiers(invoice) /\ Len(invoice.lines) \in Nat
  <2>1. \A n \in 1..100 : 1 \in 1..n
    OBVIOUS
  <2>2. /\ DOMAIN invoice.lines = 1..Len(invoice.lines) /\ Len(invoice.lines) \in Nat
        /\ 1 \in 1..Len(invoice.lines)
    BY <2>1, OneRate, ValidLines, Zenon
  <2>3. line \in LinesOver(Characters) /\ ValidLine(line)
    BY <2>2, ValidLines, Zenon
  <2>4. line.identifier \in Identifiers(invoice)
    BY <2>2, Zenon DEF Identifiers
  <2>5. QED
    BY <2>2, <2>3, <2>4
<1> HIDE DEF line
<1>5. /\ first \in LinesOver(Characters) /\ ValidLine(first)
      /\ first.rate = line.rate /\ first.identifier = line.identifier
  BY <1>1, <1>4 DEF WithoutOptionals, LinesOver, ValidLine
<1> HIDE DEF first, new, unnoted
<1>6. /\ first.rate = unnoted.lines[1].rate
      /\ first.identifier = unnoted.lines[1].identifier
  BY <1>2, <1>5 DEF line
<1>7. /\ Valid(new) /\ Len(new.lines) = Len(unnoted.lines)
      /\ Identifiers(new) \subseteq Identifiers(unnoted) \cup {first.identifier}
  BY <1>2, <1>5, <1>6, FirstStaysValid DEF new
<1>8. Identifiers(unnoted) = Identifiers(invoice)
  BY <1>2, Zenon DEF Identifiers
<1>9. Identifiers(new) \subseteq Identifiers(invoice) \cup {}
  BY <1>4, <1>5, <1>7, <1>8
<1>10. Len(new.lines) = Len(invoice.lines) + 0
  BY <1>2, <1>4, <1>7
<1>11. QED
  BY <1>3, <1>7, <1>9, <1>10, Zenon DEF StillValid

(* What a mutator needs to leave an invoice valid: room for a line, and no *)
(* line with an identifier it writes; which identifiers it adds, and how   *)
(* many lines.                                                             *)
Suits(name, invoice) ==
  /\ name = "add-line" =>
       /\ Len(invoice.lines) < 100
       /\ \A n \in Int : Worded("ZUSATZ", n) \notin Identifiers(invoice)
  /\ name = "line-identifier" =>
       \A n \in Int : Worded("POSITION", n) \notin Identifiers(invoice)
Adds(name, token) ==
  IF name = "add-line" THEN {Worded("ZUSATZ", token)}
  ELSE IF name = "line-identifier" THEN {Worded("POSITION", token)} ELSE {}
More(name) == IF name = "add-line" THEN 1 ELSE 0

(* Every mutator leaves a valid invoice valid that suits it, whatever      *)
(* number it draws (mutators.py:17-162).                                   *)
LEMMA MutatedIsValid ==
  ASSUME NEW invoice \in InvoicesOver(Characters), Valid(invoice),
         NEW name \in Range(MutatorOrder), NEW token \in Int, Suits(name, invoice)
  PROVE  StillValid(Mutated(invoice, name, token), invoice, Adds(name, token), More(name))
<1> DEFINE Kept(new) == StillValid(new, invoice, {}, 0)
<1> DEFINE Goal == StillValid(Mutated(invoice, name, token), invoice,
                              Adds(name, token), More(name))
<1>1. /\ token % 7 \in 0..6 /\ token % 997 \in 0..996
      /\ (token % 28) + 1 \in Int /\ (token % 200) + 1 \in Int
      /\ ((token % 7) + 2) * (Unit \div 4) \in Int
      /\ ((token % 7) + 2) * (Unit \div 4) > 0
      /\ ((token % 997) + 101) * (Unit \div 100) \in Int
      /\ ((token % 997) + 101) * (Unit \div 100) > 0
  <2>1. Unit \div 4 = 250 /\ Unit \div 100 = 10
    BY DEF Unit
  <2>2. token % 7 \in 0..6 /\ token % 997 \in 0..996
    OBVIOUS
  <2>3. QED
    BY <2>1, <2>2
<1>2. ASSUME NEW word \in Words, NEW n \in Int
      PROVE  /\ Worded(word, n) # Absent /\ Mail(word, n) # Absent
             /\ "@" \in Range(Mail(word, n))
  <2>1. \A a, b : <<a, b>> # <<>> /\ <<a, b, "@", "example.invalid">> # <<>>
    OBVIOUS
  <2>2. \A a, b : "@" \in Range(<<a, b, "@", "example.invalid">>)
    <3>1. SUFFICES ASSUME NEW a, NEW b
                   PROVE  "@" \in Range(<<a, b, "@", "example.invalid">>)
      OBVIOUS
    <3>2. LET t == <<a, b, "@", "example.invalid">> IN 3 \in DOMAIN t /\ t[3] = "@"
      OBVIOUS
    <3>3. QED
      BY <3>2 DEF Range
  <2>3. QED
    BY <2>1, <2>2, Zenon DEF Worded, Mail, Absent
<1>3. ASSUME NEW f \in Required \cup Optional, NEW word \in Words, NEW n \in Int,
             f \notin {"sellerEndpoint", "buyerEndpoint"}
      PROVE  Kept(SetField(invoice, f, Worded(word, n)))
  BY <1>2, <1>3, WrittenTexts, FieldAllowed
<1>4. ASSUME NEW f \in Required \cup Optional, NEW word \in Words, NEW n \in Int
      PROVE  Kept(SetField(invoice, f, Mail(word, n)))
  BY <1>2, WrittenTexts, FieldAllowed
<1>5. ASSUME NEW n \in Int
      PROVE  Kept(SetField(invoice, "paymentDueDate", <<Digits(n)>>))
  <2>1. /\ "paymentDueDate" \in Required \cup Optional
        /\ "paymentDueDate" \notin Required
        /\ "paymentDueDate" \notin {"sellerEndpoint", "buyerEndpoint"}
        /\ "RP" \in Words
    BY DEF Required, Optional, Words
  <2>2. QED
    BY <2>1, WrittenTexts, FieldAllowed
<1>6. ASSUME NEW m \in {"note", "description"}, NEW word \in Words
      PROVE  Kept(SetFirst(invoice, m, Worded(word, token)))
  <2>1. m # "identifier" /\ m \notin {"quantity", "price"}
    OBVIOUS
  <2>2. QED
    BY <2>1, WrittenTexts, FirstAllowed
<1>7. ASSUME NEW m \in {"quantity", "price"}, NEW n \in Int, n > 0
      PROVE  Kept(SetFirst(invoice, m, n))
  <2>1. m # "identifier" /\ m \notin {"identifier", "note", "description"}
    OBVIOUS
  <2>2. QED
    BY <1>7, <2>1, FirstAllowed
<1>8. /\ {"RP", "LEITWEG-ID", "Nr.", "seller", "buyer", "Musterkunde", "Tage",
          "Variante", "POSITION", "Hinweis", "DE-RP", "Strasse", "ZUSATZ",
          "Musterlieferant", "Musterlieferant GmbH"} \subseteq Words
      /\ {"identifier", "buyerReference", "note", "sellerEndpoint", "buyerEndpoint",
          "buyerName", "paymentTerms", "sellerIdentifier", "sellerAddress",
          "sellerTradingName", "sellerName"} \subseteq Required \cup Optional
      /\ \A f \in {"identifier", "buyerReference", "note", "buyerName", "paymentTerms",
                   "sellerIdentifier", "sellerAddress", "sellerTradingName",
                   "sellerName"} : f \notin {"sellerEndpoint", "buyerEndpoint"}
  BY DEF Words, Required, Optional
<1>9. Kept(SellerName(invoice, token))
  <2> DEFINE named == SetField(invoice, "sellerTradingName",
                               Worded("Musterlieferant", token))
  <2> DEFINE new == SetField(named, "sellerName", Worded("Musterlieferant GmbH", token))
  <2>1. Kept(named)
    BY <1>3, <1>8
  <2>2. named \in InvoicesOver(Characters)
    BY <1>8, WrittenTexts, FieldsAreSet
  <2>3. SellerName(invoice, token) = new
    BY DEF SellerName
  <2> HIDE DEF named
  <2>4. Valid(named) /\ Len(named.lines) = Len(invoice.lines) + 0
        /\ Identifiers(named) \subseteq Identifiers(invoice)
    BY <2>1 DEF StillValid
  <2> DEFINE text == Worded("Musterlieferant GmbH", token)
  <2>5. text \in Seq(Characters) /\ text # Absent
    BY <1>2, <1>8, WrittenTexts
  <2> HIDE DEF text
  <2>6. StillValid(SetField(named, "sellerName", text), named, {}, 0)
    BY <1>8, <2>2, <2>4, <2>5, FieldAllowed
  <2>7. StillValid(new, named, {}, 0)
    BY <2>6 DEF text
  <2> HIDE DEF new
  <2>8. Len(invoice.lines) \in Nat
    BY OneRate
  <2>9. Kept(new)
    BY <2>4, <2>7, <2>8 DEF StillValid
  <2>10. QED
    BY <2>3, <2>9
<1>10. /\ Kept(VatRate(invoice)) /\ Kept(RemoveOptionals(invoice))
       /\ Kept([invoice EXCEPT !.lines = Reverse(@)])
  BY RateAndOrder, OptionalsRemoved
<1> HIDE DEF Kept
<1>11. ASSUME name # "add-line", name # "line-identifier",
              Kept(Mutated(invoice, name, token))
       PROVE  Goal
  BY <1>11, Zenon DEF Kept, Adds, More
<1>12. CASE name \in {"invoice-id", "buyer-reference", "invoice-note-unicode",
                      "seller-endpoint", "buyer-endpoint", "buyer-name",
                      "seller-identifier"}
  <2>1. Kept(Mutated(invoice, name, token))
    <3>1. CASE name = "invoice-id"
      BY <3>1, <1>3, <1>8 DEF Mutated
    <3>2. CASE name = "buyer-reference"
      BY <3>2, <1>3, <1>8 DEF Mutated
    <3>3. CASE name = "invoice-note-unicode"
      BY <3>3, <1>3, <1>8 DEF Mutated
    <3>4. CASE name = "seller-endpoint"
      BY <3>4, <1>4, <1>8 DEF Mutated
    <3>5. CASE name = "buyer-endpoint"
      BY <3>5, <1>4, <1>8 DEF Mutated
    <3>6. CASE name = "buyer-name"
      BY <3>6, <1>3, <1>8 DEF Mutated
    <3>7. CASE name = "seller-identifier"
      BY <3>7, <1>3, <1>8 DEF Mutated
    <3>8. QED
      BY <1>12, <3>1, <3>2, <3>3, <3>4, <3>5, <3>6, <3>7
  <2>2. QED
    BY <1>11, <1>12, <2>1
<1>13. CASE name \in {"payment-terms", "address-variant", "payment-due-date"}
  <2>1. \A n \in Int : /\ Kept(SetField(invoice, "paymentTerms", Worded("Tage", n)))
                       /\ Kept(SetField(invoice, "sellerAddress", Worded("Strasse", n)))
                       /\ Kept(SetField(invoice, "paymentDueDate", <<Digits(n)>>))
    BY <1>3, <1>5, <1>8
  <2> DEFINE day == (token % 28) + 1
  <2> DEFINE number == (token % 200) + 1
  <2>2. /\ name = "payment-terms" => Mutated(invoice, name, token)
             = SetField(invoice, "paymentTerms", Worded("Tage", day))
        /\ name = "address-variant" => Mutated(invoice, name, token)
             = SetField(invoice, "sellerAddress", Worded("Strasse", number))
        /\ name = "payment-due-date" => Mutated(invoice, name, token)
             = SetField(invoice, "paymentDueDate", <<Digits(day)>>)
    BY DEF Mutated
  <2>3. day \in Int /\ number \in Int
    BY <1>1
  <2> HIDE DEF day, number
  <2>4. Kept(Mutated(invoice, name, token))
    BY <1>13, <2>1, <2>2, <2>3
  <2>5. QED
    BY <1>11, <1>13, <2>4
<1>14. CASE name \in {"line-description", "line-note"}
  <2>1. Kept(Mutated(invoice, name, token))
    BY <1>6, <1>8, <1>14 DEF Mutated
  <2>2. QED
    BY <1>11, <1>14, <2>1
<1>15. CASE name \in {"quantity-scale", "price-scale"}
  <2> DEFINE quantity == ((token % 7) + 2) * (Unit \div 4)
  <2> DEFINE price == ((token % 997) + 101) * (Unit \div 100)
  <2>1. /\ name = "quantity-scale" => Mutated(invoice, name, token)
             = SetFirst(invoice, "quantity", quantity)
        /\ name = "price-scale" => Mutated(invoice, name, token)
             = SetFirst(invoice, "price", price)
    BY DEF Mutated
  <2>2. quantity \in Int /\ quantity > 0 /\ price \in Int /\ price > 0
    BY <1>1
  <2> HIDE DEF quantity, price
  <2>3. Kept(Mutated(invoice, name, token))
    BY <1>7, <1>15, <2>1, <2>2
  <2>4. QED
    BY <1>11, <1>15, <2>3
<1>16. CASE name \in {"seller-name", "line-order", "vat-rate", "remove-optionals"}
  <2>1. Kept(Mutated(invoice, name, token))
    BY <1>9, <1>10, <1>16 DEF Mutated
  <2>2. QED
    BY <1>11, <1>16, <2>1
<1>17. CASE name = "add-line"
  <2>1. Mutated(invoice, name, token) = AddLine(invoice, token)
    BY <1>17 DEF Mutated
  <2>2. Len(invoice.lines) < 100 /\ Worded("ZUSATZ", token) \notin Identifiers(invoice)
    BY <1>17 DEF Suits
  <2>3. StillValid(AddLine(invoice, token), invoice, {Worded("ZUSATZ", token)}, 1)
    BY <2>2, LineAdded
  <2>4. QED
    BY <1>17, <2>1, <2>3 DEF Adds, More
<1>18. CASE name = "line-identifier"
  <2> DEFINE text == Worded("POSITION", token)
  <2>1. Mutated(invoice, name, token) = SetFirst(invoice, "identifier", text)
    BY <1>18 DEF Mutated
  <2>2. text \notin Identifiers(invoice)
    BY <1>18 DEF Suits
  <2>3. text \in Seq(Characters) /\ text # Absent
    BY <1>2, <1>8, WrittenTexts
  <2>4. Adds(name, token) = {text} /\ More(name) = 0
    BY <1>18 DEF Adds, More
  <2> HIDE DEF text
  <2>5. StillValid(SetFirst(invoice, "identifier", text), invoice, {text}, 0)
    BY <2>2, <2>3, FirstAllowed
  <2>6. QED
    BY <2>1, <2>4, <2>5
<1>19. QED
  BY <1>12, <1>13, <1>14, <1>15, <1>16, <1>17, <1>18 DEF Range, MutatorOrder

(* What a mutator wrote does not keep another one from being applied. *)
LEMMA OthersStillSuit ==
  ASSUME NEW invoice, Len(invoice.lines) \in Nat, NEW name, NEW token \in Int, NEW new,
         StillValid(new, invoice, Adds(name, token), More(name)),
         NEW other, other # name, Suits(other, invoice)
  PROVE  Suits(other, new)
<1>1. \A m, n : Worded("ZUSATZ", m) # Worded("POSITION", n)
  BY DEF Worded
<1>2. CASE other = "add-line"
  <2>1. Len(new.lines) = Len(invoice.lines)
    <3>1. More(name) = 0
      BY <1>2 DEF More
    <3>2. \A n \in Nat : n + 0 = n
      OBVIOUS
    <3>3. Len(new.lines) = Len(invoice.lines) + 0
      BY <3>1, Zenon DEF StillValid
    <3>4. QED
      BY <3>2, <3>3, Zenon
  <2>2. \A n \in Int : Worded("ZUSATZ", n) \notin Adds(name, token)
    BY <1>1, <1>2 DEF Adds
  <2>3. QED
    BY <1>2, <2>1, <2>2 DEF StillValid, Suits
<1>3. CASE other = "line-identifier"
  <2>1. \A n \in Int : Worded("POSITION", n) \notin Adds(name, token)
    BY <1>1, <1>3 DEF Adds
  <2>2. QED
    BY <1>3, <2>1 DEF StillValid, Suits
<1>4. QED
  BY <1>2, <1>3 DEF Suits

(* No mutator is applied twice to a candidate. *)
LEMMA NamesAreDistinct ==
  ASSUME NEW i \in Nat, NEW p \in 1..Len(Names(i)), NEW q \in 1..Len(Names(i)), p # q
  PROVE  Names(i)[p] # Names(i)[q]
<1> DEFINE chosen == Chosen(i)
<1>1. N = 20
  BY OrderOfMutators
<1>2. i >= 20 => Primary(i) # Interaction(i)
  <2>1. SUFFICES ASSUME i >= 20
                 PROVE  Primary(i) # Interaction(i)
    OBVIOUS
  <2> DEFINE r == i % 20
  <2> DEFINE c == ((i - 20) \div 20) % 19
  <2> DEFINE place == IF c < r THEN c + 1 ELSE c + 2
  <2>2. /\ r \in 0..19 /\ c \in 0..18
        /\ Primary(i) = MutatorOrder[r + 1] /\ Interaction(i) = MutatorOrder[place]
    BY <2>1, InteractionsInOrder
  <2> HIDE DEF r, c
  <2>3. r + 1 \in 1..20 /\ place \in 1..20 /\ r + 1 # place
    BY <2>2
  <2> HIDE DEF place
  <2>4. QED
    BY <2>2, <2>3, MutatorsAreDistinct
<1>3. \/ chosen = <<Primary(i)>>
      \/ chosen = <<Primary(i), Interaction(i)>> /\ Primary(i) # Interaction(i)
  BY <1>1, <1>2 DEF Chosen, Alone
<1>4. \/ Names(i) = chosen
      \/ Names(i) = Append(chosen, "invoice-id") /\ "invoice-id" \notin Range(chosen)
  BY DEF Names
<1> DEFINE x == Primary(i)
<1> DEFINE y == Interaction(i)
<1> HIDE DEF chosen, x, y
<1>5. CASE chosen = <<x>>
  <2> DEFINE longer == Append(chosen, "invoice-id")
  <2>1. /\ Len(chosen) = 1 /\ 1 \in DOMAIN chosen /\ chosen[1] = x
        /\ Len(longer) = 2 /\ longer[1] = x /\ longer[2] = "invoice-id"
    BY <1>5
  <2>2. x \in Range(chosen)
    BY <2>1, Zenon DEF Range
  <2> HIDE DEF longer
  <2>3. \/ Len(Names(i)) = 1
        \/ /\ Len(Names(i)) = 2 /\ x # "invoice-id"
           /\ Names(i)[1] = x /\ Names(i)[2] = "invoice-id"
    BY <1>4, <2>1, <2>2 DEF longer
  <2>4. QED
    BY <2>3
<1>6. CASE chosen = <<x, y>> /\ x # y
  <2> DEFINE longer == Append(chosen, "invoice-id")
  <2>1. /\ Len(chosen) = 2 /\ chosen[1] = x /\ chosen[2] = y
        /\ 1 \in DOMAIN chosen /\ 2 \in DOMAIN chosen
        /\ Len(longer) = 3 /\ longer[1] = x /\ longer[2] = y
        /\ longer[3] = "invoice-id"
    BY <1>6
  <2>2. x \in Range(chosen) /\ y \in Range(chosen)
    BY <2>1, Zenon DEF Range
  <2> HIDE DEF longer
  <2>3. \/ Len(Names(i)) = 2 /\ Names(i)[1] = x /\ Names(i)[2] = y
        \/ /\ Len(Names(i)) = 3 /\ x # "invoice-id" /\ y # "invoice-id"
           /\ Names(i)[1] = x /\ Names(i)[2] = y /\ Names(i)[3] = "invoice-id"
    BY <1>4, <2>1, <2>2 DEF longer
  <2>4. QED
    BY <1>6, <2>3
<1>7. QED
  BY <1>3, <1>5, <1>6 DEF x, y

(* A seed that has room for a line and none of the identifiers that        *)
(* mutators write.  A seed that has one of them is refused when a mutator  *)
(* draws its number (model.py:241-247), or looks like a candidate.         *)
SeedIsPlain ==
  /\ Len(Seed.lines) < 100
  /\ \A n \in Int : /\ Worded("RP", n) # Seed.header["identifier"]
                    /\ Worded("ZUSATZ", n) \notin Identifiers(Seed)
                    /\ Worded("POSITION", n) \notin Identifiers(Seed)

(* Every stage of every index of such a seed is valid: an operation leaves *)
(* the invoice valid and the operations after it applicable.               *)
LEMMA StagesAreValid ==
  ASSUME Requested, SeedIsPlain, NEW i \in Nat
  PROVE  \A k \in DOMAIN Stages(i) : Valid(Stages(i)[k])
<1> DEFINE stages == Stages(i)
<1> DEFINE names == Names(i)
<1> DEFINE n == Len(names)
<1> DEFINE Fine(k) == /\ stages[k] \in InvoicesOver(Characters) /\ Valid(stages[k])
                      /\ \A j \in 1..n : j > k => Suits(names[j], stages[k])
<1>1. /\ DOMAIN stages = 0..n /\ stages[0] = Seed
      /\ \A k \in 1..n : stages[k] = Mutated(stages[k - 1], names[k], Token(i, k))
  BY StagesAreMutated
<1>2. /\ n \in 1..3 /\ Seed \in InvoicesOver(Characters)
      /\ \A k \in 1..n : names[k] \in Range(MutatorOrder) /\ Token(i, k) \in Int
  BY OperationsAreMutators, OperationsAreTyped
<1>3. \A k, j \in 1..n : k # j => names[k] # names[j]
  BY NamesAreDistinct
<1> HIDE DEF stages, names, n
<1>4. Fine(0)
  BY <1>1, <1>2, SeedIsAnInvoice DEF SeedIsPlain, Suits
<1>5. ASSUME NEW k \in 1..n, Fine(k - 1)
      PROVE  Fine(k)
  <2> DEFINE before == stages[k - 1]
  <2> DEFINE token == Token(i, k)
  <2>1. before \in InvoicesOver(Characters) /\ Valid(before) /\ Suits(names[k], before)
    BY <1>2, <1>5
  <2>2. Len(before.lines) \in Nat /\ Len(before.lines) >= 1
    BY <2>1, OneRate
  <2>3. names[k] \in Range(MutatorOrder) /\ token \in Int
        /\ stages[k] = Mutated(before, names[k], token)
    BY <1>1, <1>2
  <2> HIDE DEF before, token
  <2>4. StillValid(stages[k], before, Adds(names[k], token), More(names[k]))
    BY <2>1, <2>3, MutatedIsValid
  <2>5. stages[k] \in InvoicesOver(Characters)
    BY <2>1, <2>2, <2>3, MutatedIsAnInvoice
  <2>6. ASSUME NEW j \in 1..n, j > k
        PROVE  Suits(names[j], stages[k])
    <3>1. j > k - 1 /\ j # k
      BY <1>2, <2>6
    <3>2. Suits(names[j], before) /\ names[j] # names[k]
      BY <1>3, <1>5, <3>1 DEF before
    <3>3. QED
      BY <2>2, <2>3, <2>4, <3>2, OthersStillSuit
  <2>7. Valid(stages[k])
    BY <2>4 DEF StillValid
  <2>8. QED
    BY <2>5, <2>6, <2>7
<1> HIDE DEF Fine
<1>6. /\ Fine(1)
      /\ n >= 2 => Fine(2)
      /\ n >= 3 => Fine(3)
  <2>1. /\ 1 \in 1..n /\ 1 - 1 = 0
        /\ n >= 2 => 2 \in 1..n /\ 2 - 1 = 1
        /\ n >= 3 => 3 \in 1..n /\ 3 - 1 = 2
    BY <1>2
  <2>2. Fine(1)
    BY <1>4, <1>5, <2>1
  <2>3. n >= 2 => Fine(2)
    BY <1>5, <2>1, <2>2
  <2>4. n >= 3 => Fine(3)
    BY <1>2, <1>5, <2>1, <2>3
  <2>5. QED
    BY <2>2, <2>3, <2>4
<1>7. \A k \in 0..n : Fine(k)
  <2>1. \A k \in 0..n : k \in {0, 1, 2, 3} /\ (k = 2 => n >= 2) /\ (k = 3 => n >= 3)
    BY <1>2
  <2>2. QED
    BY <1>4, <1>6, <2>1
<1>8. QED
  BY <1>1, <1>7 DEF Fine, stages

(* Generation succeeds, and every candidate has the identifier of its own  *)
(* index, if different numbers are written differently and the seed is     *)
(* plain (corpus.py:71-118, mutators.py:17-162).                           *)
THEOREM CandidatesAreAlwaysNew ==
  ASSUME \A m, n \in Nat : Digits(m) = Digits(n) => m = n, SeedIsPlain
  PROVE  Spec => []EveryCandidateIsNew
<1>1. Init => phase # "ModelError"
  BY DEF Init
<1>2. ASSUME CandidatesInv, phase # "ModelError", [Next]_vars
      PROVE  phase' # "ModelError"
  <2>1. CASE Generate
    <3>1. /\ Requested /\ index \in Nat
      <4>1. \A x, y, z \in Nat : x + z * y \in Nat
        OBVIOUS
      <4>2. /\ Requested /\ Len(candidates) \in Nat
            /\ request.shard[1] \in Nat /\ request.shard[2] \in Nat
            /\ index = request.shard[1] + Len(candidates) * request.shard[2]
        BY <1>2 DEF CandidatesInv, Requested
      <4>3. QED
        BY <4>1, <4>2, Zenon
    <3>2. \A k \in DOMAIN Stages(index) : Valid(Stages(index)[k])
      BY <3>1, StagesAreValid
    <3>3. QED
      BY <1>2, <2>1, <3>2 DEF Generate
  <2>2. CASE ValidateBatch
    <3>1. phase' \in {"validating", "rejected"}
      BY <2>2 DEF ValidateBatch
    <3>2. QED
      BY <3>1
  <2>3. QED
    BY <1>2, <2>1, <2>2 DEF Next, Generated, CheckCoverage, Pass, vars
<1>3. \A n \in Nat : Seed.header["identifier"] # Worded("RP", n)
  BY DEF SeedIsPlain
<1>4. Spec => [](phase # "RuntimeError")
  BY <1>3, CandidatesNeverCollide
<1>5. CandidatesInv /\ IdentifiersInv /\ phase # "ModelError" /\ phase # "RuntimeError"
        => EveryCandidateIsNew
  <2>1. SUFFICES ASSUME CandidatesInv, IdentifiersInv, candidates # <<>>
                 PROVE  LET c == Last(candidates)
                        IN  c.invoice.header.identifier = Worded("RP", UniqueToken(c.index))
    BY DEF EveryCandidateIsNew
  <2>2. /\ Last(candidates) = candidates[Len(candidates)]
        /\ Len(candidates) \in 1..Len(candidates)
    BY <2>1 DEF CandidatesInv, Last
  <2>3. QED
    BY <2>1, <2>2, Zenon DEF IdentifiersInv
<1>6. CandidatesInv /\ phase # "ModelError" /\ [Next]_vars => (phase # "ModelError")'
  BY <1>2
<1>7. QED
  BY <1>1, <1>4, <1>5, <1>6, CandidatesAreOfTheShard, IdentifiersAreKept, PTL DEF Spec

-----------------------------------------------------------------------------
(* Paths, and what is left of one when it is cut.                          *)
Path == Seq(FileNames)

LEMMA PathCut ==
  ASSUME NEW p \in Path, NEW n \in 0..Len(p)
  PROVE  /\ SubSeq(p, 1, n) \in Path /\ Len(SubSeq(p, 1, n)) = n
         /\ \A i \in 1..n : SubSeq(p, 1, n)[i] = p[i]
<1>1. Len(p) \in Nat /\ \A i \in 1..Len(p) : p[i] \in FileNames
  BY DEF Path
<1>2. n \in Int /\ \A i \in 1..n : p[i] \in FileNames
  BY <1>1
<1>3. /\ SubSeq(p, 1, n) \in Seq(FileNames)
      /\ Len(SubSeq(p, 1, n)) = IF 1 <= n THEN n - 1 + 1 ELSE 0
      /\ \A i \in 1..(n - 1 + 1) : SubSeq(p, 1, n)[i] = p[1 + i - 1]
  BY <1>2, SubSeqProperties
<1>4. QED
  BY <1>1, <1>3 DEF Path

(* The prefixes of a path are the paths that agree with it as far as they  *)
(* go.                                                                     *)
LEMMA PrefixesAgree ==
  ASSUME NEW p \in Path, NEW q
  PROVE  q \in Prefixes(p) <=>
           /\ q \in Path /\ Len(q) <= Len(p)
           /\ \A i \in 1..Len(q) : q[i] = p[i]
<1>1. Len(p) \in Nat /\ \A i \in 1..Len(p) : p[i] \in FileNames
  BY DEF Path
<1>3. ASSUME q \in Prefixes(p)
      PROVE  /\ q \in Path /\ Len(q) <= Len(p)
             /\ \A i \in 1..Len(q) : q[i] = p[i]
  <2>1. PICK n \in 0..Len(p) : q = SubSeq(p, 1, n)
    BY <1>3 DEF Prefixes
  <2>2. QED
    BY <1>1, <2>1, PathCut
<1>4. ASSUME q \in Path, Len(q) <= Len(p), \A i \in 1..Len(q) : q[i] = p[i]
      PROVE  q \in Prefixes(p)
  <2>1. Len(q) \in 0..Len(p)
    BY <1>1, <1>4 DEF Path
  <2> DEFINE cut == SubSeq(p, 1, Len(q))
  <2>2. /\ cut \in Path /\ Len(cut) = Len(q)
        /\ \A i \in 1..Len(q) : cut[i] = p[i]
    BY <2>1, PathCut
  <2> HIDE DEF cut
  <2>3. q = cut
    BY <1>4, <2>2, SeqEqual DEF Path
  <2>4. QED
    BY <2>1, <2>3 DEF Prefixes, cut
<1>5. QED
  BY <1>3, <1>4

(* Prefixes are ordered: reflexively, transitively, antisymmetrically, and *)
(* those of one path by their length.                                      *)
LEMMA PrefixOrder ==
  ASSUME NEW p \in Path
  PROVE  /\ Prefixes(p) \subseteq Path
         /\ p \in Prefixes(p) /\ <<>> \in Prefixes(p)
         /\ \A q \in Prefixes(p) : Prefixes(q) \subseteq Prefixes(p)
         /\ \A q \in Prefixes(p) : p \in Prefixes(q) => q = p
         /\ \A q, r \in Prefixes(p) : Len(q) <= Len(r) => q \in Prefixes(r)
         /\ \A q \in Prefixes(p) : Len(q) = Len(p) => q = p
<1> USE DEF Path
<1>1. Prefixes(p) \subseteq Path
  BY PrefixesAgree
<1>2. p \in Prefixes(p) /\ <<>> \in Prefixes(p)
  <2>1. p \in Prefixes(p)
    BY PrefixesAgree
  <2>2. <<>> \in Path /\ Len(<<>>) = 0 /\ 0 <= Len(p)
    OBVIOUS
  <2>3. \A i \in 1..Len(<<>>) : <<>>[i] = p[i]
    BY <2>2
  <2>4. QED
    BY <2>1, <2>2, <2>3, PrefixesAgree
<1>3. ASSUME NEW q \in Prefixes(p), NEW r \in Prefixes(q)
      PROVE  r \in Prefixes(p)
  <2>1. q \in Path /\ Len(q) <= Len(p) /\ \A i \in 1..Len(q) : q[i] = p[i]
    BY PrefixesAgree
  <2>2. r \in Path /\ Len(r) <= Len(q) /\ \A i \in 1..Len(r) : r[i] = q[i]
    BY <2>1, PrefixesAgree
  <2>3. Len(r) \in Nat /\ Len(q) \in Nat /\ Len(p) \in Nat
    BY <2>1, <2>2
  <2>4. Len(r) <= Len(p) /\ \A i \in 1..Len(r) : r[i] = p[i]
    BY <2>1, <2>2, <2>3
  <2>5. QED
    BY <2>2, <2>4, PrefixesAgree
<1>4. ASSUME NEW q \in Prefixes(p), Len(q) = Len(p)
      PROVE  q = p
  <2>1. q \in Path /\ \A i \in 1..Len(q) : q[i] = p[i]
    BY PrefixesAgree
  <2>2. QED
    BY <1>4, <2>1, SeqEqual
<1>5. ASSUME NEW q \in Prefixes(p), p \in Prefixes(q)
      PROVE  q = p
  <2>1. q \in Path /\ Len(q) <= Len(p)
    BY PrefixesAgree
  <2>2. Len(p) <= Len(q)
    BY <1>5, <2>1, PrefixesAgree
  <2>3. Len(q) \in Nat /\ Len(p) \in Nat
    BY <2>1
  <2>4. QED
    BY <1>4, <2>1, <2>2, <2>3
<1>6. ASSUME NEW q \in Prefixes(p), NEW r \in Prefixes(p), Len(q) <= Len(r)
      PROVE  q \in Prefixes(r)
  <2>1. q \in Path /\ Len(q) <= Len(p) /\ \A i \in 1..Len(q) : q[i] = p[i]
    BY PrefixesAgree
  <2>2. r \in Path /\ \A i \in 1..Len(r) : r[i] = p[i]
    BY PrefixesAgree
  <2>3. Len(r) \in Nat /\ Len(q) \in Nat
    BY <2>1, <2>2
  <2>4. \A i \in 1..Len(q) : q[i] = r[i]
    BY <1>6, <2>1, <2>2, <2>3
  <2>5. QED
    BY <1>6, <2>1, <2>2, <2>4, PrefixesAgree
<1>7. QED
  BY <1>1, <1>2, <1>3, <1>4, <1>5, <1>6

(* IsPrefix says the same of two paths.                                    *)
LEMMA PrefixIsPrefix ==
  ASSUME NEW p \in Path, NEW q \in Path, IsPrefix(q, p)
  PROVE  q \in Prefixes(p)
<1>1. Len(q) \in Nat /\ Len(p) \in Nat /\ Len(q) <= Len(p)
  BY DEF IsPrefix, Path
<1>2. SubSeq(q, 1, Len(q)) = q
  BY SubSeqFull DEF Path
<1>3. q = SubSeq(p, 1, Len(q))
  BY <1>2 DEF IsPrefix
<1>4. QED
  <2>1. Len(q) \in 0..Len(p)
    BY <1>1
  <2>2. QED
    BY <1>3, <2>1, Zenon DEF Prefixes

(* A path is the one before it and itself.                                 *)
LEMMA FrontPrefixes ==
  ASSUME NEW p \in Path, p # <<>>
  PROVE  Front(p) \in Path /\ Prefixes(p) = Prefixes(Front(p)) \cup {p}
<1>1. Len(p) \in Nat /\ Len(p) > 0 /\ \A i \in 1..Len(p) : p[i] \in FileNames
  BY DEF Path
<1>2. Front(p) = SubSeq(p, 1, Len(p) - 1) /\ Len(p) - 1 \in 0..Len(p)
  BY <1>1 DEF Front
<1>3. Front(p) \in Prefixes(p)
  BY <1>2 DEF Prefixes
<1>4. Front(p) \in Path /\ Len(Front(p)) = Len(p) - 1
  <2>1. Front(p) \in Path
    BY <1>3, PrefixOrder
  <2>2. QED
    BY <1>2, <2>1, PathCut
<1>5. Prefixes(Front(p)) \subseteq Prefixes(p) /\ p \in Prefixes(p)
  BY <1>3, PrefixOrder
<1>6. ASSUME NEW q \in Prefixes(p), q # p
      PROVE  q \in Prefixes(Front(p))
  <2>1. q \in Path /\ Len(q) <= Len(p) /\ Len(q) # Len(p)
    BY <1>6, PrefixesAgree, PrefixOrder
  <2>2. Len(q) \in Nat
    BY <2>1 DEF Path
  <2>3. Len(q) <= Len(Front(p))
    BY <1>1, <1>4, <2>1, <2>2
  <2>4. QED
    BY <1>3, <2>3, PrefixOrder
<1>7. QED
  BY <1>4, <1>5, <1>6
-----------------------------------------------------------------------------
(* File systems, and calls that stand somehow.                             *)
FileSystems == UNION {[there -> {"dir", "file"}] : there \in SUBSET Path}
Calls == [fs : FileSystems, files : Seq(Path), dirs : Seq(Path), ok : BOOLEAN, left : Nat]
Made(call) == Range(call.files) \cup Range(call.dirs)

(* A file system stays one whatever is added to it or taken away.          *)
LEMMA FileSystemMember ==
  ASSUME NEW fs \in FileSystems
  PROVE  /\ DOMAIN fs \subseteq Path
         /\ \A paths : Without(fs, paths) \in FileSystems
         /\ \A path \in Path, kind \in {"dir", "file"} :
              /\ Having(fs, path, kind) \in FileSystems
              /\ DOMAIN (Having(fs, path, kind)) = DOMAIN fs \cup {path}
<1>1. PICK there \in SUBSET Path : fs \in [there -> {"dir", "file"}]
  BY DEF FileSystems
<1>2. ASSUME NEW paths
      PROVE  Without(fs, paths) \in FileSystems
  <2>1. Without(fs, paths) \in [there \ paths -> {"dir", "file"}]
    BY <1>1 DEF Without
  <2>2. there \ paths \in SUBSET Path
    OBVIOUS
  <2>3. QED
    BY <2>1, <2>2 DEF FileSystems
<1>3. ASSUME NEW path \in Path, NEW kind \in {"dir", "file"}
      PROVE  /\ Having(fs, path, kind) \in FileSystems
             /\ DOMAIN (Having(fs, path, kind)) = DOMAIN fs \cup {path}
  <2> DEFINE more == Having(fs, path, kind)
  <2>1. more = [p \in there \cup {path} |-> IF p = path THEN kind ELSE fs[p]]
    BY <1>1 DEF Having
  <2>2. more \in [there \cup {path} -> {"dir", "file"}]
    BY <1>1, <2>1
  <2>3. there \cup {path} \in SUBSET Path
    OBVIOUS
  <2>4. QED
    BY <1>1, <2>2, <2>3 DEF FileSystems
<1>4. QED
  BY <1>1, <1>2, <1>3

(* A directory is made, or the call has raised, now or before.             *)
LEMMA DirectoryMade ==
  ASSUME NEW call \in Calls, NEW path \in Path
  PROVE  LET after == MakeDirectory(call, path)
         IN  /\ after \in Calls /\ after.files = call.files
             /\ after.ok =>
                  /\ call.ok /\ path \notin DOMAIN call.fs
                  /\ DOMAIN after.fs = DOMAIN call.fs \cup {path}
                  /\ after.dirs = Append(call.dirs, path)
             /\ ~after.ok => after.fs = call.fs /\ after.dirs = call.dirs
             /\ call.ok \/ after = call
<1> DEFINE more == Having(call.fs, path, "dir")
<1> DEFINE after == MakeDirectory(call, path)
<1>1. /\ call.fs \in FileSystems /\ call.files \in Seq(Path) /\ call.dirs \in Seq(Path)
      /\ call.ok \in BOOLEAN /\ call.left \in Nat
      /\ call = [fs |-> call.fs, files |-> call.files, dirs |-> call.dirs,
                 ok |-> call.ok, left |-> call.left]
  BY DEF Calls
<1>2. more \in FileSystems /\ DOMAIN more = DOMAIN call.fs \cup {path}
  BY <1>1, FileSystemMember
<1>3. Append(call.dirs, path) \in Seq(Path)
  BY <1>1
<1>4. CASE ~call.ok
  BY <1>1, <1>4 DEF MakeDirectory
<1>5. CASE call.ok /\ (call.left = 0 \/ path \in DOMAIN call.fs)
  <2>1. after = [call EXCEPT !.ok = FALSE]
    BY <1>5, Zenon DEF MakeDirectory, Raised
  <2> HIDE DEF after
  <2>2. after = [fs |-> call.fs, files |-> call.files, dirs |-> call.dirs,
                 ok |-> FALSE, left |-> call.left]
    BY <1>1, <2>1
  <2>3. QED
    BY <1>1, <1>5, <2>2 DEF Calls, after
<1>6. CASE call.ok /\ ~(call.left = 0 \/ path \in DOMAIN call.fs)
  <2>1. after = [call EXCEPT !.fs = more, !.dirs = Append(call.dirs, path),
                             !.left = call.left - 1]
    BY <1>6, Zenon DEF MakeDirectory
  <2>2. call.left - 1 \in Nat
    BY <1>1, <1>6
  <2> HIDE DEF after, more
  <2>3. after = [fs |-> more, files |-> call.files, dirs |-> Append(call.dirs, path),
                 ok |-> TRUE, left |-> call.left - 1]
    BY <1>1, <1>6, <2>1
  <2>4. /\ after.fs = more /\ after.files = call.files /\ after.ok
        /\ after.dirs = Append(call.dirs, path)
    BY <2>3
  <2>5. after \in Calls
    BY <1>1, <1>2, <1>3, <2>2, <2>3 DEF Calls
  <2>6. QED
    BY <1>2, <1>6, <2>4, <2>5 DEF after
<1>7. QED
  BY <1>1, <1>4, <1>5, <1>6

(* A file is made, whole or not, or the call has raised before.            *)
LEMMA FileMade ==
  ASSUME NEW call \in Calls, NEW path \in Path, NEW intact \in BOOLEAN
  PROVE  LET after == MakeFile(call, path, intact)
         IN  /\ after \in Calls /\ after.dirs = call.dirs
             /\ after.ok =>
                  /\ call.ok
                  /\ DOMAIN after.fs = DOMAIN call.fs \cup {path}
                  /\ after.files = Append(call.files, path)
             /\ \/ after.fs = call.fs /\ after.files = call.files
                \/ /\ call.ok /\ path \notin DOMAIN call.fs
                   /\ DOMAIN after.fs = DOMAIN call.fs \cup {path}
                   /\ after.files = Append(call.files, path)
             /\ call.ok \/ after = call
<1> DEFINE more == Having(call.fs, path, "file")
<1> DEFINE after == MakeFile(call, path, intact)
<1> DEFINE left == IF call.left > 1 THEN call.left - 2 ELSE 0
<1>1. /\ call.fs \in FileSystems /\ call.files \in Seq(Path) /\ call.dirs \in Seq(Path)
      /\ call.ok \in BOOLEAN /\ call.left \in Nat
      /\ call = [fs |-> call.fs, files |-> call.files, dirs |-> call.dirs,
                 ok |-> call.ok, left |-> call.left]
  BY DEF Calls
<1>2. more \in FileSystems /\ DOMAIN more = DOMAIN call.fs \cup {path}
  BY <1>1, FileSystemMember
<1>3. Append(call.files, path) \in Seq(Path)
  BY <1>1
<1>4. CASE ~call.ok
  BY <1>1, <1>4 DEF MakeFile
<1>5. CASE call.ok /\ (call.left = 0 \/ path \in DOMAIN call.fs)
  <2>1. after = [call EXCEPT !.ok = FALSE]
    BY <1>5, Zenon DEF MakeFile, Raised
  <2> HIDE DEF after
  <2>2. after = [fs |-> call.fs, files |-> call.files, dirs |-> call.dirs,
                 ok |-> FALSE, left |-> call.left]
    BY <1>1, <2>1
  <2>3. QED
    BY <1>1, <1>5, <2>2 DEF Calls, after
<1>6. CASE call.ok /\ ~(call.left = 0 \/ path \in DOMAIN call.fs)
  <2>1. after = [call EXCEPT !.fs = more, !.files = Append(call.files, path),
                             !.ok = intact /\ call.left > 1, !.left = left]
    BY <1>6, Zenon DEF MakeFile
  <2>2. left \in Nat /\ (intact /\ call.left > 1) \in BOOLEAN
    BY <1>1, <1>6
  <2> HIDE DEF after, more, left
  <2>3. after = [fs |-> more, files |-> Append(call.files, path), dirs |-> call.dirs,
                 ok |-> intact /\ call.left > 1, left |-> left]
    BY <1>1, <1>6, <2>1
  <2>4. /\ after.fs = more /\ after.dirs = call.dirs
        /\ after.files = Append(call.files, path)
    BY <2>3
  <2>5. after \in Calls
    BY <1>1, <1>2, <1>3, <2>2, <2>3 DEF Calls
  <2>6. QED
    BY <1>2, <1>6, <2>4, <2>5 DEF after
<1>7. QED
  BY <1>1, <1>4, <1>5, <1>6

(* The directories are made one after the other.                           *)
LEMMA DirectoriesMade ==
  ASSUME NEW call \in Calls, NEW paths \in Seq(Path)
  PROVE  \E made \in [0..Len(paths) -> Calls] :
           /\ made[0] = call
           /\ \A k \in 1..Len(paths) : made[k] = MakeDirectory(made[k - 1], paths[k])
           /\ MakeDirectories(call, paths) = made[Len(paths)]
<1> DEFINE len == Len(paths)
<1> DEFINE step == [k \in 1..len |-> [c \in Calls |-> MakeDirectory(c, paths[k])]]
<1> DEFINE Is(f) ==
      f = [k \in 0..len |-> IF k = 0 THEN call ELSE MakeDirectory(f[k - 1], paths[k])]
<1>1. len \in Nat /\ \A k \in 1..len : paths[k] \in Path
  OBVIOUS
<1>2. \A k \in 1..len, c \in Calls : MakeDirectory(c, paths[k]) \in Calls
  BY <1>1, DirectoryMade
<1> HIDE DEF len
<1>3. step \in [1..len -> [Calls -> Calls]]
  BY <1>2
<1>4. \A k \in 1..len, c \in Calls : step[k][c] = MakeDirectory(c, paths[k])
  OBVIOUS
<1> HIDE DEF step
<1>5. PICK f \in [0..len -> Calls] : IsRecursion(f, len, call, step)
  BY <1>1, <1>3, RecursionExists, Zenon
<1>6. Is(f)
  <2>1. ASSUME NEW k \in 1..len
        PROVE  f[k] = MakeDirectory(f[k - 1], paths[k])
    <3>1. f[k - 1] \in Calls
      BY <1>1
    <3>2. QED
      BY <1>4, <1>5, <3>1 DEF IsRecursion
  <2>2. f[0] = call
    BY <1>5 DEF IsRecursion
  <2>3. QED
    BY <2>1, <2>2, <1>1
<1> DEFINE made == CHOOSE g : Is(g)
<1>7. Is(made)
  BY <1>6
<1>8. MakeDirectories(call, paths) = made[len]
  BY DEF MakeDirectories, len
<1> HIDE DEF made
<1>9. made[0] = call /\ DOMAIN made = 0..len
  BY <1>1, <1>7
<1>10. ASSUME NEW k \in 1..len
       PROVE  made[k] = MakeDirectory(made[k - 1], paths[k])
  <2>1. k \in 0..len /\ k # 0
    BY <1>1
  <2>2. QED
    BY <1>7, <2>1
<1>11. \A k \in 0..len : made[k] \in Calls
  <2> DEFINE T == {k \in 0..len : made[k] \in Calls}
  <2>1. 0 \in T
    BY <1>1, <1>9
  <2>2. \A k \in 1..len : k - 1 \in T => k \in T
    BY <1>1, <1>2, <1>10
  <2> HIDE DEF T
  <2>3. \A k \in 0..len : k \in T
    BY <1>1, <2>1, <2>2, CountedInduction
  <2>4. QED
    BY <2>3 DEF T
<1>12. made \in [0..len -> Calls]
  BY <1>7, <1>11
<1>13. QED
  BY <1>8, <1>9, <1>10, <1>12 DEF len

-----------------------------------------------------------------------------
(* What a call keeps while it works above what was there before: it made   *)
(* the rest, each once, every path after those it lies in, and a later     *)
(* directory is not above an earlier one.                                  *)
Closed(paths) == \A p \in paths : Prefixes(p) \subseteq paths
Sound(call, before) ==
  /\ DOMAIN call.fs = before \cup Made(call)
  /\ before \cap Made(call) = {}
  /\ Range(call.files) \cap Range(call.dirs) = {}
  /\ Closed(DOMAIN call.fs)
  /\ \A i, j \in DOMAIN call.dirs : i < j => call.dirs[j] \notin Prefixes(call.dirs[i])

(* Making a directory keeps that, if what it lies in is there.             *)
LEMMA DirectoryIsSound ==
  ASSUME NEW before, NEW call \in Calls, Sound(call, before), NEW path \in Path,
         call.ok => Prefixes(path) \subseteq DOMAIN call.fs \cup {path}
  PROVE  Sound(MakeDirectory(call, path), before)
<1> DEFINE after == MakeDirectory(call, path)
<1>1. /\ after \in Calls /\ after.files = call.files
      /\ after.ok =>
           /\ call.ok /\ path \notin DOMAIN call.fs
           /\ DOMAIN after.fs = DOMAIN call.fs \cup {path}
           /\ after.dirs = Append(call.dirs, path)
      /\ ~after.ok => after.fs = call.fs /\ after.dirs = call.dirs
  BY DirectoryMade
<1> HIDE DEF after
<1>2. CASE ~after.ok
  BY <1>1, <1>2 DEF Sound, Made, after
<1>3. CASE after.ok
  <2>1. call.dirs \in Seq(Path) /\ call.fs \in FileSystems
    BY DEF Calls
  <2>2. Range(after.dirs) = Range(call.dirs) \cup {path}
    <3>1. after.dirs = Append(call.dirs, path)
      BY <1>1, <1>3
    <3>2. Range(Append(call.dirs, path)) = Range(call.dirs) \cup {path}
      BY <2>1, AppendRange
    <3>3. QED
      BY <3>1, <3>2
  <2>3. Made(after) = Made(call) \cup {path}
    BY <1>1, <2>2 DEF Made
  <2>4. /\ DOMAIN after.fs = before \cup Made(after)
        /\ before \cap Made(after) = {}
        /\ Range(after.files) \cap Range(after.dirs) = {}
    BY <1>1, <1>3, <2>2, <2>3 DEF Sound, Made
  <2>5. Closed(DOMAIN after.fs)
    BY <1>1, <1>3 DEF Sound, Closed
  <2>6. ASSUME NEW i \in DOMAIN after.dirs, NEW j \in DOMAIN after.dirs, i < j
        PROVE  after.dirs[j] \notin Prefixes(after.dirs[i])
    <3>1. /\ Len(call.dirs) \in Nat /\ DOMAIN call.dirs = 1..Len(call.dirs)
          /\ DOMAIN after.dirs = 1..(Len(call.dirs) + 1)
          /\ after.dirs[Len(call.dirs) + 1] = path
          /\ \A k \in 1..Len(call.dirs) : after.dirs[k] = call.dirs[k]
      BY <1>1, <1>3, <2>1
    <3>2. i \in 1..Len(call.dirs) /\ after.dirs[i] = call.dirs[i]
      BY <2>6, <3>1
    <3>3. CASE j = Len(call.dirs) + 1
      <4>1. call.dirs[i] \in DOMAIN call.fs
        BY <3>1, <3>2 DEF Sound, Made, Range
      <4>2. Prefixes(call.dirs[i]) \subseteq DOMAIN call.fs
        BY <4>1 DEF Sound, Closed
      <4>3. QED
        BY <1>1, <1>3, <3>1, <3>2, <3>3, <4>2
    <3>4. CASE j # Len(call.dirs) + 1
      <4>1. j \in 1..Len(call.dirs) /\ after.dirs[j] = call.dirs[j]
        BY <3>1, <3>4
      <4>2. QED
        BY <2>6, <3>1, <3>2, <4>1 DEF Sound
    <3>5. QED
      BY <3>3, <3>4
  <2>7. QED
    BY <2>4, <2>5, <2>6 DEF Sound, after
<1>4. QED
  BY <1>2, <1>3

(* So does making a file.                                                  *)
LEMMA FileIsSound ==
  ASSUME NEW before, NEW call \in Calls, Sound(call, before), NEW path \in Path,
         NEW intact \in BOOLEAN,
         call.ok => Prefixes(path) \subseteq DOMAIN call.fs \cup {path}
  PROVE  Sound(MakeFile(call, path, intact), before)
<1> DEFINE after == MakeFile(call, path, intact)
<1>1. /\ after.dirs = call.dirs
      /\ \/ after.fs = call.fs /\ after.files = call.files
         \/ /\ call.ok /\ path \notin DOMAIN call.fs
            /\ DOMAIN after.fs = DOMAIN call.fs \cup {path}
            /\ after.files = Append(call.files, path)
  BY FileMade
<1> HIDE DEF after
<1>2. CASE after.fs = call.fs /\ after.files = call.files
  BY <1>1, <1>2 DEF Sound, Made, after
<1>3. CASE /\ call.ok /\ path \notin DOMAIN call.fs
           /\ DOMAIN after.fs = DOMAIN call.fs \cup {path}
           /\ after.files = Append(call.files, path)
  <2>1. call.files \in Seq(Path)
    BY DEF Calls
  <2>2. Range(after.files) = Range(call.files) \cup {path}
    BY <1>3, <2>1, AppendRange
  <2>3. Made(after) = Made(call) \cup {path}
    BY <1>1, <2>2 DEF Made
  <2>4. /\ DOMAIN after.fs = before \cup Made(after)
        /\ before \cap Made(after) = {}
        /\ Range(after.files) \cap Range(after.dirs) = {}
    BY <1>1, <1>3, <2>2, <2>3 DEF Sound, Made
  <2>5. Closed(DOMAIN after.fs)
    BY <1>3 DEF Sound, Closed
  <2>6. QED
    BY <1>1, <2>4, <2>5 DEF Sound, after
<1>4. QED
  BY <1>1, <1>2, <1>3

(* A directory that is made sure of is there in the end, with all it lies  *)
(* in, and no other path is new, or the call has raised.                   *)
LEMMA DirectoryEnsured ==
  ASSUME NEW before, NEW call \in Calls, Sound(call, before), call.ok,
         <<>> \in before, NEW path \in Path
  PROVE  LET after == EnsureDirectory(call, path)
         IN  /\ after \in Calls /\ Sound(after, before) /\ after.files = call.files
             /\ after.ok => DOMAIN after.fs = DOMAIN call.fs \cup Prefixes(path)
<1> DEFINE there == {p \in Prefixes(path) : p \in DOMAIN call.fs}
<1> DEFINE nearest == CHOOSE p \in there : \A q \in there : Len(q) <= Len(p)
<1> DEFINE number == Len(path) - Len(nearest)
<1> DEFINE missing == [k \in 1..number |-> SubSeq(path, 1, Len(nearest) + k)]
<1> DEFINE after == EnsureDirectory(call, path)
<1>1. /\ Prefixes(path) \subseteq Path /\ <<>> \in Prefixes(path)
      /\ path \in Prefixes(path)
      /\ \A q, r \in Prefixes(path) : Len(q) <= Len(r) => q \in Prefixes(r)
  BY PrefixOrder
<1>2. <<>> \in there
  BY <1>1 DEF Sound
<1>3. \A q \in Prefixes(path) : Len(q) \in Nat /\ Len(q) <= Len(path)
  BY <1>1, PrefixesAgree DEF Path
<1>4. /\ nearest \in there
      /\ \A q \in there : Len(q) <= Len(nearest)
  <2> DEFINE lengths == {Len(path) - Len(q) : q \in there}
  <2>1. lengths \subseteq Nat /\ lengths # {}
    BY <1>1, <1>2, <1>3 DEF Path
  <2> HIDE DEF lengths
  <2>2. PICK n \in lengths : \A m \in lengths : n <= m
    BY <2>1, LeastNumber
  <2>3. PICK p \in there : n = Len(path) - Len(p)
    BY <2>2 DEF lengths
  <2>4. \A q \in there : Len(q) <= Len(p)
    <3>1. ASSUME NEW q \in there
          PROVE  Len(q) <= Len(p)
      <4>1. n <= Len(path) - Len(q)
        BY <2>2 DEF lengths
      <4>2. Len(q) \in Nat /\ Len(p) \in Nat /\ Len(path) \in Nat
        BY <1>3, <1>1
      <4>3. QED
        BY <2>3, <4>1, <4>2
    <3>2. QED
      BY <3>1
  <2> HIDE DEF there
  <2>5. \E p_1 \in there : \A q \in there : Len(q) <= Len(p_1)
    BY <2>4
  <2>6. QED
    BY <2>5, Zenon
<1> HIDE DEF nearest
<1>5. /\ Len(nearest) \in Nat /\ Len(path) \in Nat /\ number \in Nat
      /\ nearest \in Prefixes(path) /\ nearest \in DOMAIN call.fs
  BY <1>1, <1>3, <1>4
<1>6. ASSUME NEW k \in 1..number
      PROVE  /\ missing[k] \in Path /\ Len(missing[k]) = Len(nearest) + k
             /\ missing[k] \in Prefixes(path)
  <2>1. Len(nearest) + k \in 0..Len(path)
    BY <1>5
  <2>2. missing[k] = SubSeq(path, 1, Len(nearest) + k)
    OBVIOUS
  <2>3. QED
    BY <2>1, <2>2, PathCut DEF Prefixes
<1>7. missing \in Seq(Path) /\ Len(missing) = number
  BY <1>5, <1>6
<1>8. CASE call.fs[nearest] # "dir"
  <2>1. after = [call EXCEPT !.ok = FALSE]
    BY <1>8, Zenon DEF EnsureDirectory, Raised, nearest
  <2>2. call = [fs |-> call.fs, files |-> call.files, dirs |-> call.dirs,
                ok |-> call.ok, left |-> call.left]
    BY DEF Calls
  <2> HIDE DEF after
  <2>3. after = [fs |-> call.fs, files |-> call.files, dirs |-> call.dirs,
                 ok |-> FALSE, left |-> call.left]
    BY <2>1, <2>2
  <2>4. after \in Calls
    BY <2>3 DEF Calls
  <2>5. /\ after.fs = call.fs /\ after.files = call.files /\ after.dirs = call.dirs
        /\ ~after.ok
    BY <2>3
  <2>6. QED
    BY <2>4, <2>5 DEF after, Sound, Made
<1>9. CASE call.fs[nearest] = "dir"
  <2>1. after = MakeDirectories(call, missing)
    BY <1>9, Zenon DEF EnsureDirectory, nearest
  <2> HIDE DEF after, missing, number
  <2>2. PICK made \in [0..number -> Calls] :
          /\ made[0] = call
          /\ \A k \in 1..number : made[k] = MakeDirectory(made[k - 1], missing[k])
          /\ MakeDirectories(call, missing) = made[number]
    BY <1>7, DirectoriesMade
  <2> DEFINE T == {k \in 0..number :
                     /\ Sound(made[k], before) /\ made[k].files = call.files
                     /\ made[k].ok =>
                          DOMAIN made[k].fs
                            = DOMAIN call.fs \cup {missing[i] : i \in 1..k}}
  <2>3. 0 \in T
    BY <1>5, <2>2
  <2>4. ASSUME NEW k \in 1..number, k - 1 \in T
        PROVE  k \in T
    <3>1. /\ made[k - 1] \in Calls /\ made[k] = MakeDirectory(made[k - 1], missing[k])
          /\ missing[k] \in Path
      BY <1>5, <1>6, <2>2
    <3>2. made[k - 1].ok =>
            Prefixes(missing[k]) \subseteq DOMAIN made[k - 1].fs \cup {missing[k]}
      <4> SUFFICES ASSUME made[k - 1].ok, NEW q \in Prefixes(missing[k]), q # missing[k]
                   PROVE  q \in DOMAIN made[k - 1].fs
        OBVIOUS
      <4>1. DOMAIN made[k - 1].fs
              = DOMAIN call.fs \cup {missing[i] : i \in 1..(k - 1)}
        BY <2>4
      <4>2. /\ q \in Prefixes(path) /\ Len(q) \in Nat
            /\ Len(q) <= Len(missing[k]) /\ Len(q) # Len(missing[k])
        <5>1. q \in Prefixes(path)
          BY <1>6, PrefixOrder
        <5>2. Len(q) <= Len(missing[k]) /\ Len(q) # Len(missing[k])
          BY <3>1, PrefixesAgree, PrefixOrder
        <5>3. QED
          BY <1>3, <5>1, <5>2
      <4>3. CASE Len(q) <= Len(nearest)
        <5>1. q \in Prefixes(nearest)
          BY <1>1, <1>5, <4>2, <4>3
        <5>2. q \in DOMAIN call.fs
          BY <1>5, <5>1 DEF Sound, Closed
        <5>3. QED
          BY <4>1, <5>2
      <4>4. CASE ~(Len(q) <= Len(nearest))
        <5>1. /\ Len(q) - Len(nearest) \in 1..(k - 1)
              /\ Len(q) - Len(nearest) \in 1..number
          BY <1>5, <1>6, <4>2, <4>4
        <5> DEFINE i == Len(q) - Len(nearest)
        <5>2. /\ missing[i] \in Prefixes(path) /\ Len(missing[i]) = Len(q)
              /\ missing[i] \in Path
          BY <1>5, <1>6, <4>2, <5>1
        <5>3. q \in Prefixes(missing[i])
          BY <1>1, <4>2, <5>2
        <5>4. q = missing[i]
          BY <5>2, <5>3, PrefixOrder
        <5>5. QED
          BY <4>1, <5>1, <5>4
      <4>5. QED
        BY <4>3, <4>4
    <3>3. Sound(made[k], before)
      BY <2>4, <3>1, <3>2, DirectoryIsSound
    <3>4. /\ made[k].files = made[k - 1].files
          /\ made[k].ok =>
               /\ made[k - 1].ok
               /\ DOMAIN made[k].fs = DOMAIN made[k - 1].fs \cup {missing[k]}
      BY <3>1, DirectoryMade
    <3>5. {missing[i] : i \in 1..k} = {missing[i] : i \in 1..(k - 1)} \cup {missing[k]}
      <4>1. 1..k = 1..(k - 1) \cup {k}
        BY <1>5
      <4>2. QED
        BY <4>1
    <3>6. made[k].ok =>
            DOMAIN made[k].fs = DOMAIN call.fs \cup {missing[i] : i \in 1..k}
      BY <2>4, <3>4, <3>5
    <3>7. QED
      BY <1>5, <2>4, <3>3, <3>4, <3>6
  <2> HIDE DEF T
  <2>5. \A k \in 1..number : k - 1 \in T => k \in T
    BY <2>4
  <2>6. number \in T
    <3>1. \A k \in 0..number : k \in T
      BY <1>5, <2>3, <2>5, CountedInduction
    <3>2. QED
      BY <1>5, <3>1
  <2>7. DOMAIN call.fs \cup {missing[i] : i \in 1..number}
          = DOMAIN call.fs \cup Prefixes(path)
    <3>1. {missing[i] : i \in 1..number} \subseteq Prefixes(path)
      BY <1>6
    <3>2. ASSUME NEW q \in Prefixes(path)
          PROVE  q \in DOMAIN call.fs \cup {missing[i] : i \in 1..number}
      <4>1. Len(q) \in Nat /\ Len(q) <= Len(path)
        BY <1>3
      <4>2. CASE Len(q) <= Len(nearest)
        <5>1. q \in Prefixes(nearest)
          BY <1>1, <1>5, <4>2
        <5>2. q \in DOMAIN call.fs
          BY <1>5, <5>1 DEF Sound, Closed
        <5>3. QED
          BY <5>2
      <4>3. CASE ~(Len(q) <= Len(nearest))
        <5>1. Len(q) - Len(nearest) \in 1..number
          BY <1>5, <4>1, <4>3 DEF number
        <5> DEFINE i == Len(q) - Len(nearest)
        <5>2. /\ missing[i] \in Prefixes(path) /\ Len(missing[i]) = Len(q)
              /\ missing[i] \in Path
          BY <1>5, <1>6, <4>1, <5>1
        <5>3. q \in Prefixes(missing[i])
          BY <1>1, <4>1, <5>2
        <5>4. q = missing[i]
          BY <5>2, <5>3, PrefixOrder
        <5>5. QED
          BY <5>1, <5>4
      <4>4. QED
        BY <4>2, <4>3
    <3>3. QED
      BY <3>1, <3>2
  <2>8. /\ after = made[number] /\ after \in Calls
    BY <1>5, <2>1, <2>2
  <2>9. QED
    BY <2>6, <2>7, <2>8 DEF T, after
<1>10. QED
  BY <1>8, <1>9

(* The sound calls, and the file that an entry stands for.                 *)
SoundCalls(before) == {call \in Calls : Sound(call, before)}
FileAt(destination, entry) ==
  IF entry.kind = "file" THEN {destination \o entry.parts} ELSE {}

(* A member of the archive is extracted into its place, or the call has    *)
(* raised.                                                                 *)
LEMMA EntryExtracted ==
  ASSUME NEW before, <<>> \in before, NEW call \in SoundCalls(before),
         NEW destination \in Path, NEW entry \in Entries
  PROVE  LET after == Extracted(call, destination, entry)
         IN  /\ after \in SoundCalls(before)
             /\ after.ok =>
                  /\ call.ok
                  /\ DOMAIN after.fs
                       = DOMAIN call.fs \cup Prefixes(destination \o entry.parts)
                  /\ Range(after.files)
                       = Range(call.files) \cup FileAt(destination, entry)
<1> DEFINE target == destination \o entry.parts
<1> DEFINE after == Extracted(call, destination, entry)
<1>1. call \in Calls /\ Sound(call, before)
  BY DEF SoundCalls
<1>2. /\ entry.parts \in Path /\ entry.parts # <<>> /\ entry.intact \in BOOLEAN
      /\ entry.kind \in {"directory", "file"}
  BY DEF Entries, Path
<1>3. target \in Path /\ target # <<>>
  BY <1>2, ConcatProperties, ConcatEqualIffEmpty DEF Path
<1> HIDE DEF target
<1>4. CASE ~call.ok
  BY <1>1, <1>4 DEF Extracted, SoundCalls
<1>5. CASE call.ok /\ entry.kind = "directory"
  <2>1. after = EnsureDirectory(call, target)
    BY <1>5, Zenon DEF Extracted, target
  <2> DEFINE ensured == EnsureDirectory(call, target)
  <2>2. /\ ensured \in Calls /\ Sound(ensured, before) /\ ensured.files = call.files
        /\ ensured.ok => DOMAIN ensured.fs = DOMAIN call.fs \cup Prefixes(target)
    BY <1>1, <1>3, <1>5, DirectoryEnsured
  <2> HIDE DEF after, ensured
  <2>3. after = ensured
    BY <2>1 DEF ensured
  <2>4. FileAt(destination, entry) = {}
    BY <1>5 DEF FileAt
  <2>5. QED
    BY <1>5, <2>2, <2>3, <2>4 DEF SoundCalls, after, target
<1>6. CASE call.ok /\ entry.kind = "file"
  <2> DEFINE ensured == EnsureDirectory(call, Front(target))
  <2> DEFINE made == MakeFile(ensured, target, entry.intact)
  <2>1. after = made
    BY <1>6, Zenon DEF Extracted, target
  <2>2. Front(target) \in Path /\ Prefixes(target) = Prefixes(Front(target)) \cup {target}
    BY <1>3, FrontPrefixes
  <2>3. /\ ensured \in Calls /\ Sound(ensured, before) /\ ensured.files = call.files
        /\ ensured.ok => DOMAIN ensured.fs = DOMAIN call.fs \cup Prefixes(Front(target))
    BY <1>1, <1>6, <2>2, DirectoryEnsured
  <2> HIDE DEF ensured
  <2>4. Sound(made, before)
    BY <1>2, <1>3, <2>2, <2>3, FileIsSound
  <2>5. /\ made \in Calls
        /\ made.ok =>
             /\ ensured.ok
             /\ DOMAIN made.fs = DOMAIN ensured.fs \cup {target}
             /\ made.files = Append(ensured.files, target)
    BY <1>2, <1>3, <2>3, FileMade
  <2>6. Range(Append(ensured.files, target)) = Range(ensured.files) \cup {target}
    <3>1. ensured.files \in Seq(Path)
      BY <2>3 DEF Calls
    <3>2. QED
      BY <1>3, <3>1, AppendRange
  <2> HIDE DEF after, made
  <2>7. FileAt(destination, entry) = {target}
    BY <1>6 DEF FileAt, target
  <2>8. made.ok => /\ DOMAIN made.fs = DOMAIN call.fs \cup Prefixes(target)
                   /\ Range(made.files) = Range(call.files) \cup {target}
    BY <2>2, <2>3, <2>5, <2>6
  <2>9. QED
    BY <1>6, <2>1, <2>4, <2>5, <2>7, <2>8 DEF SoundCalls, after, target
<1>7. QED
  BY <1>2, <1>4, <1>5, <1>6 DEF SoundCalls, Calls

(* So are all members, one after the other.                                *)
LEMMA ArchiveExtracted ==
  ASSUME NEW before, <<>> \in before, NEW call \in SoundCalls(before),
         NEW destination \in Path, NEW archive \in Seq(Entries)
  PROVE  LET after == Extraction(call, destination, archive)
         IN  /\ after \in SoundCalls(before)
             /\ after.ok =>
                  /\ call.ok
                  /\ DOMAIN after.fs
                       = DOMAIN call.fs \cup
                         UNION {Prefixes(destination \o archive[i].parts) :
                                  i \in DOMAIN archive}
                  /\ Range(after.files)
                       = Range(call.files) \cup
                         UNION {FileAt(destination, archive[i]) : i \in DOMAIN archive}
<1> DEFINE S == SoundCalls(before)
<1> DEFINE len == Len(archive)
<1> DEFINE step ==
      [n \in 1..len |-> [c \in S |-> Extracted(c, destination, archive[n])]]
<1> DEFINE Is(f) ==
      f = [n \in 0..len |->
             IF n = 0 THEN call ELSE Extracted(f[n - 1], destination, archive[n])]
<1>1. /\ len \in Nat /\ DOMAIN archive = 1..len
      /\ \A n \in 1..len : archive[n] \in Entries
  OBVIOUS
<1>2. \A n \in 1..len, c \in S : Extracted(c, destination, archive[n]) \in S
  BY <1>1, EntryExtracted
<1> HIDE DEF len, S
<1>3. step \in [1..len -> [S -> S]]
  BY <1>2
<1>4. \A n \in 1..len, c \in S : step[n][c] = Extracted(c, destination, archive[n])
  OBVIOUS
<1> HIDE DEF step
<1>5. call \in S
  BY DEF S
<1>6. PICK f \in [0..len -> S] : IsRecursion(f, len, call, step)
  BY <1>1, <1>3, <1>5, RecursionExists, Zenon
<1>7. Is(f)
  <2>1. ASSUME NEW n \in 1..len
        PROVE  f[n] = Extracted(f[n - 1], destination, archive[n])
    <3>1. f[n - 1] \in S
      BY <1>1
    <3>2. QED
      BY <1>4, <1>6, <3>1 DEF IsRecursion
  <2>2. f[0] = call
    BY <1>6 DEF IsRecursion
  <2>3. QED
    BY <2>1, <2>2, <1>1
<1> DEFINE after == CHOOSE g : Is(g)
<1>8. Is(after)
  BY <1>7
<1>9. Extraction(call, destination, archive) = after[len]
  BY DEF Extraction, len
<1> HIDE DEF after
<1>10. after[0] = call
  BY <1>1, <1>8
<1>11. ASSUME NEW n \in 1..len
       PROVE  after[n] = Extracted(after[n - 1], destination, archive[n])
  <2>1. n \in 0..len /\ n # 0
    BY <1>1
  <2>2. QED
    BY <1>8, <2>1
<1> DEFINE Places(n) == UNION {Prefixes(destination \o archive[i].parts) : i \in 1..n}
<1> DEFINE Files(n) == UNION {FileAt(destination, archive[i]) : i \in 1..n}
<1> DEFINE T == {n \in 0..len :
                   /\ after[n] \in S
                   /\ after[n].ok =>
                        /\ call.ok
                        /\ DOMAIN after[n].fs = DOMAIN call.fs \cup Places(n)
                        /\ Range(after[n].files) = Range(call.files) \cup Files(n)}
<1>12. 0 \in T
  <2>1. Places(0) = {} /\ Files(0) = {} /\ 0 \in 0..len
    BY <1>1
  <2> HIDE DEF Places, Files
  <2>2. QED
    BY <1>5, <1>10, <2>1
<1>13. ASSUME NEW n \in 1..len, n - 1 \in T
       PROVE  n \in T
  <2>1. 1..n = 1..(n - 1) \cup {n}
    BY <1>1
  <2>2. /\ Places(n) = Places(n - 1) \cup Prefixes(destination \o archive[n].parts)
        /\ Files(n) = Files(n - 1) \cup FileAt(destination, archive[n])
    BY <2>1
  <2> HIDE DEF Places, Files
  <2>3. /\ after[n - 1] \in S
        /\ after[n - 1].ok =>
             /\ call.ok
             /\ DOMAIN after[n - 1].fs = DOMAIN call.fs \cup Places(n - 1)
             /\ Range(after[n - 1].files) = Range(call.files) \cup Files(n - 1)
    BY <1>13
  <2> DEFINE r == Extracted(after[n - 1], destination, archive[n])
  <2>4. /\ r \in S
        /\ r.ok =>
             /\ after[n - 1].ok
             /\ DOMAIN r.fs = DOMAIN after[n - 1].fs
                                \cup Prefixes(destination \o archive[n].parts)
             /\ Range(r.files) = Range(after[n - 1].files)
                                   \cup FileAt(destination, archive[n])
    <3>1. after[n - 1] \in SoundCalls(before) /\ archive[n] \in Entries
      BY <1>1, <2>3 DEF S
    <3> DEFINE c == after[n - 1]
    <3> DEFINE entry == archive[n]
    <3> HIDE DEF c, entry
    <3>2. c \in SoundCalls(before) /\ entry \in Entries
      BY <3>1 DEF c, entry
    <3>3. LET e == Extracted(c, destination, entry)
          IN  /\ e \in SoundCalls(before)
              /\ e.ok =>
                   /\ c.ok
                   /\ DOMAIN e.fs
                        = DOMAIN c.fs \cup Prefixes(destination \o entry.parts)
                   /\ Range(e.files) = Range(c.files) \cup FileAt(destination, entry)
      BY <3>2, EntryExtracted
    <3>4. QED
      BY <3>3 DEF S, c, entry
  <2>5. after[n] = r
    BY <1>11
  <2> HIDE DEF r
  <2>6. /\ after[n] \in S
        /\ after[n].ok =>
             /\ call.ok
             /\ DOMAIN after[n].fs = DOMAIN call.fs \cup Places(n)
             /\ Range(after[n].files) = Range(call.files) \cup Files(n)
    BY <2>2, <2>3, <2>4, <2>5
  <2>7. QED
    BY <1>1, <2>6
<1> HIDE DEF T
<1>14. len \in T
  <2>1. \A n \in 1..len : n - 1 \in T => n \in T
    BY <1>13
  <2>2. \A n \in 0..len : n \in T
    BY <1>1, <1>12, <2>1, CountedInduction
  <2>3. QED
    BY <1>1, <2>2
<1>15. QED
  BY <1>1, <1>9, <1>14 DEF T, S

(* The directories are removed one after the other, the newest first.      *)
LEMMA RemovalSteps ==
  ASSUME NEW fs \in FileSystems, NEW dirs \in Seq(Path)
  PROVE  \E left \in [0..Len(dirs) -> FileSystems] :
           /\ left[0] = fs
           /\ \A k \in 1..Len(dirs) :
                left[k] = RemoveDirectory(left[k - 1], dirs[Len(dirs) + 1 - k])
           /\ RemoveNewestFirst(fs, dirs) = left[Len(dirs)]
<1> DEFINE len == Len(dirs)
<1> DEFINE S == FileSystems
<1> DEFINE step ==
      [k \in 1..len |-> [f \in S |-> RemoveDirectory(f, dirs[len + 1 - k])]]
<1> DEFINE Is(f) ==
      f = [k \in 0..len |-> IF k = 0 THEN fs
                            ELSE RemoveDirectory(f[k - 1], dirs[len + 1 - k])]
<1>1. len \in Nat /\ fs \in S
  OBVIOUS
<1>2. \A f \in S : \A path : RemoveDirectory(f, path) \in S
  BY FileSystemMember DEF RemoveDirectory
<1> HIDE DEF len, S
<1>3. step \in [1..len -> [S -> S]]
  BY <1>2
<1>4. \A k \in 1..len, f \in S : step[k][f] = RemoveDirectory(f, dirs[len + 1 - k])
  OBVIOUS
<1> HIDE DEF step
<1>5. PICK f \in [0..len -> S] : IsRecursion(f, len, fs, step)
  BY <1>1, <1>3, RecursionExists, Zenon
<1>6. Is(f)
  <2>1. ASSUME NEW k \in 1..len
        PROVE  f[k] = RemoveDirectory(f[k - 1], dirs[len + 1 - k])
    <3>1. f[k - 1] \in S
      BY <1>1
    <3>2. QED
      BY <1>4, <1>5, <3>1 DEF IsRecursion
  <2>2. f[0] = fs
    BY <1>5 DEF IsRecursion
  <2>3. QED
    BY <2>1, <2>2, <1>1
<1> DEFINE left == CHOOSE g : Is(g)
<1>7. Is(left)
  BY <1>6
<1>8. RemoveNewestFirst(fs, dirs) = left[len]
  BY DEF RemoveNewestFirst, len
<1> HIDE DEF left
<1>9. left[0] = fs /\ DOMAIN left = 0..len
  BY <1>1, <1>7
<1>10. ASSUME NEW k \in 1..len
       PROVE  left[k] = RemoveDirectory(left[k - 1], dirs[len + 1 - k])
  <2>1. k \in 0..len /\ k # 0
    BY <1>1
  <2>2. QED
    BY <1>7, <2>1
<1>11. \A k \in 0..len : left[k] \in S
  <2> DEFINE T == {k \in 0..len : left[k] \in S}
  <2>1. 0 \in T
    BY <1>1, <1>9
  <2>2. \A k \in 1..len : k - 1 \in T => k \in T
    BY <1>1, <1>2, <1>10
  <2> HIDE DEF T
  <2>3. \A k \in 0..len : k \in T
    BY <1>1, <2>1, <2>2, CountedInduction
  <2>4. QED
    BY <2>3 DEF T
<1>12. left \in [0..len -> S]
  BY <1>7, <1>11
<1>13. QED
  BY <1>8, <1>9, <1>10, <1>12 DEF len, S

(* Removing what was made, the files first and the directories with the    *)
(* newest first, never meets a directory that is not empty: what is left   *)
(* is what was there before.                                               *)
LEMMA CleanedIsAsBefore ==
  ASSUME NEW before, Closed(before), NEW call \in SoundCalls(before)
  PROVE  Cleaned(call) \in FileSystems /\ DOMAIN Cleaned(call) = before
<1> DEFINE len == Len(call.dirs)
<1> DEFINE fs == Without(call.fs, Range(call.files))
<1> DEFINE Older(k) == {call.dirs[i] : i \in 1..(len - k)}
<1>1. /\ call.fs \in FileSystems /\ call.dirs \in Seq(Path) /\ Sound(call, before)
      /\ len \in Nat /\ DOMAIN call.dirs = 1..len
      /\ \A i \in 1..len : call.dirs[i] \in Path
  BY DEF SoundCalls, Calls
<1>2. fs \in FileSystems
  BY <1>1, FileSystemMember
<1>3. DOMAIN fs = before \cup Older(0)
  <2>1. DOMAIN fs = DOMAIN call.fs \ Range(call.files)
    BY DEF Without
  <2>2. Range(call.dirs) = Older(0)
    BY <1>1 DEF Range
  <2>3. QED
    BY <1>1, <2>1, <2>2 DEF Sound, Made
<1>4. Cleaned(call) = RemoveNewestFirst(fs, call.dirs)
  BY DEF Cleaned
<1> HIDE DEF fs
<1>5. PICK left \in [0..len -> FileSystems] :
        /\ left[0] = fs
        /\ \A k \in 1..len : left[k] = RemoveDirectory(left[k - 1], call.dirs[len + 1 - k])
        /\ RemoveNewestFirst(fs, call.dirs) = left[len]
  BY <1>1, <1>2, RemovalSteps
<1> HIDE DEF len
<1> DEFINE T == {k \in 0..len : DOMAIN left[k] = before \cup Older(k)}
<1>6. 0 \in T
  BY <1>1, <1>3, <1>5
<1>7. ASSUME NEW k \in 1..len, k - 1 \in T
      PROVE  k \in T
  <2> DEFINE n == len + 1 - k
  <2> DEFINE path == call.dirs[n]
  <2>1. /\ n \in 1..len /\ len - (k - 1) = n /\ len - k = n - 1
        /\ 1..n = 1..(n - 1) \cup {n}
    BY <1>1
  <2>2. path \in Path /\ path \in Prefixes(path)
    BY <1>1, <2>1, PrefixOrder
  <2>3. DOMAIN left[k - 1] = before \cup Older(k - 1)
    BY <1>7
  <2>4. Older(k - 1) = Older(k) \cup {path}
    BY <2>1
  <2>5. path \notin before
    <3>1. path \in Range(call.dirs)
      BY <1>1, <2>1 DEF Range
    <3>2. QED
      BY <1>1, <3>1 DEF Sound, Made
  <2>6. \A i \in 1..(n - 1) : path \notin Prefixes(call.dirs[i])
    BY <1>1, <2>1 DEF Sound
  <2>7. path \notin Older(k)
    <3>1. ASSUME NEW i \in 1..(n - 1)
          PROVE  call.dirs[i] # path
      BY <2>2, <2>6
    <3>2. QED
      BY <2>1, <3>1
  <2>8. ~ \E p \in DOMAIN left[k - 1] : p # path /\ IsPrefix(path, p)
    <3> SUFFICES ASSUME NEW p \in DOMAIN left[k - 1], p # path, IsPrefix(path, p)
                 PROVE  FALSE
      OBVIOUS
    <3>1. left[k - 1] \in FileSystems
      BY <1>1, <1>5
    <3>2. p \in Path
      BY <3>1, FileSystemMember
    <3>3. path \in Prefixes(p)
      BY <2>2, <3>2, PrefixIsPrefix
    <3>4. CASE p \in before
      BY <2>5, <3>3, <3>4 DEF Closed
    <3>5. CASE p \in Older(k)
      <4>1. PICK i \in 1..(n - 1) : p = call.dirs[i]
        BY <2>1, <3>5
      <4>2. QED
        BY <2>6, <3>3, <4>1
    <3>6. QED
      BY <2>3, <2>4, <3>4, <3>5
  <2>9. left[k] = RemoveDirectory(left[k - 1], path)
    BY <1>5
  <2> HIDE DEF path, n
  <2>10. left[k] = Without(left[k - 1], {path})
    BY <2>8, <2>9 DEF RemoveDirectory
  <2>11. DOMAIN left[k] = DOMAIN left[k - 1] \ {path}
    BY <2>10 DEF Without
  <2>12. DOMAIN left[k] = before \cup Older(k)
    BY <2>3, <2>4, <2>5, <2>7, <2>11
  <2>13. QED
    BY <1>1, <2>12
<1> HIDE DEF T
<1>8. len \in T
  <2>1. \A k \in 1..len : k - 1 \in T => k \in T
    BY <1>7
  <2>2. \A k \in 0..len : k \in T
    BY <1>1, <1>6, <2>1, CountedInduction
  <2>3. QED
    BY <1>1, <2>2
<1>9. Older(len) = {}
  BY <1>1
<1>10. DOMAIN left[len] = before
  BY <1>8, <1>9 DEF T
<1>11. left[len] \in FileSystems
  BY <1>1, <1>5
<1>12. QED
  BY <1>4, <1>5, <1>10, <1>11

(* safe_extract_zip leaves the complete archive in its new directory, or   *)
(* what was there before.                                                  *)
LEMMA SafelyExtracted ==
  ASSUME NEW fs \in FileSystems, <<>> \in DOMAIN fs, Closed(DOMAIN fs),
         NEW destination \in Path, Prefixes(destination) \subseteq DOMAIN fs \cup {destination},
         NEW archive \in Seq(Entries), NEW operations \in Nat, NEW fold
  PROVE  LET call == SafeExtract(fs, destination, archive, fold, operations)
         IN  /\ call.ok \in BOOLEAN
             /\ ~call.ok => DOMAIN call.fs = DOMAIN fs
             /\ call.ok =>
                  /\ DOMAIN call.fs
                       = DOMAIN fs \cup {destination} \cup
                         UNION {Prefixes(destination \o archive[i].parts) :
                                  i \in DOMAIN archive}
                  /\ Range(call.files)
                       = UNION {FileAt(destination, archive[i]) : i \in DOMAIN archive}
<1> DEFINE begun == Begun(fs, operations)
<1> DEFINE made == MakeDirectory(begun, destination)
<1> DEFINE after == Extraction(made, destination, archive)
<1> DEFINE call == SafeExtract(fs, destination, archive, fold, operations)
<1>1. /\ begun \in Calls /\ begun.ok /\ begun.fs = fs
      /\ begun.files = <<>> /\ begun.dirs = <<>>
  <2>1. <<>> \in Seq(Path)
    OBVIOUS
  <2>2. QED
    BY <2>1 DEF Begun, Calls
<1>2. Range(<<>>) = {}
  BY EmptyRange
<1>3. Sound(begun, DOMAIN fs)
  <2>1. Range(begun.files) = {} /\ Range(begun.dirs) = {} /\ Made(begun) = {}
    BY <1>1, <1>2, Zenon DEF Made
  <2>2. DOMAIN begun.dirs = {}
    BY <1>1
  <2>3. QED
    BY <1>1, <2>1, <2>2 DEF Sound
<1> HIDE DEF begun
<1>4. CASE ~Admitted(archive, fold)
  <2>1. call = [begun EXCEPT !.ok = FALSE]
    BY <1>4, Zenon DEF SafeExtract, Raised, begun
  <2>2. begun = [fs |-> begun.fs, files |-> begun.files, dirs |-> begun.dirs,
                 ok |-> begun.ok, left |-> begun.left]
    BY <1>1 DEF Calls
  <2> HIDE DEF call
  <2>3. call.ok = FALSE /\ call.fs = fs
    BY <1>1, <2>1, <2>2
  <2>4. QED
    BY <2>3 DEF call
<1>5. CASE Admitted(archive, fold)
  <2>1. call = IF after.ok THEN after ELSE [after EXCEPT !.fs = Cleaned(after)]
    BY <1>5, Zenon DEF SafeExtract, begun
  <2>2. Sound(made, DOMAIN fs)
    BY <1>1, <1>3, DirectoryIsSound
  <2>3. /\ made \in Calls /\ made.files = <<>>
        /\ made.ok => DOMAIN made.fs = DOMAIN fs \cup {destination}
    BY <1>1, DirectoryMade
  <2> HIDE DEF made
  <2>4. made \in SoundCalls(DOMAIN fs)
    BY <2>2, <2>3 DEF SoundCalls
  <2>5. /\ after \in SoundCalls(DOMAIN fs)
        /\ after.ok =>
             /\ made.ok
             /\ DOMAIN after.fs
                  = DOMAIN made.fs \cup
                    UNION {Prefixes(destination \o archive[i].parts) :
                             i \in DOMAIN archive}
             /\ Range(after.files)
                  = Range(made.files) \cup
                    UNION {FileAt(destination, archive[i]) : i \in DOMAIN archive}
    BY <2>4, ArchiveExtracted
  <2> HIDE DEF after
  <2>6. after \in Calls /\ after.ok \in BOOLEAN
    BY <2>5 DEF SoundCalls, Calls
  <2>7. CASE after.ok
    <3>1. call = after
      BY <2>1, <2>7
    <3> HIDE DEF call
    <3>2. QED
      BY <1>2, <2>3, <2>5, <2>6, <2>7, <3>1 DEF call
  <2>8. CASE ~after.ok
    <3>1. DOMAIN Cleaned(after) = DOMAIN fs
      BY <2>5, CleanedIsAsBefore
    <3>2. call = [after EXCEPT !.fs = Cleaned(after)]
      BY <2>1, <2>8
    <3>3. after = [fs |-> after.fs, files |-> after.files, dirs |-> after.dirs,
                   ok |-> after.ok, left |-> after.left]
      BY <2>6 DEF Calls
    <3> DEFINE cleaned == Cleaned(after)
    <3> HIDE DEF call, cleaned
    <3>4. call = [after EXCEPT !.fs = cleaned]
      BY <3>2 DEF cleaned
    <3>5. call.ok = after.ok /\ call.fs = cleaned
      BY <3>3, <3>4
    <3>6. QED
      BY <2>6, <2>8, <3>1, <3>5 DEF call, cleaned
  <2>9. QED
    BY <2>6, <2>7, <2>8
<1>6. QED
  BY <1>4, <1>5

(* Sequences of one and two elements.                                      *)
LEMMA Singles ==
  ASSUME NEW S, NEW a \in S
  PROVE  <<a>> \in Seq(S) /\ Len(<<a>>) = 1 /\ <<a>> # <<>>
OBVIOUS

LEMMA Pairs ==
  ASSUME NEW S, NEW a \in S, NEW b \in S
  PROVE  /\ <<a, b>> \in Seq(S) /\ Len(<<a, b>>) = 2 /\ <<a, b>> # <<>>
         /\ <<a>> \o <<b>> = <<a, b>>
<1>1. /\ <<a, b>> \in Seq(S) /\ Len(<<a, b>>) = 2
      /\ <<a, b>>[1] = a /\ <<a, b>>[2] = b
  OBVIOUS
<1>2. /\ <<a>> \in Seq(S) /\ <<b>> \in Seq(S) /\ Len(<<a>>) = 1 /\ Len(<<b>>) = 1
      /\ <<a>>[1] = a /\ <<b>>[1] = b
  OBVIOUS
<1> DEFINE s == <<a>>
<1> DEFINE t == <<b>>
<1> DEFINE p == <<a, b>>
<1> HIDE DEF s, t, p
<1>3. /\ s \in Seq(S) /\ t \in Seq(S) /\ Len(s) = 1 /\ Len(t) = 1
      /\ s[1] = a /\ t[1] = b
      /\ p \in Seq(S) /\ Len(p) = 2 /\ p[1] = a /\ p[2] = b
  BY <1>1, <1>2 DEF s, t, p
<1>4. /\ s \o t \in Seq(S) /\ Len(s \o t) = 2
      /\ (s \o t)[1] = a /\ (s \o t)[2] = b
  BY <1>3, ConcatProperties
<1>5. \A i \in 1..Len(p) : (s \o t)[i] = p[i]
  BY <1>3, <1>4
<1>6. s \o t = p
  BY <1>3, <1>4, <1>5, SeqEqual
<1>7. p # <<>>
  <2>1. Len(<<>>) = 0 /\ 2 # 0
    OBVIOUS
  <2>2. QED
    BY <1>3, <2>1, Zenon
<1>8. QED
  BY <1>1, <1>6, <1>7 DEF s, t, p

(* The paths that materialize_profile names.                               *)
LEMMA NamedPaths ==
  /\ Validator \in Path /\ Configuration \in Path /\ Repository \in Path
  /\ Scenarios \in Path /\ <<>> \in Path
  /\ Validator # <<>> /\ Configuration # <<>> /\ Repository # <<>>
  /\ Prefixes(<<>>) = {<<>>}
  /\ Prefixes(Validator) = {<<>>, Validator}
  /\ Prefixes(Configuration) = {<<>>, Configuration}
  /\ Prefixes(Repository) = {<<>>, Repository}
  /\ {<<>>, Repository} \subseteq Prefixes(Scenarios)
  /\ Repository \o <<"scenarios.xml">> = Scenarios
<1>1. <<>> \in Path /\ Prefixes(<<>>) = {<<>>}
  <2>1. <<>> \in Path /\ Len(<<>>) = 0
    BY DEF Path
  <2>2. \A q \in Prefixes(<<>>) : q \in Path /\ Len(q) <= 0
    BY <2>1, PrefixesAgree
  <2>3. \A q \in Prefixes(<<>>) : q = <<>>
    BY <2>2 DEF Path
  <2>4. <<>> \in Prefixes(<<>>)
    BY <2>1, PrefixOrder
  <2>5. QED
    BY <2>1, <2>3, <2>4
<1>2. ASSUME NEW name \in FileNames
      PROVE  /\ <<name>> \in Path /\ <<name>> # <<>>
             /\ Prefixes(<<name>>) = {<<>>, <<name>>}
  <2>1. <<name>> \in Path /\ <<name>> # <<>> /\ Len(<<name>>) = 1
    BY Singles DEF Path
  <2>2. Front(<<name>>) = SubSeq(<<name>>, 1, 0)
    BY <2>1 DEF Front
  <2>3. SubSeq(<<name>>, 1, 0) = <<>>
    BY SubSeqEmpty
  <2>4. Prefixes(<<name>>) = Prefixes(<<>>) \cup {<<name>>}
    BY <2>1, <2>2, <2>3, FrontPrefixes
  <2>5. QED
    BY <1>1, <2>1, <2>4
<1>3. Scenarios \in Path /\ Scenarios # <<>> /\ Len(Scenarios) = 2
  BY FileNamesAssumption, Pairs DEF Scenarios, Path
<1>4. Front(Scenarios) = Repository
  <2>1. Front(Scenarios) = SubSeq(Scenarios, 1, 1) /\ 1 \in 0..Len(Scenarios)
    BY <1>3 DEF Front
  <2>2. /\ Front(Scenarios) \in Path /\ Len(Front(Scenarios)) = 1
        /\ \A i \in 1..1 : Front(Scenarios)[i] = Scenarios[i]
    BY <1>3, <2>1, PathCut
  <2>3. Front(Scenarios)[1] = Repository[1]
    BY <2>2 DEF Scenarios, Repository
  <2>4. Repository \in Path /\ Len(Repository) = 1
    BY FileNamesAssumption, Singles DEF Repository, Path
  <2>5. \A i \in 1..Len(Front(Scenarios)) : Front(Scenarios)[i] = Repository[i]
    BY <2>2, <2>3
  <2>6. QED
    BY <2>2, <2>4, <2>5, SeqEqual DEF Path
<1>5. Prefixes(Scenarios) = Prefixes(Repository) \cup {Scenarios}
  BY <1>3, <1>4, FrontPrefixes
<1>6. Repository \o <<"scenarios.xml">> = Scenarios
  BY FileNamesAssumption, Pairs DEF Repository, Scenarios
<1>7. /\ Validator \in Path /\ Validator # <<>>
      /\ Prefixes(Validator) = {<<>>, Validator}
  BY <1>2, FileNamesAssumption DEF Validator
<1>8. /\ Configuration \in Path /\ Configuration # <<>>
      /\ Prefixes(Configuration) = {<<>>, Configuration}
  BY <1>2, FileNamesAssumption DEF Configuration
<1>9. /\ Repository \in Path /\ Repository # <<>>
      /\ Prefixes(Repository) = {<<>>, Repository}
  BY <1>2, FileNamesAssumption DEF Repository
<1>10. QED
  BY <1>1, <1>3, <1>5, <1>6, <1>7, <1>8, <1>9

(* A call that made only copies, these ones unless it has raised.          *)
Copies(call, paths) ==
  /\ call \in Calls
  /\ DOMAIN call.fs \subseteq {<<>>} \cup Range(call.files)
  /\ call.ok => /\ Range(call.files) = paths
                /\ DOMAIN call.fs = {<<>>} \cup paths

(* One more copy is made, or the call has raised.                          *)
LEMMA CopyMade ==
  ASSUME NEW call, NEW paths, Copies(call, paths),
         NEW path \in Path, NEW intact \in BOOLEAN
  PROVE  Copies(MakeFile(call, path, intact), paths \cup {path})
<1> DEFINE after == MakeFile(call, path, intact)
<1>1. call \in Calls /\ call.files \in Seq(Path)
  BY DEF Copies, Calls
<1>2. /\ after \in Calls
      /\ after.ok => /\ call.ok
                     /\ DOMAIN after.fs = DOMAIN call.fs \cup {path}
                     /\ after.files = Append(call.files, path)
      /\ \/ after.fs = call.fs /\ after.files = call.files
         \/ /\ DOMAIN after.fs = DOMAIN call.fs \cup {path}
            /\ after.files = Append(call.files, path)
  BY <1>1, FileMade
<1>3. Range(Append(call.files, path)) = Range(call.files) \cup {path}
  BY <1>1, AppendRange
<1> HIDE DEF after
<1>4. DOMAIN after.fs \subseteq {<<>>} \cup Range(after.files)
  BY <1>2, <1>3 DEF Copies
<1>5. after.ok => /\ Range(after.files) = paths \cup {path}
                  /\ DOMAIN after.fs = {<<>>} \cup (paths \cup {path})
  BY <1>2, <1>3 DEF Copies
<1>6. QED
  BY <1>2, <1>4, <1>5 DEF Copies, after

(* A profile that is materialized holds the two copies and the members of  *)
(* its archive; a failure leaves nothing, when the archive has the         *)
(* scenarios (profiles.py:93-121).                                         *)
THEOREM UnpackedOrNothing ==
  ASSUME NEW fs \in EmptyOrMissing, NEW archive \in Seq(Entries), NEW fold,
         NEW genuine \in {<<TRUE, TRUE>>, <<TRUE, FALSE>>}, NEW operations \in Nat
  PROVE  LET result == Materialized(fs, archive, fold, genuine, operations)
         IN  IF result.ok THEN DOMAIN result.fs = Unpacked(archive)
             ELSE HasScenarios(archive) => DOMAIN result.fs \subseteq {<<>>}
<1> DEFINE fresh == Begun(fs, operations)
<1> DEFINE begun == IF <<>> \in DOMAIN fs THEN fresh ELSE MakeDirectory(fresh, <<>>)
<1> DEFINE first == MakeFile(begun, Validator, genuine[1])
<1> DEFINE copied == MakeFile(first, Configuration, genuine[2])
<1> DEFINE unpacked == SafeExtract(copied.fs, Repository, archive, fold, copied.left)
<1> DEFINE result == IF copied.ok THEN unpacked ELSE copied
<1> DEFINE final == Materialized(fs, archive, fold, genuine, operations)
<1>1. genuine[1] \in BOOLEAN /\ genuine[2] \in BOOLEAN
  <2>1. CASE genuine = <<TRUE, TRUE>>
    BY <2>1, Zenon
  <2>2. CASE genuine = <<TRUE, FALSE>>
    BY <2>2, Zenon
  <2>3. QED
    BY <2>1, <2>2
<1>2. fs \in FileSystems /\ DOMAIN fs \subseteq {<<>>}
  <2>1. CASE fs = [p \in {<<>>} |-> "dir"]
    <3>1. fs \in [{<<>>} -> {"dir", "file"}] /\ {<<>>} \in SUBSET Path
      BY <2>1, NamedPaths
    <3>2. QED
      BY <3>1 DEF FileSystems
  <2>2. CASE fs = [p \in {} |-> "dir"]
    <3>1. fs \in [{} -> {"dir", "file"}] /\ {} \in SUBSET Path
      BY <2>2
    <3>2. QED
      BY <3>1 DEF FileSystems
  <2>3. QED
    BY <2>1, <2>2 DEF EmptyOrMissing
<1>3. fresh \in Calls /\ fresh.fs = fs /\ fresh.files = <<>>
  <2>1. <<>> \in Seq(Path)
    OBVIOUS
  <2>2. QED
    BY <1>2, <2>1 DEF Begun, Calls
<1> HIDE DEF fresh
<1>4. Copies(begun, {})
  <2>1. Range(<<>>) = {}
    BY EmptyRange
  <2>2. CASE <<>> \in DOMAIN fs
    <3>1. begun = fresh /\ DOMAIN fs = {<<>>}
      BY <1>2, <2>2
    <3> HIDE DEF begun
    <3>2. Range(begun.files) = {}
      BY <1>3, <2>1, <3>1, Zenon
    <3>3. QED
      BY <1>3, <3>1, <3>2 DEF Copies
  <2>3. CASE <<>> \notin DOMAIN fs
    <3> DEFINE made == MakeDirectory(fresh, <<>>)
    <3>1. begun = made /\ DOMAIN fs = {}
      BY <1>2, <2>3
    <3>2. /\ made \in Calls /\ made.files = fresh.files
          /\ made.ok => DOMAIN made.fs = DOMAIN fresh.fs \cup {<<>>}
          /\ ~made.ok => made.fs = fresh.fs
      <4> DEFINE root == <<>>
      <4> HIDE DEF root
      <4>1. root \in Path
        BY NamedPaths DEF root
      <4>2. LET r == MakeDirectory(fresh, root)
            IN  /\ r \in Calls /\ r.files = fresh.files
                /\ r.ok => DOMAIN r.fs = DOMAIN fresh.fs \cup {root}
                /\ ~r.ok => r.fs = fresh.fs
        BY <1>3, <4>1, DirectoryMade
      <4>3. QED
        BY <4>2 DEF root
    <3> HIDE DEF begun, made
    <3>3. Range(made.files) = {}
      BY <1>3, <2>1, <3>2, Zenon
    <3>4. Copies(made, {})
      BY <1>3, <3>1, <3>2, <3>3 DEF Copies
    <3>5. QED
      BY <3>1, <3>4
  <2>4. QED
    BY <2>2, <2>3
<1> HIDE DEF begun
<1>5. Copies(first, {} \cup {Validator})
  BY <1>1, <1>4, CopyMade, NamedPaths
<1> HIDE DEF first
<1>6. Copies(copied, ({} \cup {Validator}) \cup {Configuration})
  BY <1>1, <1>5, CopyMade, NamedPaths
<1> HIDE DEF copied
<1>7. /\ copied.ok \in BOOLEAN /\ copied.fs \in FileSystems /\ copied.left \in Nat
      /\ DOMAIN copied.fs \subseteq {<<>>} \cup Range(copied.files)
      /\ copied.ok => DOMAIN copied.fs = {<<>>, Validator, Configuration}
  BY <1>6 DEF Copies, Calls
<1>8. copied.ok =>
        /\ unpacked.ok \in BOOLEAN
        /\ ~unpacked.ok => DOMAIN unpacked.fs = DOMAIN copied.fs
        /\ unpacked.ok =>
             /\ DOMAIN unpacked.fs
                  = DOMAIN copied.fs \cup {Repository} \cup
                    UNION {Prefixes(Repository \o archive[i].parts) :
                             i \in DOMAIN archive}
             /\ Range(unpacked.files)
                  = UNION {FileAt(Repository, archive[i]) : i \in DOMAIN archive}
  <2> SUFFICES ASSUME copied.ok
               PROVE  /\ unpacked.ok \in BOOLEAN
                      /\ ~unpacked.ok => DOMAIN unpacked.fs = DOMAIN copied.fs
                      /\ unpacked.ok =>
                           /\ DOMAIN unpacked.fs
                                = DOMAIN copied.fs \cup {Repository} \cup
                                  UNION {Prefixes(Repository \o archive[i].parts) :
                                           i \in DOMAIN archive}
                           /\ Range(unpacked.files)
                                = UNION {FileAt(Repository, archive[i]) :
                                           i \in DOMAIN archive}
    OBVIOUS
  <2>1. <<>> \in DOMAIN copied.fs /\ Closed(DOMAIN copied.fs)
    BY <1>7, NamedPaths DEF Closed
  <2>2. Prefixes(Repository) \subseteq DOMAIN copied.fs \cup {Repository}
    BY <1>7, NamedPaths
  <2>3. Repository \in Path
    BY NamedPaths
  <2>4. QED
    BY <1>7, <2>1, <2>2, <2>3, SafelyExtracted
<1>9. final = IF result.ok
              THEN [fs |-> result.fs, ok |-> Scenarios \in Range(result.files)]
              ELSE [fs |-> Without(result.fs, Range(copied.files)), ok |-> FALSE]
  BY Zenon DEF Materialized, copied, first, begun, fresh
<1> HIDE DEF unpacked, final
<1>10. CASE result.ok
  <2>1. copied.ok /\ unpacked.ok /\ result = unpacked
    BY <1>7, <1>10
  <2>2. /\ final.fs = unpacked.fs
        /\ final.ok = (Scenarios \in Range(unpacked.files))
    BY <1>9, <1>10, <2>1
  <2>3. CASE Scenarios \in Range(unpacked.files)
    <3>1. PICK i \in DOMAIN archive : Scenarios \in FileAt(Repository, archive[i])
      BY <1>8, <2>1, <2>3
    <3>2. Scenarios = Repository \o archive[i].parts
      BY <3>1 DEF FileAt
    <3> DEFINE places == UNION {Prefixes(Repository \o archive[j].parts) :
                                  j \in DOMAIN archive}
    <3>3. Prefixes(Scenarios) \subseteq places
      BY <3>2
    <3>4. Unpacked(archive) = {Validator, Configuration} \cup places
      BY DEF Unpacked
    <3> HIDE DEF places
    <3>5. <<>> \in places /\ Repository \in places
      BY <3>3, NamedPaths
    <3>6. DOMAIN unpacked.fs
            = {<<>>, Validator, Configuration} \cup {Repository} \cup places
      BY <1>7, <1>8, <2>1 DEF places
    <3>7. DOMAIN final.fs = Unpacked(archive) /\ final.ok
      BY <2>2, <2>3, <3>4, <3>5, <3>6
    <3>8. QED
      BY <3>7 DEF final
  <2>4. CASE Scenarios \notin Range(unpacked.files)
    <3>1. ~HasScenarios(archive)
      <4> SUFFICES ASSUME NEW i \in DOMAIN archive, archive[i].kind = "file",
                          archive[i].parts = <<"scenarios.xml">>
                   PROVE  FALSE
        BY DEF HasScenarios
      <4>1. Scenarios \in FileAt(Repository, archive[i])
        BY NamedPaths DEF FileAt
      <4>2. QED
        BY <1>8, <2>1, <2>4, <4>1
    <3>2. ~final.ok
      BY <2>2, <2>4
    <3>3. QED
      BY <3>1, <3>2 DEF final
  <2>5. QED
    BY <2>3, <2>4
<1>11. CASE ~result.ok
  <2>1. DOMAIN result.fs \subseteq {<<>>} \cup Range(copied.files)
    <3>1. CASE copied.ok
      BY <1>7, <1>8, <1>11, <3>1
    <3>2. CASE ~copied.ok
      BY <1>7, <3>2
    <3>3. QED
      BY <3>1, <3>2
  <2> HIDE DEF result
  <2>2. final.fs = Without(result.fs, Range(copied.files)) /\ ~final.ok
    BY <1>9, <1>11
  <2>3. DOMAIN final.fs = DOMAIN result.fs \ Range(copied.files)
    BY <2>2 DEF Without
  <2>4. DOMAIN final.fs \subseteq {<<>>}
    BY <2>1, <2>3
  <2>5. QED
    BY <2>2, <2>4 DEF final
<1>12. QED
  BY <1>10, <1>11

(* Whatever operation of materialize_profile fails, nothing that was       *)
(* written stays behind; what succeeds is complete (profiles.py:93-121,    *)
(* security.py:126-176).                                                   *)
THEOREM FailureNeverLeavesAnything == Spec => []FailureLeavesNothing
<1>1. FailureLeavesNothing
  <2> SUFFICES ASSUME NEW archive \in Archives, NEW fs \in EmptyOrMissing,
                      NEW operations \in Operations,
                      NEW genuine \in {<<TRUE, TRUE>>, <<TRUE, FALSE>>}
               PROVE  LET result == Materialized(fs, archive, LowerCase, genuine, operations)
                      IN  IF result.ok THEN DOMAIN result.fs = Unpacked(archive)
                          ELSE HasScenarios(archive) => DOMAIN result.fs \subseteq {<<>>}
    BY DEF FailureLeavesNothing
  <2>1. archive \in Seq(Entries) /\ operations \in Nat
    BY ArchivesAssumption, OperationsAssumption
  <2>2. QED
    BY <2>1, UnpackedOrNothing
<1>2. QED
  BY <1>1, PTL

=============================================================================
