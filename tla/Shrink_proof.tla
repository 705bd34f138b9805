----------------------------- MODULE Shrink_proof -----------------------------
(***************************************************************************)
(* Theorems about Shrink, for every finite set of documents, every         *)
(* reduction relation and every importer, flaky or not.                    *)
(***************************************************************************)
EXTENDS Shrink, SequenceLemmas, FiniteSetTheorems, TLAPS

USE DEF Phase, Final, oracles, enumeration, Left, Dropped

-----------------------------------------------------------------------------
(* The variables only take values of their types, and a frontier exists    *)
(* only while shrink_invoice or verify_one_minimal works through it.       *)
THEOREM TypeCorrect == Spec => []TypeOK
<1>1. Init => TypeOK
  BY DocAssumption DEF Init, TypeOK
<1>2. TypeOK /\ [Next]_vars => TypeOK'
  <2> SUFFICES ASSUME TypeOK, [Next]_vars
               PROVE  TypeOK'
    OBVIOUS
  <2> USE DocAssumption, ReduceAssumption DEF TypeOK
  <2>1. CASE CheckInitial
    BY <2>1 DEF CheckInitial, ToEnumerate
  <2>2. CASE RejectInitial
    BY <2>2 DEF RejectInitial
  <2>3. CASE Enumerate
    <3>1. Head(rest) \in Doc /\ Tail(rest) \in Seq(Doc)
      BY <2>3, TailRange DEF Enumerate
    <3>2. Append(pending, Head(rest)) \in Seq(Doc)
      BY <3>1, AppendRange
    <3>3. CASE Met(Head(rest))
      BY <2>3, <3>1, <3>3 DEF Enumerate
    <3>4. CASE ~Met(Head(rest))
      <4>1. /\ pending' = Append(pending, Head(rest)) /\ rest' = Tail(rest)
            /\ checked' = checked \cup {Head(rest)}
            /\ attempts' = attempts + 1
            /\ phase' = "enumerate"
            /\ UNCHANGED <<oracles, current, accepted, asked, refuted>>
        BY <2>3, <3>4 DEF Enumerate
      <4>2. pending' \in Seq(Doc)
        BY <3>2, <4>1
      <4>3. rest' \in Seq(Doc) /\ checked' \subseteq Doc
        BY <3>1, <4>1
      <4>4. attempts' \in Nat
        BY <4>1
      <4>5. QED
        BY <4>1, <4>2, <4>3, <4>4
    <3>5. QED
      BY <3>3, <3>4
  <2>4. CASE Validate
    BY <2>4 DEF Validate
  <2>5. CASE SkipInvalid
    BY <2>5, TailRange DEF SkipInvalid
  <2>6. CASE Reject
    BY <2>6, TailRange DEF Reject
  <2>7. CASE Accept
    BY <2>7, TailRange, AppendRange DEF Accept, ToEnumerate
  <2>8. CASE Finish
    BY <2>8 DEF Finish
  <2>9. CASE StartVerification
    BY <2>9 DEF StartVerification, ToVerify
  <2>10. CASE VerifyNext
    BY <2>10, TailRange DEF VerifyNext
  <2>11. CASE FoundReducible
    BY <2>11 DEF FoundReducible
  <2>12. CASE Certify
    BY <2>12 DEF Certify
  <2>13. CASE Abort
    BY <2>13 DEF Abort, CallsOracle
  <2>14. CASE UNCHANGED vars
    BY <2>14 DEF vars
  <2>15. QED
    BY <2>1, <2>2, <2>3, <2>4, <2>5, <2>6, <2>7, <2>8, <2>9, <2>10, <2>11,
       <2>12, <2>13, <2>14 DEF Next, Progress
<1>3. QED
  BY <1>1, <1>2, PTL DEF Spec

-----------------------------------------------------------------------------
(* What is enumerated and what is in the frontier are reductions of the    *)
(* current invoice.                                                        *)
FrontierReduces ==
  Range(rest) \cup Range(pending) \subseteq Reductions(current)

(* A reduction counts as refuted only when it is valid and the importer    *)
(* can answer that the finding does not show.                              *)
RefutedMayNotShow == \A d \in refuted : valid[d] /\ FALSE \in answers[d]

(* The verification loses no reduction: what it did not refute is invalid  *)
(* or still pending.                                                       *)
VerificationComplete ==
  phase \in {"verify", "minimal"} =>
    \A d \in Reductions(current) :
      valid[d] => d \in refuted \cup Range(pending)

ReducibleHasWitness ==
  phase = "reducible" => \E d \in Reductions(current) : Shows(d)

VerdictInv ==
  /\ FrontierReduces
  /\ OnlyValidShown
  /\ RefutedMayNotShow
  /\ VerificationComplete
  /\ ReducibleHasWitness

(* Each step of the reduction and of its verification.                      *)
LEMMA VerdictInductive ==
  ASSUME TypeOK, TypeOK', VerdictInv, [Next]_vars
  PROVE  VerdictInv'
<1> USE DEF VerdictInv, Reductions
<1>1. CASE CheckInitial
  <2>1. FrontierReduces'
    BY <1>1, EmptyRange DEF CheckInitial, ToEnumerate, FrontierReduces, TypeOK
  <2>2. OnlyValidShown'
    BY <1>1 DEF CheckInitial, InitialAccepted, OnlyValidShown, Shows
  <2>3. QED
    BY <1>1, <2>1, <2>2 DEF CheckInitial, RefutedMayNotShow,
       VerificationComplete, ReducibleHasWitness
<1>2. CASE RejectInitial
  BY <1>2 DEF RejectInitial, FrontierReduces, OnlyValidShown,
     RefutedMayNotShow, VerificationComplete, ReducibleHasWitness
<1>3. CASE Enumerate
  <2>1. /\ Head(rest) \in Doc
        /\ Range(rest) = {Head(rest)} \cup Range(rest')
    BY <1>3, TailRange DEF Enumerate, TypeOK
  <2>2. Range(pending') \subseteq Range(pending) \cup {Head(rest)}
    <3>1. CASE Met(Head(rest))
      BY <1>3, <3>1 DEF Enumerate
    <3>2. CASE ~Met(Head(rest))
      <4>1. pending' = Append(pending, Head(rest))
        BY <1>3, <3>2 DEF Enumerate
      <4>2. QED
        BY <2>1, <4>1, AppendRange DEF TypeOK
    <3>3. QED
      BY <3>1, <3>2
  <2>3. FrontierReduces'
    BY <1>3, <2>1, <2>2 DEF Enumerate, FrontierReduces
  <2>4. OnlyValidShown'
    BY <1>3 DEF Enumerate, OnlyValidShown, Shows
  <2>5. QED
    BY <1>3, <2>3, <2>4 DEF Enumerate, RefutedMayNotShow,
       VerificationComplete, ReducibleHasWitness
<1>4. CASE Validate
  BY <1>4 DEF Validate, FrontierReduces, OnlyValidShown, Shows,
     RefutedMayNotShow, VerificationComplete, ReducibleHasWitness
<1>5. CASE SkipInvalid
  <2>1. Range(pending) = {Head(pending)} \cup Range(pending')
    BY <1>5, TailRange DEF SkipInvalid, TypeOK
  <2>2. QED
    BY <1>5, <2>1 DEF SkipInvalid, FrontierReduces, OnlyValidShown, Shows,
       RefutedMayNotShow, VerificationComplete, ReducibleHasWitness
<1>6. CASE Reject
  <2>1. Range(pending) = {Head(pending)} \cup Range(pending')
    BY <1>6, TailRange DEF Reject, TypeOK
  <2>2. OnlyValidShown'
    BY <1>6 DEF Reject, Passes, OnlyValidShown, Shows
  <2>3. QED
    BY <1>6, <2>1, <2>2 DEF Reject, FrontierReduces, RefutedMayNotShow,
       VerificationComplete, ReducibleHasWitness
<1>7. CASE Accept
  <2>1. FrontierReduces'
    BY <1>7, EmptyRange DEF Accept, ToEnumerate, FrontierReduces
  <2>2. OnlyValidShown'
    BY <1>7 DEF Accept, Passes, Preserves, OnlyValidShown, Shows
  <2>3. QED
    BY <1>7, <2>1, <2>2 DEF Accept, RefutedMayNotShow, VerificationComplete,
       ReducibleHasWitness
<1>8. CASE Finish
  BY <1>8 DEF Finish, FrontierReduces, OnlyValidShown, Shows,
     RefutedMayNotShow, VerificationComplete, ReducibleHasWitness
<1>9. CASE StartVerification
  <2>1. FrontierReduces' /\ VerificationComplete'
    BY <1>9 DEF StartVerification, ToVerify, FrontierReduces,
       VerificationComplete
  <2>2. QED
    BY <1>9, <2>1 DEF StartVerification, OnlyValidShown, Shows,
       RefutedMayNotShow, ReducibleHasWitness
<1>10. CASE VerifyNext
  <2>1. Range(pending) = {Head(pending)} \cup Range(pending')
    BY <1>10, TailRange DEF VerifyNext, TypeOK
  <2>2. VerificationComplete' /\ RefutedMayNotShow'
    BY <1>10, <2>1 DEF VerifyNext, Passes, VerificationComplete,
       RefutedMayNotShow
  <2>3. QED
    BY <1>10, <2>1, <2>2 DEF VerifyNext, FrontierReduces, OnlyValidShown,
       Shows, ReducibleHasWitness
<1>11. CASE FoundReducible
  <2>1. Head(pending) \in Reductions(current) /\ Shows(Head(pending))
    BY <1>11, TailRange DEF FoundReducible, Passes, FrontierReduces, TypeOK,
       Shows
  <2>2. ReducibleHasWitness'
    BY <1>11, <2>1 DEF FoundReducible, ReducibleHasWitness, Shows
  <2>3. QED
    BY <1>11, <2>2, EmptyRange DEF FoundReducible, FrontierReduces,
       OnlyValidShown, Shows, RefutedMayNotShow, VerificationComplete
<1>12. CASE Certify
  BY <1>12 DEF Certify, FrontierReduces, OnlyValidShown, Shows,
     RefutedMayNotShow, VerificationComplete, ReducibleHasWitness
<1>13. CASE Abort
  BY <1>13, EmptyRange DEF Abort, FrontierReduces, OnlyValidShown,
     RefutedMayNotShow, VerificationComplete, ReducibleHasWitness
<1>14. CASE UNCHANGED vars
  BY <1>14 DEF vars, FrontierReduces, OnlyValidShown, Shows,
     RefutedMayNotShow, VerificationComplete, ReducibleHasWitness
<1>15. QED
  BY <1>1, <1>2, <1>3, <1>4, <1>5, <1>6, <1>7, <1>8, <1>9, <1>10, <1>11,
     <1>12, <1>13, <1>14 DEF Next, Progress

(* VerdictInv holds in every behaviour.                                     *)
LEMMA VerdictInvariant == Spec => []VerdictInv
<1>1. Init => VerdictInv
  BY EmptyRange DEF Init, VerdictInv, FrontierReduces, OnlyValidShown,
     RefutedMayNotShow, VerificationComplete, ReducibleHasWitness
<1>2. TypeOK /\ TypeOK' /\ VerdictInv /\ [Next]_vars => VerdictInv'
  BY VerdictInductive
<1>3. QED
  BY <1>1, <1>2, TypeCorrect, PTL DEF Spec

(* An importer never sees an invalid document, and what the reduction holds *)
(* shows the finding (shrink_invoice, verify_one_minimal).                 *)
THEOREM OnlyValidDocumentsShown == Spec => []OnlyValidShown
<1>1. VerdictInv => OnlyValidShown
  BY DEF VerdictInv
<1>2. QED
  BY <1>1, VerdictInvariant, PTL

(* The verdict "minimal" is only given after every valid reduction of the  *)
(* result was seen without the finding (verify_one_minimal).               *)
THEOREM MinimalityIsVerified == Spec => []MinimalIsVerified
<1>1. TypeOK /\ VerdictInv => MinimalIsVerified
  BY EmptyRange DEF TypeOK, VerdictInv, OnlyValidShown, VerificationComplete,
     MinimalIsVerified
<1>2. QED
  BY <1>1, TypeCorrect, VerdictInvariant, PTL

(* A deterministic importer that may answer no never answers yes.           *)
LEMMA DeterministicAnswers ==
  ASSUME TypeOK, Deterministic, NEW d \in Doc, FALSE \in answers[d]
  PROVE  TRUE \notin answers[d]
<1>1. answers[d] \subseteq {TRUE, FALSE}
  BY AnswersAssumption DEF TypeOK
<1>2. IsFiniteSet({TRUE} \cup {FALSE})
  BY FS_Singleton, FS_AddElement
<1>3. IsFiniteSet(answers[d])
  <2>1. answers[d] \in SUBSET ({TRUE} \cup {FALSE})
    BY <1>1
  <2>2. QED
    BY ONLY <1>2, <2>1, FS_Subset
<1>4. PICK b : answers[d] = {b}
  BY <1>3, FS_Singleton DEF Deterministic
<1>5. QED
  BY <1>4

(* Both verdicts are true of a deterministic importer, whatever the profile *)
(* accepts and however the reductions overlap.                             *)
THEOREM VerdictsAreTrue == Spec => []VerdictIsTrue
<1>1. TypeOK /\ VerdictInv => VerdictIsTrue
  <2> SUFFICES ASSUME TypeOK, VerdictInv, Deterministic
               PROVE  /\ phase = "minimal" =>
                            \A d \in Reductions(current) : ~Shows(d)
                      /\ phase = "reducible" =>
                            \E d \in Reductions(current) : Shows(d)
    BY DEF VerdictIsTrue
  <2>1. ASSUME phase = "minimal", NEW d \in Reductions(current), Shows(d)
        PROVE  FALSE
    <3>1. d \in Doc
      BY SeqRange, ReduceAssumption DEF Reductions, TypeOK
    <3>2. d \in refuted
      BY <2>1, EmptyRange DEF TypeOK, VerdictInv, VerificationComplete, Shows
    <3>3. FALSE \in answers[d]
      BY <3>2 DEF VerdictInv, RefutedMayNotShow
    <3>4. QED
      BY <2>1, <3>1, <3>3, DeterministicAnswers DEF Shows
  <2>2. QED
    BY <2>1 DEF VerdictInv, ReducibleHasWitness
<1>2. QED
  BY <1>1, TypeCorrect, VerdictInvariant, PTL

(* A deterministic importer never makes verify_one_minimal raise: the      *)
(* second _check_initial can only fail for a flaky one.                    *)
THEOREM OnlyFlakinessRejects == Spec => RejectionNeedsFlakiness
<1>1. TypeOK /\ VerdictInv /\ [Next]_vars =>
        [phase = "recheck" /\ phase' = "rejected" => ~Deterministic]_vars
  <2> SUFFICES ASSUME TypeOK, VerdictInv, [Next]_vars,
                      phase = "recheck", phase' = "rejected", Deterministic
               PROVE  FALSE
    OBVIOUS
  <2>1. RejectInitial
    BY DEF Next, Progress, vars, CheckInitial, Enumerate, Validate,
       SkipInvalid, Reject, Accept, Finish, StartVerification, VerifyNext,
       FoundReducible, Certify, Abort
  <2>2. valid[current] /\ TRUE \in answers[current]
    BY DEF VerdictInv, OnlyValidShown, Shows
  <2>3. FALSE \in answers[current]
    BY <2>1, <2>2 DEF RejectInitial, InitialRejected
  <2>4. QED
    BY <2>2, <2>3, DeterministicAnswers DEF TypeOK
<1>2. QED
  BY <1>1, TypeCorrect, VerdictInvariant, PTL DEF Spec, RejectionNeedsFlakiness

-----------------------------------------------------------------------------
(* Every step of reduction and verification is a step of the abstract      *)
(* minimization, or changes nothing of it.                                 *)

(* Each step is a step of Minimization, or none.                            *)
LEMMA StepImplements ==
  ASSUME TypeOK, TypeOK', VerdictInv, VerdictInv', [Next]_vars
  PROVE  [Abstract!MNext]_(Abstract!mvars)
<1>0. Abstract!Smaller = Reductions(current)
  BY DEF Abstract!Smaller, Abstract!Range, Range, Reductions
<1> USE DEF Abstract!mvars, Abstract!MNext, Abstract!Shows,
            Abstract!MayNotShow
<1>1. CASE RejectInitial
  BY <1>1 DEF RejectInitial, Abstract!GiveUp
<1>2. CASE Accept
  <2>1. Head(pending) \in Reductions(current) /\ Shows(Head(pending))
    BY <1>2, TailRange DEF Accept, Passes, Preserves, VerdictInv,
       FrontierReduces, TypeOK, Shows
  <2>2. Abstract!Replace
    BY <1>0, <1>2, <2>1 DEF Accept, Abstract!Replace, Shows
  <2>3. QED
    BY <2>2
<1>3. CASE FoundReducible
  <2>1. Head(pending) \in Reductions(current) /\ Shows(Head(pending))
    BY <1>3, TailRange DEF FoundReducible, Passes, VerdictInv,
       FrontierReduces, TypeOK, Shows
  <2>2. Abstract!Refute
    BY <1>0, <1>3, <2>1 DEF FoundReducible, Abstract!Refute, Shows
  <2>3. QED
    BY <2>2
<1>4. CASE Certify
  <2>1. \A d \in Reductions(current) : valid[d] => FALSE \in answers[d]
    BY <1>4, EmptyRange DEF Certify, VerdictInv, VerificationComplete,
       RefutedMayNotShow
  <2>2. Shows(current)
    BY <1>4 DEF Certify, VerdictInv, OnlyValidShown
  <2>3. Abstract!Certify
    BY <1>0, <1>4, <2>1, <2>2 DEF Certify, Abstract!Certify, Shows
  <2>4. QED
    BY <2>3
<1>5. CASE Abort
  BY <1>5 DEF Abort, CallsOracle, Abstract!GiveUp
<1>6. CASE CheckInitial \/ Enumerate \/ Validate \/ SkipInvalid \/ Reject
             \/ Finish \/ StartVerification \/ VerifyNext
  BY <1>6 DEF CheckInitial, Enumerate, Validate, SkipInvalid, Reject, Finish,
     StartVerification, VerifyNext
<1>7. CASE UNCHANGED vars
  BY <1>7 DEF vars
<1>8. QED
  BY <1>1, <1>2, <1>3, <1>4, <1>5, <1>6, <1>7 DEF Next, Progress

(* shrink_invoice followed by verify_one_minimal implements Minimization.  *)
THEOREM ShrinkImplementsMinimization == Spec => ImplementsMinimization
<1>1. Init => Abstract!MInit
  BY AnswersAssumption DEF Init, Abstract!MInit
<1>2. TypeOK /\ TypeOK' /\ VerdictInv /\ VerdictInv' /\ [Next]_vars
        => [Abstract!MNext]_(Abstract!mvars)
  BY StepImplements
<1>3. QED
  BY <1>1, <1>2, TypeCorrect, VerdictInvariant, PTL
     DEF Spec, ImplementsMinimization, Abstract!MSpec

-----------------------------------------------------------------------------
(* Bookkeeping: what is counted, and what the importer was asked about.    *)

(* The frontier is new: each of its documents is in it once, was met in    *)
(* this round and was never shown to the importer.                         *)
FrontierIsNew ==
  phase \in {"enumerate", "evaluate"} =>
    /\ IsInjective(pending)
    /\ Range(pending) \subseteq checked \ asked

BookInv ==
  /\ AttemptsCountDocuments
  /\ asked \subseteq checked
  /\ phase = "check" => asked = {}
  /\ FrontierIsNew

(* Each step of the counting and of the frontier.                           *)
LEMMA BookInductive ==
  ASSUME TypeOK, TypeOK', BookInv, [Next]_vars
  PROVE  BookInv'
<1> USE DEF BookInv
<1>1. CASE CheckInitial
  <2>1. phase = "check" /\ pending = <<>> /\ pending' = <<>>
    BY <1>1 DEF CheckInitial, TypeOK
  <2>2. FrontierIsNew'
    BY <2>1, EmptyRange DEF FrontierIsNew, IsInjective
  <2>3. AttemptsCountDocuments'
    BY <1>1, FS_Singleton DEF CheckInitial, AttemptsCountDocuments
  <2>4. QED
    BY <1>1, <2>2, <2>3 DEF CheckInitial
<1>2. CASE Enumerate
  <2>1. Head(rest) \in Doc
    BY <1>2, TailRange DEF Enumerate, TypeOK
  <2>2. CASE Met(Head(rest))
    BY <1>2, <2>2 DEF Enumerate, FrontierIsNew, AttemptsCountDocuments
  <2>3. CASE ~Met(Head(rest))
    <3>1. /\ Head(rest) \notin checked
          /\ pending' = Append(pending, Head(rest))
          /\ checked' = checked \cup {Head(rest)}
          /\ attempts' = attempts + 1
          /\ UNCHANGED <<phase, asked>>
          /\ phase = "enumerate"
      BY <1>2, <2>3 DEF Enumerate, Met
    <3>2. IsFiniteSet(checked)
      BY DocAssumption, FS_Subset DEF TypeOK
    <3>3. AttemptsCountDocuments'
      BY <3>1, <3>2, FS_AddElement DEF AttemptsCountDocuments
    <3>4. Range(pending') = Range(pending) \cup {Head(rest)}
      BY <2>1, <3>1, AppendRange DEF TypeOK
    <3>5. IsInjective(pending')
      <4>1. IsInjective(pending) /\ Head(rest) \notin Range(pending)
        BY <3>1 DEF FrontierIsNew
      <4>2. pending \in Seq(Doc)
        BY DEF TypeOK
      <4>3. QED
        BY <2>1, <3>1, <4>1, <4>2, AppendNewInjective
    <3>6. FrontierIsNew'
      BY <3>1, <3>4, <3>5 DEF FrontierIsNew
    <3>7. QED
      BY <3>1, <3>3, <3>6
  <2>4. QED
    BY <2>2, <2>3
<1>3. CASE SkipInvalid \/ Reject
  <2>1. /\ phase = "evaluate" /\ pending # <<>>
        /\ pending' = Tail(pending)
        /\ asked' \subseteq asked \cup {Head(pending)}
        /\ UNCHANGED <<phase, checked, attempts>>
    BY <1>3 DEF SkipInvalid, Reject
  <2>2. /\ IsInjective(pending')
        /\ Head(pending) \notin Range(pending')
    BY <2>1, TailInjective DEF TypeOK, FrontierIsNew
  <2>3. Range(pending) = {Head(pending)} \cup Range(pending')
    BY <2>1, TailRange DEF TypeOK
  <2>4. QED
    BY <2>1, <2>2, <2>3 DEF FrontierIsNew, AttemptsCountDocuments
<1>4. CASE Accept
  <2>1. Head(pending) \in checked
    BY <1>4, TailRange DEF Accept, TypeOK, FrontierIsNew
  <2>2. FrontierIsNew'
    BY <1>4, EmptyRange DEF Accept, FrontierIsNew, IsInjective
  <2>3. QED
    BY <1>4, <2>1, <2>2 DEF Accept, AttemptsCountDocuments
<1>5. CASE Validate
  BY <1>5 DEF Validate, FrontierIsNew, AttemptsCountDocuments
<1>6. CASE RejectInitial \/ Finish \/ StartVerification \/ VerifyNext
             \/ FoundReducible \/ Certify \/ Abort
  BY <1>6 DEF RejectInitial, Finish, StartVerification, VerifyNext,
     FoundReducible, Certify, Abort, FrontierIsNew, AttemptsCountDocuments
<1>7. CASE UNCHANGED vars
  BY <1>7 DEF vars, FrontierIsNew, AttemptsCountDocuments
<1>8. QED
  BY <1>1, <1>2, <1>3, <1>4, <1>5, <1>6, <1>7 DEF Next, Progress

(* BookInv holds in every behaviour.                                        *)
LEMMA BookInvariant == Spec => []BookInv
<1>1. Init => BookInv
  BY EmptyRange, FS_EmptySet DEF Init, BookInv, FrontierIsNew,
     AttemptsCountDocuments, IsInjective
<1>2. TypeOK /\ TypeOK' /\ BookInv /\ [Next]_vars => BookInv'
  BY BookInductive
<1>3. QED
  BY <1>1, <1>2, TypeCorrect, PTL DEF Spec

(* attempts is the number of documents that were met (shrink_invoice).     *)
THEOREM AttemptsCounted == Spec => []AttemptsCountDocuments
<1>1. BookInv => AttemptsCountDocuments
  BY DEF BookInv
<1>2. QED
  BY <1>1, BookInvariant, PTL

(* However the paths of reductions meet, shrink_invoice shows a document   *)
(* to the importer at most once.                                           *)
THEOREM EachAskedOnce == Spec => NeverAskedTwice
<1>1. TypeOK /\ BookInv /\ [Next]_vars =>
        [phase = "evaluate" /\ pending # <<>> /\ valid[Head(pending)]
           /\ phase' # "aborted"
         => Head(pending) \notin asked]_vars
  BY TailRange DEF TypeOK, BookInv, FrontierIsNew
<1>2. QED
  BY <1>1, TypeCorrect, BookInvariant, PTL DEF Spec, NeverAskedTwice

-----------------------------------------------------------------------------
(* The recorded reductions lead, one step at a time, from the candidate to *)
(* the invoice that is kept (MinimizationProof.accepted_operations).       *)
THEOREM AcceptedLeadsToResult == Spec => []AcceptedIsAPath
<1> DEFINE Path == <<Original>> \o accepted
<1>1. Init => AcceptedIsAPath
  BY DocAssumption DEF Init, AcceptedIsAPath
<1>2. TypeOK /\ TypeOK' /\ VerdictInv /\ AcceptedIsAPath /\ [Next]_vars
        => AcceptedIsAPath'
  <2> SUFFICES ASSUME TypeOK, TypeOK', VerdictInv, AcceptedIsAPath,
                      [Next]_vars
               PROVE  AcceptedIsAPath'
    OBVIOUS
  <2>1. CASE Accept
    <3> DEFINE x == Head(pending)
               n == Len(accepted)
    <3>1. /\ x \in Doc /\ x \in Reductions(current)
          /\ accepted' = Append(accepted, x) /\ current' = x
      BY <2>1, TailRange DEF Accept, TypeOK, VerdictInv, FrontierReduces
    <3>2. /\ n \in Nat
          /\ accepted \in Seq(Doc) /\ Original \in Doc
          /\ Len(Path) = n + 1
          /\ DOMAIN accepted = 1..n
          /\ current = Path[n + 1]
          /\ \A i \in 1..n : Path[i + 1] \in Reductions(Path[i])
      <4>1. accepted \in Seq(Doc) /\ Original \in Doc
        BY DocAssumption DEF TypeOK
      <4>2. n \in Nat /\ Len(Path) = n + 1 /\ DOMAIN accepted = 1..n
        BY <4>1
      <4>3. /\ current = Path[Len(Path)]
            /\ \A i \in DOMAIN accepted : Path[i + 1] \in Reductions(Path[i])
        BY DEF AcceptedIsAPath
      <4>4. QED
        BY <4>1, <4>2, <4>3
    <3>3. /\ Len(Path') = n + 2
          /\ Path'[n + 2] = x
          /\ \A i \in 1..(n + 1) : Path'[i] = Path[i]
          /\ DOMAIN accepted' = 1..(n + 1)
      BY <3>1, <3>2
    <3> HIDE DEF Path, n, x
    <3>4. \A i \in 1..(n + 1) : Path'[i + 1] \in Reductions(Path'[i])
      <4>1. TAKE i \in 1..(n + 1)
      <4>2. CASE i = n + 1
        <5>1. Path'[i + 1] = x /\ Path'[i] = current
          BY <3>2, <3>3, <4>2
        <5>2. QED
          BY <3>1, <5>1
      <4>3. CASE i \in 1..n
        <5>1. Path'[i + 1] = Path[i + 1] /\ Path'[i] = Path[i]
          BY <3>2, <3>3, <4>3
        <5>2. QED
          BY <3>2, <4>3, <5>1
      <4>4. QED
        BY <3>2, <4>2, <4>3
    <3>5. QED
      BY <3>1, <3>3, <3>4 DEF AcceptedIsAPath, Path, n
  <2>2. CASE UNCHANGED <<accepted, current>>
    BY <2>2 DEF AcceptedIsAPath, Reductions
  <2>3. QED
    BY <2>1, <2>2 DEF Next, Progress, vars, CheckInitial, RejectInitial,
       Enumerate, Validate, SkipInvalid, Reject, Finish, StartVerification,
       VerifyNext, FoundReducible, Certify, Abort
<1>3. QED
  BY <1>1, <1>2, TypeCorrect, VerdictInvariant, PTL DEF Spec

=============================================================================
