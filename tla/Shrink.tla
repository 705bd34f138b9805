-------------------------------- MODULE Shrink --------------------------------
(***************************************************************************)
(* shrink_invoice and verify_one_minimal (src/rechnungsprobe/shrink.py) as *)
(* the campaign runs them, one after the other, on one candidate.          *)
(*                                                                         *)
(* The profile's verdict on a document never changes (the campaign caches  *)
(* it); the importer is asked every time, and may be flaky: answers[d] is  *)
(* the set of answers it can give on d.  Each call of it is one step.      *)
(***************************************************************************)
EXTENDS Naturals, Sequences, FiniteSets, SequencesExt

CONSTANTS Doc,        \* serialized invoices
          Reduce,     \* Doc -> its one-step reductions, in declared order
          Original,   \* the candidate on which the finding was seen
          Answers     \* the kinds of importer behaviour on one document

ASSUME DocAssumption == Original \in Doc /\ IsFiniteSet(Doc)
ASSUME ReduceAssumption == Reduce \in [Doc -> Seq(Doc)]
ASSUME AnswersAssumption == Answers \subseteq (SUBSET BOOLEAN) \ {{}}

VARIABLES
  \* the two oracles
  valid,      \* Doc -> BOOLEAN: is_valid / validate_batch
  answers,    \* Doc -> Answers: preserves_finding
  \* the locals of the two functions
  phase,      \* where the run is, or how it ended
  current,    \* the smallest invoice accepted so far
  accepted,   \* the accepted reductions, in order
  checked,    \* the documents that were ever put in a frontier
  attempts,   \* shrink_invoice's counter
  rest,       \* the reductions left to enumerate in this round
  pending,    \* what is left of the frontier, or of the verification
  \* history
  asked,      \* the candidates shrink_invoice showed to the importer
  refuted     \* the reductions the verification saw without the finding

oracles == <<valid, answers>>
enumeration == <<checked, attempts, rest>>
vars == <<oracles, phase, current, accepted, enumeration, pending, asked,
          refuted>>

Final == {"minimal", "reducible", "rejected", "aborted"}
Phase == {"check", "enumerate", "evaluate", "recheck", "verify"} \cup Final

-----------------------------------------------------------------------------
Init ==
  /\ valid \in [Doc -> BOOLEAN]
  /\ answers \in [Doc -> Answers]
  /\ phase = "check"
  /\ current = Original
  /\ accepted = <<>>
  /\ checked = {}
  /\ attempts = 0
  /\ rest = <<>>
  /\ pending = <<>>
  /\ asked = {}
  /\ refuted = {}

(* _check_initial, before the reduction and again before the verification: *)
(* the invoice must be valid and must show the finding.                    *)
InitialAccepted == valid[current] /\ TRUE \in answers[current]
InitialRejected == ~valid[current] \/ FALSE \in answers[current]

(* The verdict of the profile on a candidate of the frontier.              *)
PassesWithoutVerdict(d) == TRUE
Passes(d) == valid[d]

(* A round enumerates the reductions of the current invoice and leaves out *)
(* those it met before.                                                    *)
ToEnumerate(d) == Reduce[d]

NeverMet(d) == FALSE
Met(d) == d \in checked

(* The loops over a frontier take one candidate after the other, or end    *)
(* with the rest of it dropped.                                            *)
Untouched == pending
Left == Tail(pending)
Dropped == <<>>

(* The reductions of the verification: all of them, whatever was checked.  *)
Unmet == SelectSeq(Reduce[current], LAMBDA d : d \notin checked)
ToVerify == Reduce[current]

CheckInitial ==
  /\ phase = "check"
  /\ InitialAccepted
  /\ phase' = "enumerate"
  /\ checked' = {current}
  /\ attempts' = 1
  /\ rest' = ToEnumerate(current)
  /\ UNCHANGED <<oracles, current, accepted, pending, asked, refuted>>

(* ValueError of either _check_initial. *)
RejectInitial ==
  /\ phase \in {"check", "recheck"}
  /\ InitialRejected
  /\ phase' = "rejected"
  /\ UNCHANGED <<oracles, current, accepted, enumeration, pending, asked,
                 refuted>>

(* A reduction that was not met before is marked checked, counted and put  *)
(* in the frontier.                                                        *)
Enumerate ==
  /\ phase = "enumerate"
  /\ rest # <<>>
  /\ rest' = Tail(rest)
  /\ \/ /\ Met(Head(rest))
        /\ UNCHANGED <<checked, attempts, pending>>
     \/ /\ ~Met(Head(rest))
        /\ checked' = checked \cup {Head(rest)}
        /\ attempts' = attempts + 1
        /\ pending' = Append(pending, Head(rest))
  /\ UNCHANGED <<oracles, phase, current, accepted, asked, refuted>>

(* The whole frontier is validated as a batch. *)
Validate ==
  /\ phase = "enumerate"
  /\ rest = <<>>
  /\ phase' = "evaluate"
  /\ UNCHANGED <<oracles, current, accepted, enumeration, pending, asked,
                 refuted>>

(* A candidate the profile rejects never reaches the importer. *)
SkipInvalid ==
  /\ phase = "evaluate"
  /\ pending # <<>>
  /\ ~Passes(Head(pending))
  /\ pending' = Left
  /\ UNCHANGED <<oracles, phase, current, accepted, enumeration, asked,
                 refuted>>

Reject ==
  /\ phase = "evaluate"
  /\ pending # <<>>
  /\ Passes(Head(pending))
  /\ FALSE \in answers[Head(pending)]
  /\ asked' = asked \cup {Head(pending)}
  /\ pending' = Left
  /\ UNCHANGED <<oracles, phase, current, accepted, enumeration, refuted>>

(* The first candidate that preserves the finding is taken and the rest of *)
(* the frontier is dropped, although it stays in checked.                  *)
Regardless(d) == TRUE
Preserves(d) == TRUE \in answers[d]

Accept ==
  /\ phase = "evaluate"
  /\ pending # <<>>
  /\ Passes(Head(pending))
  /\ Preserves(Head(pending))
  /\ asked' = asked \cup {Head(pending)}
  /\ current' = Head(pending)
  /\ accepted' = Append(accepted, Head(pending))
  /\ pending' = Dropped
  /\ rest' = ToEnumerate(Head(pending))
  /\ phase' = "enumerate"
  /\ UNCHANGED <<oracles, checked, attempts, refuted>>

(* A frontier without an acceptance ends shrink_invoice. *)
Finish ==
  /\ phase = "evaluate"
  /\ pending = <<>>
  /\ phase' = "recheck"
  /\ UNCHANGED <<oracles, current, accepted, enumeration, pending, asked,
                 refuted>>

(* verify_one_minimal starts over: nothing is taken from checked. *)
StartVerification ==
  /\ phase = "recheck"
  /\ InitialAccepted
  /\ phase' = "verify"
  /\ pending' = ToVerify
  /\ UNCHANGED <<oracles, current, accepted, enumeration, asked, refuted>>

VerifyNext ==
  /\ phase = "verify"
  /\ pending # <<>>
  /\ \/ /\ ~Passes(Head(pending))
        /\ UNCHANGED refuted
     \/ /\ Passes(Head(pending))
        /\ FALSE \in answers[Head(pending)]
        /\ refuted' = refuted \cup {Head(pending)}
  /\ pending' = Left
  /\ UNCHANGED <<oracles, phase, current, accepted, enumeration, asked>>

FoundReducible ==
  /\ phase = "verify"
  /\ pending # <<>>
  /\ Passes(Head(pending))
  /\ TRUE \in answers[Head(pending)]
  /\ phase' = "reducible"
  /\ pending' = Dropped
  /\ UNCHANGED <<oracles, current, accepted, enumeration, asked, refuted>>

Certify ==
  /\ phase = "verify"
  /\ pending = <<>>
  /\ phase' = "minimal"
  /\ UNCHANGED <<oracles, current, accepted, enumeration, pending, asked,
                 refuted>>

(* The steps that call the validator or the importer. *)
CallsOracle ==
  \/ phase \in {"check", "recheck"}
  \/ phase = "enumerate" /\ rest = <<>> /\ pending # <<>>
  \/ phase \in {"evaluate", "verify"} /\ pending # <<>> /\ Passes(Head(pending))

(* Such a call raises: a failed or malformed validator run, a changed      *)
(* target digest, an importer output that is not the declared JSON.        *)
Abort ==
  /\ CallsOracle
  /\ phase' = "aborted"
  /\ pending' = Dropped
  /\ UNCHANGED <<oracles, current, accepted, enumeration, asked, refuted>>

Progress ==
  \/ CheckInitial \/ RejectInitial
  \/ Enumerate \/ Validate \/ SkipInvalid \/ Reject \/ Accept \/ Finish
  \/ StartVerification \/ VerifyNext \/ FoundReducible \/ Certify

Next == Progress \/ Abort

Spec == Init /\ [][Next]_vars

(* Both functions run in one thread, and every call they make returns      *)
(* within its policy's timeout; that one raises is possible, never needed. *)
FairSpec == Spec /\ WF_vars(Progress)

-----------------------------------------------------------------------------
Reductions(d) == Range(Reduce[d])
Deterministic == \A d \in Doc : Cardinality(answers[d]) = 1
Shows(d) == valid[d] /\ TRUE \in answers[d]

(* Types; a frontier exists only while it is being worked through. *)
TypeOK ==
  /\ valid \in [Doc -> BOOLEAN]
  /\ answers \in [Doc -> Answers]
  /\ phase \in Phase
  /\ current \in Doc
  /\ accepted \in Seq(Doc)
  /\ checked \subseteq Doc
  /\ attempts \in Nat
  /\ rest \in Seq(Doc)
  /\ rest # <<>> => phase = "enumerate"
  /\ pending \in Seq(Doc)
  /\ pending # <<>> => phase \in {"enumerate", "evaluate", "verify"}
  /\ asked \subseteq Doc
  /\ refuted \subseteq Doc

(* Every document the importer was shown by the shrinker is valid under    *)
(* the pinned profile, and the invoice it holds is one on which the        *)
(* finding was shown (shrink_invoice: an invalid candidate never reaches   *)
(* the predicate; only a preserving one is accepted).                      *)
OnlyValidShown ==
  /\ \A d \in asked : valid[d]
  /\ phase \notin {"check", "rejected", "aborted"} => Shows(current)

(* The recorded operations replay: each accepted invoice is a one-step     *)
(* reduction of the one before it, from the candidate to the result        *)
(* (MinimizationProof.accepted_operations).                                *)
AcceptedIsAPath ==
  LET path == <<Original>> \o accepted
  IN  /\ current = path[Len(path)]
      /\ \A i \in DOMAIN accepted : path[i + 1] \in Reductions(path[i])

(* attempts counts the distinct documents that were validated, whatever    *)
(* was skipped, dropped or met twice (asserted by tests/test_shrink.py).   *)
AttemptsCountDocuments == attempts = Cardinality(checked)

(* The verdict 1-minimal rests on the verification's own observations:     *)
(* each valid one-step reduction of the result was shown to the importer   *)
(* again, and the finding did not show (verify_one_minimal).               *)
MinimalIsVerified ==
  phase = "minimal" =>
    /\ Shows(current)
    /\ \A d \in Reductions(current) : valid[d] => d \in refuted

(* With a deterministic importer the verdict is the truth. *)
VerdictIsTrue ==
  Deterministic =>
    /\ phase = "minimal" => \A d \in Reductions(current) : ~Shows(d)
    /\ phase = "reducible" => \E d \in Reductions(current) : Shows(d)

(* Only a flaky importer makes the verification reject the invoice that    *)
(* the reduction just accepted (ValueError from the second _check_initial).*)
RejectionNeedsFlakiness ==
  [][phase = "recheck" /\ phase' = "rejected" => ~Deterministic]_vars

(* shrink_invoice never asks the importer about a document twice, however  *)
(* many paths of reductions lead to it.                                    *)
NeverAskedTwice ==
  [][phase = "evaluate" /\ pending # <<>> /\ valid[Head(pending)]
       /\ phase' # "aborted"
     => Head(pending) \notin asked]_vars

(* The reduction and its verification end. *)
Terminates == <>(phase \in Final)

(* The reduction alone already reaches a 1-minimal invoice when the        *)
(* importer is deterministic ("Greedily reach a deterministic 1-minimal    *)
(* invoice.", shrink_invoice's docstring).                                 *)
ShrinkReachesMinimal ==
  Deterministic /\ phase = "recheck" =>
    \A d \in Reductions(current) : ~Shows(d)

(* Reduction and verification implement the abstract minimization. *)
Abstract == INSTANCE Minimization WITH
  verdict <- IF phase \in Final THEN phase ELSE "running"
ImplementsMinimization == Abstract!MSpec

=============================================================================
