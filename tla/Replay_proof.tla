---------------------------- MODULE Replay_proof ----------------------------
(***************************************************************************)
(* Theorems about Replay, for every set of documents, commands, policies   *)
(* and predicates and every capsule that can be put together from them,    *)
(* however often the files of a local target are replaced.                 *)
(***************************************************************************)
EXTENDS Replay, TLAPS

Runs == [name : Command \cup {Own}, doc : Doc, policy : Policy]

(* Where a command has come says what it has established.  Nothing of it   *)
(* depends on the version of a local target.                               *)
Authorized == {"compare", "validate", "prepare", "run", "judge", "conclude"}

MayRun ==
  /\ record.profile = Pinned
  /\ \/ replay.kind = "container" /\ mode = "container"
     \/ replay.kind = "local" /\ mode = "replacement"
     \/ replay.kind = "local" /\ mode = "unsafe" /\ unsafe

Established ==
  /\ pc \in {"authorize"} \cup Authorized => Verified /\ command = "replay"
  /\ pc \in Authorized => MayRun
  /\ pc \in {"prepare", "run", "judge", "conclude"} =>
       validated = capsule.invoice
  /\ pc \in {"run", "judge", "conclude"} => digest \in Digest
  /\ pc \in {"judge", "conclude"} => ran # Nothing
  /\ pc \notin {"judge", "conclude", "answered", "stopped", "crashed"} =>
       ran = Nothing
  /\ pc = "conclude" => matched \in BOOLEAN
  /\ pc \notin Ended => status = Running
  /\ status = 0 => pc = "answered"

(* What was run was verified, authorized and validated before. *)
RanAsAuthorized ==
  ran # Nothing =>
    /\ Verified /\ command = "replay" /\ MayRun
    /\ validated = capsule.invoice
    /\ digest \in Digest
    /\ ran = [name |-> Target.name, doc |-> capsule.invoice,
              policy |-> replay.policy]

(* The answer of a command that came to its end. *)
Concluded ==
  pc = "answered" /\ command = "replay" =>
    ran # Nothing /\ SameDigest /\ matched = (status = 0)

ReplayInv == Established /\ RanAsAuthorized /\ Concluded

-----------------------------------------------------------------------------
(* Whether a capsule verifies does not depend on what a local target's     *)
(* files are at the moment.                                                *)
LEMMA VerifiedIsStable ==
  ASSUME UNCHANGED capsule
  PROVE  Verified' = Verified
BY DEF Verified, BeforeInvoice, Opens, Bounded, Agree, Bound, TargetFits,
   TargetDigest, DigestOf, record, replay

(* A digest is that of a file's version, or of an image.                    *)
LEMMA DigestTyped ==
  ASSUME TypeOK, NEW kind \in Kind, NEW name \in Command \cup {Own}
  PROVE  DigestOf(kind, name) \in Digest
BY DEF TypeOK, Kind, DigestOf, Digest, Fixed

(* The parts of a capsule.                                                  *)
LEMMA CapsuleTyped ==
  ASSUME TypeOK
  PROVE  /\ capsule.invoice \in Doc
         /\ replay.kind \in Kind /\ replay.command \in Command
         /\ replay.policy \in Policy /\ replay.predicate \in Predicate
         /\ record.evidence \in {"provenance", "synthetic", "none"}
         /\ Target.kind \in Kind /\ Target.name \in Command \cup {Own}
<1>1. /\ capsule.invoice \in Doc
      /\ replay.kind \in Kind /\ replay.command \in Command
      /\ replay.policy \in Policy /\ replay.predicate \in Predicate
      /\ record.evidence \in {"provenance", "synthetic", "none"}
  BY DEF TypeOK, Specification, Record, replay, record
<1>2. QED
  BY <1>1 DEF Target, Kind

(* A predicate says yes or no.                                              *)
LEMMA VerdictsTyped ==
  ASSUME NEW end, NEW present \in BOOLEAN
  PROVE  Verdicts(end, present) \subseteq BOOLEAN
BY DEF Verdicts, CrashPredicate, TimeoutPredicate, JsonPredicate,
   FieldLossPredicate

(* Each step of replay keeps what it established before.                    *)
LEMMA ReplayInductive ==
  ASSUME TypeOK, ReplayInv, [Next]_vars
  PROVE  TypeOK' /\ ReplayInv'
<1> USE DEF ReplayInv, Stop, Answer, Reject, Crash, Authorized, Running, Ended
<1>1. CASE Start
  <2>1. /\ UNCHANGED <<capsule, version, mode, digest, matched, status, unsafe,
                       validated, ran>>
        /\ command' \in {"verify", "replay"}
        /\ pc = "start" /\ pc' = "verify"
    BY <1>1 DEF Start
  <2>2. TypeOK'
    BY <2>1 DEF TypeOK
  <2>3. Established'
    BY <2>1 DEF Established
  <2>4. ran' = Nothing /\ pc' # "answered"
    BY <2>1 DEF Established
  <2>5. QED
    BY <2>2, <2>3, <2>4 DEF RanAsAuthorized, Concluded
<1>2. CASE Verify
  <2>1. /\ UNCHANGED <<capsule, version, command, mode, digest, matched, unsafe,
                       validated, ran>>
        /\ pc = "verify"
        /\ \/ command = "verify" /\ pc' = "answered" /\ status' = 0
           \/ /\ Verified /\ command = "replay"
              /\ pc' = "authorize" /\ UNCHANGED status
           \/ pc' = "rejected" /\ status' \in {1, 2}
    BY <1>2 DEF Verify
  <2>2. TypeOK'
    BY <2>1 DEF TypeOK
  <2>3. Established'
    BY <2>1, VerifiedIsStable DEF Established
  <2>4. ran' = Nothing
    BY <2>1 DEF Established
  <2>5. Concluded'
    BY <2>1, <2>4 DEF Concluded, Established
  <2>6. QED
    BY <2>2, <2>3, <2>4, <2>5 DEF RanAsAuthorized
<1>3. CASE Authorize
  <2>1. PICK replacement \in {"absent", "empty", "given"}, insist \in BOOLEAN :
          unsafe' = insist /\ mode' = Mode(replacement, insist)
    BY <1>3 DEF Authorize
  <2>2. /\ UNCHANGED <<capsule, version, command, digest, matched, validated,
                       ran>>
        /\ pc = "authorize"
        /\ \/ pc' = "stopped" /\ status' = 2
           \/ mode' # Nothing /\ pc' = "compare" /\ UNCHANGED status
    BY <1>3 DEF Authorize
  <2>3. /\ unsafe' \in BOOLEAN
        /\ mode' \in {"container", "unsafe", "replacement", Nothing}
        /\ mode' # Nothing => MayRun'
    <3>1. unsafe' \in BOOLEAN /\ unsafe' = insist
      BY <2>1
    <3>2. replay' = replay /\ record' = record /\ replay.kind \in Kind
      BY <2>2, CapsuleTyped DEF replay, record
    <3>3. \/ mode' = Nothing
          \/ /\ record.profile = Pinned /\ mode' = "replacement"
             /\ replay.kind = "local"
          \/ /\ record.profile = Pinned /\ mode' = "container"
             /\ replay.kind = "container"
          \/ /\ record.profile = Pinned /\ mode' = "unsafe" /\ insist
             /\ replay.kind = "local"
      BY <2>1, <3>2 DEF Mode, Kind
    <3>4. QED
      BY <3>1, <3>2, <3>3 DEF MayRun
  <2>4. TypeOK'
    BY <2>2, <2>3 DEF TypeOK
  <2>5. Established'
    BY <2>2, <2>3, VerifiedIsStable DEF Established
  <2>6. ran' = Nothing
    BY <2>2 DEF Established
  <2>7. Concluded'
    BY <2>2, <2>6 DEF Concluded, Established
  <2>8. QED
    BY <2>4, <2>5, <2>6, <2>7 DEF RanAsAuthorized
<1>4. CASE Compare \/ ValidateInput
  <2>1. /\ UNCHANGED <<capsule, version, command, mode, digest, matched, unsafe,
                       ran>>
        /\ validated' \in {validated, capsule.invoice}
        /\ \/ pc = "compare" /\ pc' = "validate" /\ UNCHANGED status
           \/ /\ pc = "validate" /\ pc' = "prepare" /\ UNCHANGED status
              /\ validated' = capsule.invoice
           \/ /\ pc \in {"compare", "validate"}
              /\ pc' = "stopped" /\ status' = 2
    BY <1>4 DEF Compare, ValidateInput, InputRefused, AfterValidation
  <2>2. TypeOK'
    BY <2>1, CapsuleTyped DEF TypeOK
  <2>3. MayRun' = MayRun
    BY <2>1 DEF MayRun, record, replay
  <2>4. Established'
    BY <2>1, <2>3, VerifiedIsStable DEF Established
  <2>5. ran' = Nothing
    BY <2>1 DEF Established
  <2>6. Concluded'
    BY <2>1, <2>5 DEF Concluded, Established
  <2>7. QED
    BY <2>2, <2>4, <2>5, <2>6 DEF RanAsAuthorized
<1>5. CASE TakeDigest
  <2>1. /\ UNCHANGED <<capsule, version, command, mode, matched, status, unsafe,
                       validated, ran>>
        /\ digest' \in Digest
        /\ pc = "prepare" /\ pc' = "run"
    BY <1>5, CapsuleTyped, DigestTyped DEF TakeDigest
  <2>2. TypeOK'
    BY <2>1 DEF TypeOK
  <2>3. MayRun' = MayRun
    BY <2>1 DEF MayRun, record, replay
  <2>4. Established'
    BY <2>1, <2>3, VerifiedIsStable DEF Established
  <2>5. ran' = Nothing /\ pc' # "answered"
    BY <2>1 DEF Established
  <2>6. QED
    BY <2>2, <2>4, <2>5 DEF RanAsAuthorized, Concluded
<1>6. CASE Run
  <2>1. /\ UNCHANGED <<capsule, version, command, mode, digest, status, unsafe,
                       validated>>
        /\ ran' = [name |-> Target.name, doc |-> capsule.invoice,
                   policy |-> replay.policy]
        /\ pc = "run"
        /\ \/ pc' = "judge" /\ UNCHANGED matched
           \/ pc' = "conclude" /\ matched' \in BOOLEAN
    BY <1>6, VerdictsTyped DEF Run
  <2>2. ran' \in Runs /\ ran' # Nothing
    BY <2>1, CapsuleTyped, ReplayAssumption DEF Runs
  <2>3. TypeOK'
    BY <2>1, <2>2 DEF TypeOK, Established, Runs
  <2>4. /\ MayRun' = MayRun /\ Target' = Target /\ replay' = replay
        /\ Verified' = Verified
    BY <2>1, VerifiedIsStable DEF MayRun, Target, record, replay
  <2>5. Established'
    BY <2>1, <2>2, <2>4 DEF Established
  <2>6. RanAsAuthorized'
    BY <2>1, <2>4 DEF Established, RanAsAuthorized
  <2>7. pc' # "answered"
    BY <2>1
  <2>8. QED
    BY <2>3, <2>5, <2>6, <2>7 DEF Concluded
<1>7. CASE Judge \/ Conclude \/ CallFails \/ EditTarget \/ UNCHANGED vars
  <2>1. UNCHANGED <<capsule, command, mode, digest, unsafe, validated, ran>>
    BY <1>7 DEF Judge, Conclude, CallFails, EditTarget, vars
  <2>2. /\ MayRun' = MayRun /\ Target' = Target /\ replay' = replay
        /\ Verified' = Verified
    BY <2>1, VerifiedIsStable DEF MayRun, Target, record, replay
  <2>3. RanAsAuthorized'
    BY <2>1, <2>2 DEF RanAsAuthorized
  <2>4. CASE Judge
    <3>1. /\ pc = "judge" /\ pc' = "conclude" /\ matched' \in BOOLEAN
          /\ UNCHANGED <<version, status>>
      BY <2>4 DEF Judge, OutputValidityPredicate
    <3>2. TypeOK'
      BY <2>1, <3>1 DEF TypeOK
    <3>3. Established'
      BY <2>1, <2>2, <3>1 DEF Established
    <3>4. pc' # "answered"
      BY <3>1
    <3>5. QED
      BY <2>3, <3>2, <3>3, <3>4 DEF Concluded
  <2>5. CASE Conclude
    <3>1. /\ pc = "conclude" /\ UNCHANGED <<version, matched>>
          /\ \/ pc' = "stopped" /\ status' = 2
             \/ /\ SameDigest /\ pc' = "answered"
                /\ status' = IF matched THEN 0 ELSE 1
      BY <2>5 DEF Conclude
    <3>2. TypeOK'
      BY <2>1, <3>1 DEF TypeOK
    <3>3. Established'
      BY <2>1, <3>1 DEF Established
    <3>4. ran' # Nothing /\ matched \in BOOLEAN /\ SameDigest' = SameDigest
      BY <2>1, <3>1 DEF Established, SameDigest, record
    <3>5. pc' = "answered" => SameDigest /\ matched' = (status' = 0)
      <4>1. CASE matched = TRUE
        BY <3>1, <4>1
      <4>2. ASSUME matched = FALSE, pc' = "answered"
            PROVE  matched' = (status' = 0)
        <5>1. status' = 1 /\ matched' = FALSE
          BY <3>1, <4>2
        <5>2. (status' = 0) = FALSE
          BY <5>1
        <5>3. QED
          BY <5>1, <5>2, Zenon
      <4>3. QED
        BY <3>1, <3>4, <4>1, <4>2
    <3>6. Concluded'
      BY <3>4, <3>5 DEF Concluded
    <3>7. QED
      BY <2>3, <3>2, <3>3, <3>6
  <2>6. CASE CallFails
    <3>1. /\ \/ pc' = "stopped" /\ status' = 2
             \/ pc' = "crashed" /\ status' = 1
          /\ UNCHANGED <<version, matched>>
      BY <2>6 DEF CallFails
    <3>2. TypeOK'
      BY <2>1, <3>1 DEF TypeOK
    <3>3. Established' /\ Concluded'
      BY <2>1, <3>1 DEF Established, Concluded
    <3>4. QED
      BY <2>3, <3>2, <3>3
  <2>7. CASE EditTarget \/ UNCHANGED vars
    <3>1. UNCHANGED <<pc, matched, status>> /\ version' \in {version, 3 - version}
      BY <2>7 DEF EditTarget, vars
    <3>2. TypeOK'
      BY <2>1, <3>1 DEF TypeOK
    <3>3. Established' /\ Concluded'
      BY <2>1, <2>2, <3>1 DEF Established, Concluded, SameDigest, record
    <3>4. QED
      BY <2>3, <3>2, <3>3
  <2>8. QED
    BY <1>7, <2>4, <2>5, <2>6, <2>7
<1>8. QED
  BY <1>1, <1>2, <1>3, <1>4, <1>5, <1>6, <1>7 DEF Next

(* Types and ReplayInv are inductive together.                              *)
LEMMA ReplayInvariant == Spec => [](TypeOK /\ ReplayInv)
<1>1. Init => TypeOK /\ ReplayInv
  <2> SUFFICES ASSUME Init
               PROVE  TypeOK /\ ReplayInv
    OBVIOUS
  <2>1. TypeOK
    BY DEF Init, TypeOK
  <2>2. Established
    BY DEF Init, Established, Authorized, Ended, Running
  <2>3. RanAsAuthorized /\ Concluded
    BY DEF Init, RanAsAuthorized, Concluded
  <2>4. QED
    BY <2>1, <2>2, <2>3 DEF ReplayInv
<1>2. (TypeOK /\ ReplayInv) /\ [Next]_vars => (TypeOK /\ ReplayInv)'
  BY ReplayInductive
<1>3. QED
  BY <1>1, <1>2, PTL DEF Spec

(* The variables only take values of their types; a target is only run     *)
(* with its digest taken (execute_replay).                                 *)
THEOREM TypeCorrect == Spec => []TypeOK
BY ReplayInvariant, PTL

(* Whatever a capsule holds, nothing in it runs without the authority the  *)
(* command line gives, on another document than the one that was           *)
(* validated, or under a policy above the bounds (_replay, _verify).       *)
THEOREM OnlyAuthorizedRuns == Spec => []NothingRunsUnauthorized
<1>1. ReplayInv => NothingRunsUnauthorized
  BY DEF ReplayInv, RanAsAuthorized, MayRun, NothingRunsUnauthorized,
     Verified, BeforeInvoice, Bounded, Target
<1>2. QED
  BY <1>1, ReplayInvariant, PTL

(* Where replay says reproduced or not reproduced, that is the verdict of  *)
(* a run on the recorded finding: its invoice, predicate, policy and target*)
(* digest; exit status 0 says so, exit status 1 only where the verdict was *)
(* printed (cli.py:325-374).                                               *)
THEOREM VerdictsAreAboutFindings == Spec => []VerdictIsAboutTheFinding
<1>1. TypeOK /\ ReplayInv => VerdictIsAboutTheFinding
  <2> SUFFICES ASSUME ReplayInv, ran # Nothing, SameDigest, ran.name # Own
               PROVE  /\ ran.doc = record.doc
                      /\ digest = record.digest
                      /\ replay.predicate = record.predicate
                      /\ record.profile = Pinned
                      /\ record.evidence = "provenance" =>
                           ran.policy = record.policy
    BY DEF ReplayInv, Established, Concluded, VerdictIsAboutTheFinding
  <2>1. /\ Verified /\ MayRun
        /\ ran.name = Target.name
        /\ ran.doc = capsule.invoice /\ ran.policy = replay.policy
    BY DEF ReplayInv, RanAsAuthorized
  <2>2. mode # "replacement"
    BY <2>1 DEF Target
  <2>3. digest = record.digest
    BY <2>2 DEF SameDigest
  <2>4. QED
    BY <2>1, <2>3 DEF Verified, BeforeInvoice, Agree, Bound, MayRun
<1>2. QED
  BY <1>1, ReplayInvariant, PTL

(* What create_finding_capsule writes is accepted by                       *)
(* verify_finding_capsule, also after the local target changed, unless a   *)
(* member is above its limit or the junit.xml is no XML: the two checks    *)
(* that creation leaves out (capsule.py:192, 268).                         *)
THEOREM OwnCapsulesAreAccepted == Spec => []OwnCapsulesVerify
<1>1. TypeOK /\ Created /\ capsule.package = "whole" => Verified /\ ~Escapes
  BY CapsuleTyped
     DEF Created, Verified, Escapes, BeforeInvoice, Opens, Bounded, Agree,
     Bound, TargetFits, TargetDigest, DigestOf
<1>2. UNCHANGED capsule => Created' = Created
  BY DEF Created, Bounded, replay, record
<1>3. Init => OwnCapsulesVerify
  BY DEF Init, OwnCapsulesVerify
<1>4. TypeOK /\ OwnCapsulesVerify /\ [Next]_vars => OwnCapsulesVerify'
  <2> SUFFICES ASSUME TypeOK, OwnCapsulesVerify, [Next]_vars,
                      pc' = "rejected", Created'
               PROVE  capsule'.package \in {"oversized", "malformed report"}
    BY DEF OwnCapsulesVerify
  <2>1. UNCHANGED capsule /\ (pc = "rejected" \/ Verify)
    BY DEF Next, vars, Start, Verify, Authorize, Compare, ValidateInput,
       InputRefused, AfterValidation, TakeDigest, Run, Judge, Conclude,
       CallFails, EditTarget, Stop, Answer, Crash
  <2>2. Created
    BY <1>2, <2>1
  <2>3. capsule.package \in {"whole", "oversized", "malformed report"}
    BY <2>2 DEF Created
  <2>4. pc = "rejected" \/ capsule.package # "whole"
    BY <1>1, <2>1, <2>2 DEF Verify, Answer, Reject
  <2>5. QED
    BY <2>1, <2>2, <2>3, <2>4 DEF OwnCapsulesVerify
<1>5. QED
  BY <1>3, <1>4, ReplayInvariant, PTL DEF Spec

=============================================================================
