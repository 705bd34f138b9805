-------------------------------- MODULE Replay --------------------------------
(***************************************************************************)
(* The commands verify and replay (src/rechnungsprobe/cli.py) on a finding *)
(* capsule: its verification (capsule.py, replay.py), the authority needed *)
(* to run what it describes, revalidation, execution and exit status.      *)
(*                                                                         *)
(* A capsule may hold any combination of members, with a manifest, reports *)
(* and archive that fit them or not: it was created, damaged, or put       *)
(* together from other ones.  A local target's files may be replaced at    *)
(* any moment; the digest of a container target depends on its             *)
(* configuration alone.                                                    *)
(***************************************************************************)
EXTENDS Naturals

CONSTANTS
  Doc,         \* documents; each has its own hash and fingerprint
  NoInvoice,   \* those that are XML but no invoice of the model
  Command,     \* target commands of capsules
  Own,         \* the replacement command of the user
  Policy,      \* resource policies
  Predicate,   \* kinds of predicates in use
  Excessive,   \* those above the safe bounds
  Nothing      \* nothing yet, or nothing allowed

ASSUME ReplayAssumption ==
  /\ NoInvoice \subseteq Doc
  /\ Own \notin Command
  /\ Excessive \subseteq Policy
  /\ Predicate \subseteq {"crash-or-nonzero", "timeout", "stdout-json",
                          "output-invalid", "declared-field-loss"}
  /\ Nothing \notin [name : Command \cup {Own}, doc : Doc, policy : Policy]

Kind == {"local", "container"}
Pinned == "pinned"

(* What the digest of a target depends on: the command and, for a local    *)
(* one, the version of its files.                                          *)
Fixed == 0
Digest == (Command \cup {Own}) \X {Fixed, 1, 2}

(* replay.json, and the finding record in result.json.  Evidence is        *)
(* provenance, or its absence for a synthetic finding or for a real one.   *)
Specification ==
  [kind : Kind, command : Command, predicate : Predicate, policy : Policy]
Record ==
  [doc : Doc, predicate : Predicate, profile : {Pinned, "other"},
   digest : Command \X {Fixed, 1}, policy : Policy \ Excessive,
   evidence : {"provenance", "synthetic", "none"}]

(* How the members are packed: as creation and verification both have it;  *)
(* with a member above the size that verification, and only it, allows;    *)
(* with a junit.xml that creation left no XML (a control character in the  *)
(* finding's path); with an archive or hashes that do not fit; with text   *)
(* or a compression on which the reading raises something else than a      *)
(* SecurityError; or with reports of another finding.                      *)
Package == {"whole", "oversized", "malformed report", "damaged", "irregular",
            "other reports"}

VARIABLES
  \* the environment
  capsule,    \* its members: invoice, replay, result; and its packaging
  version,    \* of the files of local targets
  \* the command
  pc,
  command,    \* verify or replay
  mode,       \* execution_mode, or Nothing
  digest,     \* target_digest of the run, or Nothing
  matched,    \* the predicate's verdict, or Nothing
  status,     \* exit status, or Running
  \* history
  unsafe,     \* --unsafe-use-capsule-local-command was given
  validated,  \* the document that passed the official validation, or Nothing
  ran         \* what was run: command, document, policy; or Nothing

vars == <<capsule, version, pc, command, mode, digest, matched, status,
          unsafe, validated, ran>>

Running == 3                \* no exit status yet

record == capsule.result
replay == capsule.replay
DigestOf(kind, name) == <<name, IF kind = "container" THEN Fixed ELSE version>>
TargetDigest == DigestOf(replay.kind, replay.command)

Init ==
  /\ capsule \in [invoice : Doc, replay : Specification, result : Record,
                  package : Package]
  /\ version = 1
  /\ pc = "start"
  /\ command = Nothing /\ mode = Nothing
  /\ digest = Nothing /\ matched = Nothing
  /\ status = Running
  /\ unsafe = FALSE /\ validated = Nothing /\ ran = Nothing

(* Ends of the command: with its answer printed, with an OSError or a      *)
(* SecurityError reported, or with any other exception, which leaves main  *)
(* and makes the interpreter exit with status 1.                           *)
Ended == {"answered", "stopped", "crashed", "rejected"}
Answer(code) == pc' = "answered" /\ status' = code
Stop(code) == pc' = "stopped" /\ status' = code
Crash == pc' = "crashed" /\ status' = 1
Reject(code) == pc' = "rejected" /\ status' = code

-----------------------------------------------------------------------------
(* _policy_payload: the bounds hold for what is written and what is read.  *)
Bounded == replay.policy \notin Excessive

(* _verify_provenance_binding. *)
Bound ==
  \/ record.evidence = "synthetic"
  \/ /\ record.evidence = "provenance"
     /\ record.profile = Pinned
     /\ record.policy = replay.policy

(* A container's configuration must have the recorded digest; what a local *)
(* command would be here says nothing about where it was recorded.         *)
AnyTargetFits == TargetDigest = record.digest
TargetFits == replay.kind = "container" => TargetDigest = record.digest

Agree ==
  /\ replay.predicate = record.predicate
  /\ Bound
  /\ TargetFits
  /\ capsule.invoice = record.doc

(* What create_finding_capsule writes.  It knows no limits of members, and *)
(* does not parse its junit.xml.                                           *)
Created ==
  /\ capsule.invoice = record.doc
  /\ capsule.invoice \notin NoInvoice
  /\ Bounded
  /\ replay.predicate = record.predicate
  /\ record.evidence # "none"
  /\ record.evidence = "provenance" =>
       record.profile = Pinned /\ record.policy = replay.policy
  /\ replay.kind = "container" => record.digest = <<replay.command, Fixed>>
  /\ capsule.package \in {"whole", "oversized", "malformed report"}

(* verify_finding_capsule.  What main does not catch are the TypeError of  *)
(* compare_digest on a hash that is not ASCII, the UnicodeDecodeError and  *)
(* NotImplementedError of zipfile, and a TypeError for a list where a text *)
(* is expected: all while the members are read; and, when everything before*)
(* it is in order, the ModelError for a document that is no invoice.  The  *)
(* reports are parsed and compared last.                                   *)
Opens == capsule.package \notin {"oversized", "damaged", "irregular"}
BeforeInvoice == Opens /\ Bounded /\ Agree
Escapes ==
  \/ capsule.package = "irregular"
  \/ BeforeInvoice /\ capsule.invoice \in NoInvoice
Verified ==
  /\ BeforeInvoice
  /\ capsule.invoice \notin NoInvoice
  /\ capsule.package = "whole"

Start ==
  /\ pc = "start"
  /\ command' \in {"verify", "replay"}
  /\ pc' = "verify"
  /\ UNCHANGED <<capsule, version, mode, digest, matched, status, unsafe,
                 validated, ran>>

Verify ==
  /\ pc = "verify"
  /\ \/ Verified /\ command = "verify" /\ Answer(0)
     \/ Verified /\ command = "replay" /\ pc' = "authorize" /\ UNCHANGED status
     \/ Escapes /\ Reject(1)
     \/ ~Verified /\ ~Escapes /\ Reject(2)
  /\ UNCHANGED <<capsule, version, command, mode, digest, matched, unsafe,
                 validated, ran>>

(* Who says that the target may be run.  A replacement stands in for a     *)
(* local command only.                                                     *)
AnyMode(replacement, insist) ==
  IF replacement = "given" THEN "replacement"
  ELSE IF replay.kind = "container" THEN "container" ELSE "unsafe"
Mode(replacement, insist) ==
  IF record.profile # Pinned \/ replacement = "empty" THEN Nothing
  ELSE IF replacement = "given"
       THEN IF replay.kind = "local" THEN "replacement" ELSE Nothing
  ELSE IF replay.kind = "container" THEN "container"
  ELSE IF insist THEN "unsafe" ELSE Nothing

Authorize ==
  /\ pc = "authorize"
  /\ \E replacement \in {"absent", "empty", "given"}, insist \in BOOLEAN :
       /\ unsafe' = insist
       /\ mode' = Mode(replacement, insist)
  /\ \/ mode' = Nothing /\ Stop(2)
     \/ mode' # Nothing /\ pc' = "compare" /\ UNCHANGED status
  /\ UNCHANGED <<capsule, version, command, digest, matched, validated, ran>>

(* The capsule's target, as it is here and now, against the record. *)
Compare ==
  /\ pc = "compare"
  /\ IF mode # "replacement" /\ TargetDigest # record.digest
     THEN Stop(2)
     ELSE pc' = "validate" /\ UNCHANGED status
  /\ UNCHANGED <<capsule, version, command, mode, digest, matched, unsafe,
                 validated, ran>>

-----------------------------------------------------------------------------
(* execute_replay. *)
AfterValidation == "prepare"
InputRefused == Stop(2)

ValidateInput ==
  /\ pc = "validate"
  /\ \/ /\ validated' = capsule.invoice
        /\ pc' = AfterValidation
        /\ UNCHANGED status
     \/ InputRefused /\ UNCHANGED validated
  /\ UNCHANGED <<capsule, version, command, mode, digest, matched, unsafe, ran>>

Target ==
  IF mode = "replacement" THEN [kind |-> "local", name |-> Own]
                          ELSE [kind |-> replay.kind, name |-> replay.command]

(* The files are hashed, then staged and run. *)
TakeDigest ==
  /\ pc = "prepare"
  /\ digest' = DigestOf(Target.kind, Target.name)
  /\ pc' = "run"
  /\ UNCHANGED <<capsule, version, command, mode, matched, status, unsafe,
                 validated, ran>>

(* How the run ended and whether it left an output file decide what the    *)
(* predicate may say; what is in the streams and the file is left open.    *)
CrashPredicate(end) == {end = "nonzero"}
TimeoutPredicate(end) == {end = "timeout"}
JsonPredicate == BOOLEAN
FieldLossPredicate(present) == IF present THEN BOOLEAN ELSE {TRUE}
Verdicts(end, present) ==
  CASE replay.predicate = "crash-or-nonzero" -> CrashPredicate(end)
    [] replay.predicate = "timeout" -> TimeoutPredicate(end)
    [] replay.predicate = "stdout-json" -> JsonPredicate
    [] replay.predicate = "declared-field-loss" -> FieldLossPredicate(present)
    [] OTHER -> {TRUE}     \* output-invalid without an output

Run ==
  /\ pc = "run"
  /\ ran' = [name |-> Target.name, doc |-> capsule.invoice,
             policy |-> replay.policy]
  /\ \E end \in {"zero", "nonzero", "timeout"}, present \in BOOLEAN :
       IF replay.predicate = "output-invalid" /\ present
       THEN pc' = "judge" /\ UNCHANGED matched
       ELSE pc' = "conclude" /\ matched' \in Verdicts(end, present)
  /\ UNCHANGED <<capsule, version, command, mode, digest, status, unsafe,
                 validated>>

(* The output is validated; a validator that fails makes it invalid. *)
OutputValidityPredicate(answer) == answer # "valid"

Judge ==
  /\ pc = "judge"
  /\ \E answer \in {"valid", "invalid", "failed"} :
       matched' = OutputValidityPredicate(answer)
  /\ pc' = "conclude"
  /\ UNCHANGED <<capsule, version, command, mode, digest, status, unsafe,
                 validated, ran>>

(* The digest of what was run is compared once more, and the verdict is    *)
(* printed.                                                                *)
AnyDigest == TRUE
SameDigest == mode = "replacement" \/ digest = record.digest

Conclude ==
  /\ pc = "conclude"
  /\ \/ ~SameDigest /\ Stop(2)
     \/ SameDigest /\ Answer(IF matched THEN 0 ELSE 1)
  /\ UNCHANGED <<capsule, version, command, mode, digest, matched, unsafe,
                 validated, ran>>

(* An OSError or a SecurityError of a call, anywhere; or what nothing      *)
(* provides for: a UnicodeDecodeError of an answer of Docker               *)
(* (target.py:331, 353), a ValueError of int on a digit of a JSON pointer  *)
(* (predicates.py:88).                                                     *)
CallFails ==
  /\ pc \notin {"start"} \cup Ended
  /\ Stop(2) \/ Crash
  /\ UNCHANGED <<capsule, version, command, mode, digest, matched, unsafe,
                 validated, ran>>

EditTarget ==
  /\ pc \notin Ended
  /\ version' = 3 - version
  /\ UNCHANGED <<capsule, pc, command, mode, digest, matched, status, unsafe,
                 validated, ran>>

Next ==
  \/ Start \/ Verify \/ Authorize \/ Compare
  \/ ValidateInput \/ TakeDigest \/ Run \/ Judge \/ Conclude
  \/ CallFails \/ EditTarget

Spec == Init /\ [][Next]_vars

-----------------------------------------------------------------------------
TypeOK ==
  /\ capsule \in [invoice : Doc, replay : Specification, result : Record,
                  package : Package]
  /\ version \in {1, 2}
  /\ pc \in {"start", "verify", "authorize", "compare", "validate", "prepare",
             "run", "judge", "conclude"} \cup Ended
  /\ command \in {"verify", "replay", Nothing}
  /\ mode \in {"container", "unsafe", "replacement", Nothing}
  /\ digest \in Digest \/ (digest = Nothing /\ ran = Nothing)
  /\ matched \in BOOLEAN \cup {Nothing}
  /\ status \in {0, 1, 2, Running}
  /\ unsafe \in BOOLEAN
  /\ validated \in Doc \cup {Nothing}
  /\ \/ ran = Nothing
     \/ ran \in [name : Command \cup {Own}, doc : Doc, policy : Policy]

(* Whatever a capsule holds, a target runs only for replay, on the         *)
(* capsule's own invoice after it passed the official validation, under a  *)
(* bounded policy; and what runs is a container, the user's replacement    *)
(* for a local command, or a local command with the unsafe option ("Capsule*)
(* local commands are descriptions, not authority",                        *)
(* docs/finding-format.md).                                                *)
NothingRunsUnauthorized ==
  ran # Nothing =>
    /\ command = "replay"
    /\ ran.doc = capsule.invoice /\ validated = ran.doc
    /\ ran.policy \notin Excessive
    /\ \/ replay.kind = "container" /\ ran.name = replay.command
       \/ replay.kind = "local" /\ ran.name = Own
       \/ replay.kind = "local" /\ ran.name = replay.command /\ unsafe

(* Replay says reproduced or not reproduced only after a run, of which it  *)
(* is the verdict; and a verdict that is not about a replacement is about  *)
(* the recorded finding: its invoice, its target digest at the time of the *)
(* run, its predicate and, with provenance, its profile and policy         *)
(* (cli.py:325-374).  Status 0 is such an answer; status 1 is one only     *)
(* where the verdict was printed, since an exception that main does not    *)
(* catch ends with it too.                                                 *)
VerdictIsAboutTheFinding ==
  command = "replay" /\ (status = 0 \/ pc = "answered") =>
    /\ ran # Nothing
    /\ matched = (status = 0)
    /\ ran.name # Own =>
         /\ ran.doc = record.doc
         /\ digest = record.digest
         /\ replay.predicate = record.predicate
         /\ record.profile = Pinned
         /\ record.evidence = "provenance" => ran.policy = record.policy

(* Verification accepts what create_finding_capsule writes, wherever and   *)
(* whenever it is verified, also after the local target changed; what it   *)
(* can reject is a member above the sizes that only verification limits    *)
(* (capsule.py:192) and a junit.xml that only verification parses          *)
(* (capsule.py:268).                                                       *)
OwnCapsulesVerify ==
  pc = "rejected" /\ Created =>
    capsule.package \in {"oversized", "malformed report"}

=============================================================================
