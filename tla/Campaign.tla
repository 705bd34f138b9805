------------------------------- MODULE Campaign -------------------------------
(***************************************************************************)
(* run_campaign (src/rechnungsprobe/campaign.py) and the exit status that  *)
(* the fuzz command derives from it (src/rechnungsprobe/cli.py): corpus    *)
(* validation, the search for a match, reduction, verification, repeated   *)
(* reproduction and export, against an importer that may be flaky and that *)
(* may be replaced while the campaign runs.                                *)
(*                                                                         *)
(* A run of the importer on a document hashes its files first and stages   *)
(* and starts them afterwards; it yields one of Behaviour.  Two of these   *)
(* match with the same failure signature and still differ in the bytes     *)
(* that were observed (the signature of output-invalid and field-loss      *)
(* leaves the output streams out).  The order in which shrink_invoice tries*)
(* reductions is left open here (module Shrink has it): a round evaluates  *)
(* some set of the one-step reductions of the current invoice.             *)
(***************************************************************************)
EXTENDS Naturals, Sequences, FiniteSets, SequencesExt

CONSTANTS
  Doc,            \* serialized invoices
  Seed,           \* the bundled seed
  Candidates,     \* the generated corpus, in order
  Reduce,         \* Doc -> its one-step reductions
  Importers,      \* Doc -> the behaviours it may show: what may be under test
  Edits,          \* the importers that may replace it
  BatchSize,      \* documents per validator call (64)
  Reproductions   \* requested number of final reproductions

Behaviour == {"clean", "loss", "noisyLoss", "otherLoss"}
Matched(b) == b # "clean"
Signature(b) == IF b = "noisyLoss" THEN "loss" ELSE b

ASSUME CampaignAssumption ==
  /\ Seed \in Doc
  /\ Candidates \in Seq(Doc)
  /\ Reduce \in [Doc -> Seq(Doc)]
  /\ Importers \subseteq [Doc -> (SUBSET Behaviour) \ {{}}]
  /\ Edits \subseteq [Doc -> (SUBSET Behaviour) \ {{}}]
  /\ BatchSize \in Nat \ {0}
  /\ Reproductions \in 1..100

VARIABLES
  \* the environment
  profile,     \* Doc -> BOOLEAN: the pinned profile's verdict
  importer,    \* the importer under test
  version,     \* which of the importers that is
  occupied,    \* the output path existed before the campaign
  \* the campaign
  pc,
  next,        \* index of the next case to validate, then to run
  cache,       \* validity_cache
  found,       \* the first match: its digest and signature
  digest,      \* digest of the importer about to be run, or NoDigest
  current,     \* the invoice being reduced
  frontier,    \* reductions left in this round
  todo,        \* reductions left to verify
  seen,        \* observations of the reproductions so far
  record,      \* the finding record of the capsule
  disk,        \* files in the output directory
  status,      \* exit status, or Running
  \* history
  ran,         \* documents the importer was run on
  digests,     \* digests of the runs since the first match
  refuted      \* reductions of current that the verification saw rejected

environment == <<profile, importer, version, occupied>>
search == <<next, cache, found, digest>>
reduction == <<current, frontier, todo>>
output == <<seen, record, disk>>
history == <<ran, digests, refuted>>
vars == <<environment, pc, search, reduction, output, status, history>>

NoDigest == 0
NoFinding == [digest |-> NoDigest, signature |-> "clean"]
NoRecord == [doc |-> Seed, digest |-> NoDigest, observations |-> <<>>]

Running == 3                \* no exit status yet
Ended == {"stopped", "killed", "crashed"}

Cases == <<Seed>> \o Candidates

Init ==
  /\ profile \in [Doc -> BOOLEAN]
  /\ importer \in Importers
  /\ version = 1
  /\ occupied \in BOOLEAN
  /\ pc = "open"
  /\ next = 1
  /\ cache = [d \in Doc |-> "unknown"]
  /\ found = NoFinding /\ digest = NoDigest
  /\ current = Seed /\ frontier = {} /\ todo = <<>>
  /\ seen = <<>> /\ record = NoRecord /\ disk = {}
  /\ status = Running
  /\ ran = {} /\ digests = {} /\ refuted = {}

-----------------------------------------------------------------------------
(* Ends of the command.  An OSError or a SecurityError is reported with    *)
(* status 2; any other exception leaves main and the interpreter exits     *)
(* with status 1: one that the campaign raises itself, or one of a call    *)
(* that nothing in it provides for.                                        *)
Stop(code) == pc' = "stopped" /\ status' = code
SecurityFailure == Stop(2)
NothingFound == pc' = "report" /\ UNCHANGED status
UncaughtFailure == Stop(1)
Crash == pc' = "crashed" /\ status' = 1

(* A run of the importer on d, whose files were hashed before: whatever is *)
(* there by now is what runs.                                              *)
Runs(d, b) ==
  /\ digest # NoDigest
  /\ b \in importer[d]
  /\ digest' = NoDigest
  /\ ran' = ran \cup {d}

(* preserves_finding(d), once the digest is known to be the expected one.  *)
AnyDigest == TRUE
SameDigest == digest = found.digest
Preserves(b) == Matched(b) /\ Signature(b) = found.signature

-----------------------------------------------------------------------------
OpenOutput ==
  /\ pc = "open"
  /\ IF occupied
     THEN SecurityFailure /\ UNCHANGED disk
     ELSE pc' = "validate" /\ disk' = {"directory"} /\ UNCHANGED status
  /\ UNCHANGED <<environment, search, reduction, seen, record, history>>

(* The pinned profile's verdict, unless the validator times out, leaves no *)
(* report that fits the document, or exits with another status than 0, as  *)
(* it does for the whole batch when it rejects one of its documents: that  *)
(* makes the document invalid as well (Validator!Results).                 *)
Verdict(d, unreported) ==
  IF profile[d] /\ d \notin unreported THEN "valid" ELSE "invalid"

(* _validate_corpus, one batch. *)
Batch == {Cases[i] : i \in {j \in DOMAIN Cases : j \in next..(next + BatchSize - 1)}}

ValidateBatch ==
  /\ pc = "validate"
  /\ next <= Len(Cases)
  /\ \/ /\ \A d \in Batch : profile[d]
        /\ next' = next + BatchSize
        /\ UNCHANGED <<pc, status>>
     \/ /\ \E unreported \in SUBSET Batch, d \in Batch :
             Verdict(d, unreported) = "invalid"
        /\ SecurityFailure
        /\ UNCHANGED next
  /\ UNCHANGED <<environment, cache, found, digest, reduction, output, history>>

FullBatchSeen == next > BatchSize
AllSeen == next > Len(Cases)

CorpusValidated ==
  /\ pc = "validate"
  /\ AllSeen
  /\ pc' = "write"
  /\ next' = 1
  /\ UNCHANGED <<environment, cache, found, digest, reduction, output, status,
                 history>>

(* The whole corpus is known to be valid and is written out. *)
WriteCorpus ==
  /\ pc = "write"
  /\ pc' = "run"
  /\ cache' = [d \in Doc |-> IF d \in Range(Cases) THEN "valid" ELSE "unknown"]
  /\ disk' = disk \cup {"corpus"}
  /\ UNCHANGED <<environment, next, found, digest, reduction, seen, record,
                 status, history>>

(* One candidate: nothing to see, or the first match, whose signature and  *)
(* digest everything that follows is held against.                         *)
RunCandidate ==
  /\ pc = "run"
  /\ next <= Len(Candidates)
  /\ \E b \in Behaviour :
       /\ Runs(Candidates[next], b)
       /\ IF Matched(b)
          THEN /\ pc' = "check"
               /\ found' = [digest |-> digest, signature |-> Signature(b)]
               /\ current' = Candidates[next]
               /\ digests' = {digest}
               /\ UNCHANGED next
          ELSE /\ next' = next + 1
               /\ UNCHANGED <<pc, found, current, digests>>
  /\ UNCHANGED <<environment, cache, frontier, todo, output, status, refuted>>

CorpusExhausted ==
  /\ pc = "run"
  /\ next > Len(Candidates)
  /\ pc' = "report"
  /\ UNCHANGED <<environment, search, reduction, output, status, history>>

-----------------------------------------------------------------------------
(* _check_initial of shrink_invoice and of verify_one_minimal.  That the   *)
(* finding does not show again is a ValueError, not a SecurityError.       *)
CheckedAgain(to) ==
  \E b \in Behaviour :
    /\ Runs(current, b)
    /\ digests' = digests \cup {digest}
    /\ \/ ~SameDigest /\ SecurityFailure
       \/ SameDigest /\ Preserves(b) /\ pc' = to /\ UNCHANGED status
       \/ SameDigest /\ ~Preserves(b) /\ UncaughtFailure

CheckInitial ==
  /\ pc = "check"
  /\ CheckedAgain("reduce")
  /\ UNCHANGED <<environment, next, cache, found, reduction, output, refuted>>

(* The documents without a verdict go to the validator; the others are     *)
(* answered from the cache.                                                *)
Asked(docs) == {d \in docs : cache[d] = "unknown"}
Validated(docs) ==
  \E unreported \in SUBSET Asked(docs) :
    cache' = [d \in Doc |-> IF d \in Asked(docs) THEN Verdict(d, unreported)
                                                 ELSE cache[d]]

(* A round of shrink_invoice over the reductions it has not met before.    *)
StartRound ==
  /\ pc = "reduce"
  /\ pc' = "evaluate"
  /\ \E round \in SUBSET Range(Reduce[current]) :
       /\ frontier' = round
       /\ Validated(round)
  /\ UNCHANGED <<environment, next, found, digest, current, todo, output,
                 status, history>>

Evaluable == {d \in frontier : cache[d] = "valid"}

Unreduced(d) == current
Reduced(d) == d

Evaluate ==
  /\ pc = "evaluate"
  /\ \E d \in Evaluable, b \in Behaviour :
       /\ Runs(d, b)
       /\ digests' = digests \cup {digest}
       /\ \/ /\ ~SameDigest
             /\ SecurityFailure
             /\ UNCHANGED <<current, frontier>>
          \/ /\ SameDigest
             /\ Preserves(b)
             /\ pc' = "reduce" /\ current' = Reduced(d) /\ frontier' = {}
             /\ UNCHANGED status
          \/ /\ SameDigest
             /\ ~Preserves(b)
             /\ frontier' = frontier \ {d}
             /\ UNCHANGED <<pc, current, status>>
  /\ UNCHANGED <<environment, next, cache, found, todo, output, refuted>>

StopReducing ==
  /\ pc = "evaluate"
  /\ Evaluable = {}
  /\ pc' = "recheck"
  /\ frontier' = {}
  /\ UNCHANGED <<environment, search, current, todo, output, status, history>>

(* verify_one_minimal: the same check, then every reduction in order.      *)
Recheck ==
  /\ pc = "recheck"
  /\ CheckedAgain("verify")
  /\ todo' = Reduce[current]
  /\ Validated(Range(Reduce[current]))
  /\ refuted' = {}
  /\ UNCHANGED <<environment, next, found, current, frontier, output>>

VerifyNext ==
  /\ pc = "verify"
  /\ todo # <<>>
  /\ \/ /\ cache[Head(todo)] # "valid"
        /\ todo' = Tail(todo)
        /\ UNCHANGED <<pc, digest, status, history>>
     \/ /\ cache[Head(todo)] = "valid"
        /\ todo' = Tail(todo)
        /\ digests' = digests \cup {digest}
        /\ \E b \in Behaviour :
             /\ Runs(Head(todo), b)
             /\ \/ (~SameDigest \/ Preserves(b)) /\ SecurityFailure
                     /\ UNCHANGED refuted
                \/ /\ SameDigest /\ ~Preserves(b)
                   /\ refuted' = refuted \cup {Head(todo)}
                   /\ UNCHANGED <<pc, status>>
  /\ UNCHANGED <<environment, next, cache, found, current, frontier, output>>

Verified ==
  /\ pc = "verify"
  /\ todo = <<>>
  /\ pc' = "reproduce"
  /\ UNCHANGED <<environment, search, reduction, output, status, history>>

-----------------------------------------------------------------------------
(* The reproduction loop: the cached verdict, the digest, the signature    *)
(* and the complete observation all have to agree.                         *)
AnyObservation(b) == TRUE
SameObservation(b) == seen = <<>> \/ b = seen[1]

Outstanding == Len(seen) < Reproductions

Reproduce ==
  /\ pc = "reproduce"
  /\ Outstanding
  /\ \E b \in Behaviour :
       /\ Runs(current, b)
       /\ digests' = digests \cup {digest}
       /\ IF /\ cache[current] = "valid"
             /\ SameDigest /\ Preserves(b) /\ SameObservation(b)
          THEN seen' = Append(seen, b) /\ UNCHANGED <<pc, status>>
          ELSE SecurityFailure /\ UNCHANGED seen
  /\ UNCHANGED <<environment, next, cache, found, reduction, record, disk,
                 refuted>>

(* create_finding_capsule: the file is created, then filled.               *)
Unpacked == "report"
Packing == "pack"

OpenCapsule ==
  /\ pc = "reproduce"
  /\ Len(seen) = Reproductions
  /\ pc' = Packing
  /\ record' = [doc |-> current, digest |-> found.digest,
                observations |-> seen]
  /\ disk' = disk \cup {"partialCapsule"}
  /\ UNCHANGED <<environment, search, reduction, seen, status, history>>

CloseCapsule ==
  /\ pc = "pack"
  /\ pc' = "report"
  /\ disk' = (disk \ {"partialCapsule"}) \cup {"capsule"}
  /\ UNCHANGED <<environment, search, reduction, seen, record, status, history>>

(* result.json, then junit.xml and the exit status. *)
WriteResult ==
  /\ pc = "report"
  /\ pc' = "finish"
  /\ disk' = disk \cup {"result"}
  /\ UNCHANGED <<environment, search, reduction, seen, record, status, history>>

Finish ==
  /\ pc = "finish"
  /\ Stop(IF record = NoRecord THEN 0 ELSE 1)
  /\ disk' = disk \cup {"junit"}
  /\ UNCHANGED <<environment, search, reduction, seen, record, history>>

-----------------------------------------------------------------------------
(* The importer's files are hashed whenever a run is due. *)
RunIsDue ==
  \/ pc = "run" /\ next <= Len(Candidates)
  \/ pc \in {"check", "recheck"}
  \/ pc = "evaluate" /\ Evaluable # {}
  \/ pc = "verify" /\ todo # <<>> /\ cache[Head(todo)] = "valid"
  \/ pc = "reproduce" /\ Outstanding

TakeDigest ==
  /\ RunIsDue
  /\ digest = NoDigest
  /\ digest' = version
  /\ UNCHANGED <<environment, pc, next, cache, found, reduction, output, status,
                 history>>

(* A call of the validator, the importer or the file system fails; a       *)
(* capsule that was not completed is unlinked.  Not every failure is an    *)
(* OSError or a SecurityError: a blank required text of the invoice is a   *)
(* ModelError of create_finding_capsule (capsule.py:109), an answer of     *)
(* Docker that is not ASCII a UnicodeDecodeError (target.py:331, 353), a   *)
(* digit of a JSON pointer that int does not read a ValueError             *)
(* (predicates.py:88).  Either kind may come of any call.                  *)
CallFails ==
  /\ pc \notin Ended
  /\ SecurityFailure \/ Crash
  /\ disk' = disk \ {"partialCapsule"}
  /\ UNCHANGED <<environment, search, reduction, seen, record, history>>

(* The campaign's own process is killed. *)
Killed ==
  /\ pc \notin Ended
  /\ pc' = "killed"
  /\ UNCHANGED <<environment, search, reduction, output, status, history>>

(* Somebody replaces the importer, once (bound on version). *)
EditImporter ==
  /\ pc \notin Ended
  /\ version = 1
  /\ version' = 2
  /\ importer' \in Edits
  /\ UNCHANGED <<profile, occupied, pc, search, reduction, output, status,
                 history>>

Step ==
  \/ OpenOutput \/ ValidateBatch \/ CorpusValidated \/ WriteCorpus
  \/ RunCandidate \/ CorpusExhausted
  \/ CheckInitial \/ StartRound \/ Evaluate \/ StopReducing
  \/ Recheck \/ VerifyNext \/ Verified \/ TakeDigest
  \/ Reproduce \/ OpenCapsule \/ CloseCapsule \/ WriteResult \/ Finish

Next == Step \/ CallFails \/ Killed \/ EditImporter

Spec == Init /\ [][Next]_vars

(* One thread.  Its own work and the calls of the validator, of Docker and *)
(* of the file system come to an end; run_bounded need not return for an   *)
(* importer that leaves a descendant with its streams (BoundedProcess), so *)
(* that nothing is assumed of a run.                                       *)
Own == digest = NoDigest /\ Step
FairSpec == Spec /\ WF_vars(Own)

-----------------------------------------------------------------------------
TypeOK ==
  /\ profile \in [Doc -> BOOLEAN]
  /\ importer \in [Doc -> (SUBSET Behaviour) \ {{}}]
  /\ version \in {1, 2} /\ occupied \in BOOLEAN
  /\ pc \in {"open", "validate", "write", "run", "check", "reduce",
             "evaluate", "recheck", "verify", "reproduce", "pack", "report",
             "finish"} \cup Ended
  /\ next \in Nat \ {0}
  /\ cache \in [Doc -> {"unknown", "valid", "invalid"}]
  /\ found \in [digest : {NoDigest, 1, 2}, signature : Behaviour]
  /\ digest \in {NoDigest, 1, 2}
  /\ current \in Doc
  /\ frontier \subseteq Doc
  /\ todo \in Seq(Doc)
  /\ seen \in Seq(Behaviour) /\ Len(seen) <= Reproductions
  /\ record \in [doc : Doc, digest : {NoDigest, 1, 2}, observations : Seq(Behaviour)]
  /\ disk \subseteq {"directory", "corpus", "partialCapsule", "capsule",
                     "result", "junit"}
  /\ status \in {0, 1, 2, Running}
  /\ ran \subseteq Doc /\ digests \subseteq {1, 2} /\ refuted \subseteq Doc
  /\ (pc \in {"stopped", "crashed"}) = (status # Running)

(* The importer is never run before the seed and the whole corpus passed   *)
(* the pinned profile, and never on a document that does not pass it       *)
(* ("Invalid candidates abort the campaign and never reach the importer",  *)
(* docs/architecture.md).                                                  *)
OnlyValidRun ==
  ran # {} => \A d \in Range(Cases) \cup ran : profile[d]

(* A capsule holds a valid invoice and the requested number of identical   *)
(* observations with the signature of the first match; each one-step       *)
(* reduction of the invoice had a verdict, and where that was valid the    *)
(* verification itself saw the importer not show the finding.              *)
CapsuleIsEvidence ==
  "capsule" \in disk =>
    /\ profile[record.doc]
    /\ \A d \in Range(Reduce[record.doc]) :
          cache[d] = "invalid" \/ (cache[d] = "valid" /\ d \in refuted)
    /\ Len(record.observations) = Reproductions
    /\ \E b \in Behaviour :
          /\ Matched(b) /\ Signature(b) = found.signature
          /\ Range(record.observations) = {b}

(* Every run of the importer behind a capsule, from the first match to the *)
(* last reproduction, had the digest the capsule records.                  *)
CapsuleHasOneDigest == "capsule" \in disk => digests = {record.digest}

(* No result file lists a finding whose capsule is missing or unfinished,  *)
(* wherever the campaign fails or is killed.                               *)
ResultNeverDangles ==
  "result" \in disk /\ record # NoRecord => "capsule" \in disk

(* Exit status 0 means that every candidate was run, none matched and the  *)
(* report says so.                                                         *)
CleanMeansClean ==
  status = 0 =>
    /\ found = NoFinding /\ "result" \in disk
    /\ Range(Candidates) \subseteq ran

(* The campaign ends, unless a run of the importer never returns: neither  *)
(* the loop of shrink_invoice nor any other goes on for ever, whatever the *)
(* importer answers (shrink.py:376).                                       *)
Ends == <>(pc \in Ended) \/ <>[](digest # NoDigest)

(* What is exported as 1-minimal is: the importer was seen not to show the *)
(* finding on every reduction that passes the profile ("Independent        *)
(* verification reruns every one-step reduction from the final invoice",   *)
(* docs/methodology.md).                                                   *)
OneMinimalIsMinimal ==
  "capsule" \in disk =>
    \A d \in Range(Reduce[record.doc]) : profile[d] => d \in refuted

(* Exit status 1 means that the campaign found a match ("1 when a campaign *)
(* finds a match ... and 2 for an operational or security error",          *)
(* README.md), a call aside that raised what nothing provides for.         *)
StatusOneMeansFinding ==
  status = 1 /\ pc # "crashed" => "capsule" \in disk

(* Search, reduction, reproduction and export implement the abstract       *)
(* evidence: what is on the disk and the exit status tell what was         *)
(* observed, at every moment and whatever fails, is replaced or is killed. *)
(* Status 1 answers "finding" where the last file was written; an          *)
(* exception that left main before that is a failure.                      *)
Answered ==
  CASE status = Running                  -> "none"
    [] status = 0                        -> "clean"
    [] status = 1 /\ "junit" \in disk    -> "finding"
    [] status = 1 /\ "junit" \notin disk -> "failed"
    [] status = 2                        -> "failed"
Claims == INSTANCE Evidence WITH
  verdicts <- cache,
  NoCapsule <- NoRecord,
  capsule <- IF "capsule" \in disk THEN record ELSE NoRecord,
  report <- IF "result" \notin disk THEN "none"
            ELSE IF record = NoRecord THEN "clean" ELSE "finding",
  answer <- Answered
ImplementsEvidence == Claims!ESpec

=============================================================================
